------------------------- MODULE MapperThreadsProofs -------------------------
(***************************************************************************)
(* Proofs about MapperThreads, for any number of threads, any walk of the  *)
(* searches, any settings and any costs: the exchange of the incumbents is *)
(* mutually exclusive, so that no thread holds a torn result; the counters *)
(* that end a thread mean what they say; and, when the order on costs is   *)
(* one, the mapper selects the best mapping any thread evaluated.          *)
(***************************************************************************)
EXTENDS MapperThreads, TLAPS

------------------------------------------------------------------------------
(* The inductive invariant *)

\* The results a thread may hold: none, or a mapping with its own stats.
Held == {NoResult} \cup {Valid(stats) : stats \in Costs}

Ids == {NoId} \cup {Walk[i] : i \in DOMAIN Walk}

Exchanging == {"pull", "push", "pushStats", "unlock"}

TypeOK ==
  /\ mainPc \in {"launch", "join", "select", "print", "finished"}
  /\ globalBest \in Held
  /\ compared \in 0 .. NumThreads
  /\ reevaluated \in BOOLEAN
  /\ signals \in Nat
  /\ lockOwner \in Threads \cup {Nobody}
  /\ pc \in [Threads -> {"idle", "check", "next", "lock", "map", "exited"} \cup Exchanging]
  /\ terminate \in [Threads -> BOOLEAN]
  /\ position \in [Threads -> 0 .. Len(Walk)]
  /\ current \in [Threads -> Ids]
  /\ previous \in [Threads -> Ids]
  /\ pulled \in [Threads -> BOOLEAN]
  /\ total \in [Threads -> Nat]
  /\ valid \in [Threads -> Nat]
  /\ invalid \in [Threads -> Nat]
  /\ sinceBest \in [Threads -> Nat]
  /\ threadBest \in [Threads -> Held]
  /\ found \in [Threads -> SUBSET Costs]
  /\ streak \in [Threads -> Nat]
  /\ late \in [Threads -> Nat]

\* The threads in the exchange are those that own the mutex: at most one.
MutexHeld == \A t \in Threads : pc[t] \in Exchanging <=> lockOwner = t

\* best_ is torn only while its owner is between the two copies, and then by
\* a result that is whole.
TornInside ==
  /\ (\A t \in Threads : pc[t] # "pushStats") => best \in Held
  /\ \A t \in Threads : pc[t] = "pushStats" =>
       /\ best \in [valid : {TRUE}, mapping : {threadBest[t].mapping}, stats : {best.stats}]
       /\ threadBest[t].valid

\* A thread that has reported a mapping after the signal reports no other: it
\* is on its way to the check of the flag, or past it.
LastReport ==
  \A t \in Threads :
    /\ late[t] <= 1
    /\ late[t] = 1 => /\ gTerminate
                      /\ \/ pc[t] \in {"check", "exited"}
                         \/ pc[t] = "next" /\ terminate[t]

IInv == TypeOK /\ MutexHeld /\ TornInside /\ LastReport /\ TimeoutIsConsecutive

\* The main thread selects when all threads have ended, one after the other.
SelectionOrder ==
  /\ mainPc \in {"launch", "join"} => compared = 0
  /\ mainPc = "select" => compared < NumThreads
  /\ mainPc \in {"print", "finished"} => compared = NumThreads
  /\ mainPc \in {"select", "print", "finished"} => \A t \in Threads : pc[t] = "exited"

\* Nothing a thread found beats what it holds, and nothing the threads compared
\* found beats what the main thread holds.
NothingBeatsHeld ==
  /\ \A t \in Threads : \A stats \in found[t] : ~Beats(stats, threadBest[t])
  /\ \A t \in 0 .. compared - 1 : \A stats \in found[t] : ~Beats(stats, globalBest)

------------------------------------------------------------------------------
(* Constants *)

LEMMA WalkIds ==
  /\ Len(Walk) \in Nat
  /\ \A i \in 1 .. Len(Walk) : Walk[i] \in Ids
<1>1. Walk \in Seq({Walk[i] : i \in DOMAIN Walk})
  BY ConfigAssumption DEF ConfigAssumption
<1> QED
  BY <1>1 DEF Ids

LEMMA ThreadIds ==
  /\ NumThreads \in Nat /\ NumThreads > 0
  /\ Threads = 0 .. NumThreads - 1
  /\ Nobody \notin Threads
  BY ConfigAssumption DEF ConfigAssumption, Threads, Nobody

------------------------------------------------------------------------------
(* Results *)

LEMMA HeldIs ==
  ASSUME NEW result \in Held
  PROVE  /\ result.valid \in BOOLEAN
         /\ result.mapping = result.stats
         /\ result.valid => result.stats \in Costs /\ result = Valid(result.stats)
<1>1. CASE result = NoResult
  BY <1>1 DEF NoResult
<1>2. CASE result # NoResult
  <2>1. PICK stats \in Costs : result = [valid |-> TRUE, mapping |-> stats, stats |-> stats]
    BY <1>2 DEF Held, Valid
  <2>2. result.valid = TRUE /\ result.mapping = stats /\ result.stats = stats
    BY <2>1
  <2> QED
    BY <2>1, <2>2 DEF Valid
<1> QED
  BY <1>1, <1>2

LEMMA ValidIsHeld ==
  ASSUME NEW stats \in Costs
  PROVE  Valid(stats) \in Held /\ Valid(stats).valid /\ Valid(stats).stats = stats
  BY DEF Held, Valid

\* UpdateIfBetter leaves one of the two.
LEMMA UpdateIsHeld ==
  ASSUME NEW result \in Held, NEW other \in Held
  PROVE  UpdateIfBetter(result, other) \in Held
  BY DEF UpdateIfBetter

\* A run of the exchange's second copy makes best_ whole again.
LEMMA CopiedIsHeld ==
  ASSUME NEW result \in Held, result.valid,
         NEW torn, torn \in [valid : {TRUE}, mapping : {result.mapping}, stats : {torn.stats}]
  PROVE  [torn EXCEPT !.stats = result.stats] = result
<1>1. result = [valid |-> TRUE, mapping |-> result.mapping, stats |-> result.stats]
  BY HeldIs DEF Valid
<1> DEFINE copied == [torn EXCEPT !.stats = result.stats]
<1>2. copied \in [valid : {TRUE}, mapping : {result.mapping}, stats : {result.stats}]
  OBVIOUS
<1> HIDE DEF copied
<1>3. copied = [valid |-> TRUE, mapping |-> result.mapping, stats |-> result.stats]
  BY ONLY <1>2
<1> QED
  BY <1>1, <1>3 DEF copied

LEMMA NoResultIsHeld == NoResult \in Held /\ ~NoResult.valid
  BY DEF Held, NoResult

\* Outside of the copies whoever is in the exchange finds best_ whole.
LEMMA BestIsHeld ==
  ASSUME TypeOK, MutexHeld, TornInside, NEW t \in Threads, pc[t] \in Exchanging, pc[t] # "pushStats"
  PROVE  best \in Held
<1>1. ASSUME NEW u \in Threads, pc[u] = "pushStats" PROVE FALSE
  <2>1. lockOwner = t /\ lockOwner = u
    BY <1>1 DEF MutexHeld, Exchanging
  <2> QED
    BY <1>1, <2>1
<1> QED
  BY <1>1 DEF TornInside

------------------------------------------------------------------------------
(* The inductive invariant: types *)

LEMMA TypeInit == Init => TypeOK
<1> SUFFICES ASSUME Init PROVE TypeOK
  OBVIOUS
<1>1. NoId \in Ids /\ 0 \in 0 .. Len(Walk) /\ 0 \in 0 .. NumThreads
  BY WalkIds, ThreadIds DEF Ids
<1>2. terminate \in [Threads -> BOOLEAN] /\ pulled \in [Threads -> BOOLEAN]
  BY Zenon DEF Init
<1>3. threadBest \in [Threads -> Held] /\ globalBest \in Held
  BY NoResultIsHeld DEF Init
<1> QED
  BY <1>1, <1>2, <1>3 DEF Init, TypeOK, Exchanging

\* The state a mapper thread leaves to the others and to the main thread.
LEMMA TypeRun ==
  ASSUME TypeOK, MutexHeld, TornInside, NEW t \in Threads, Run(t)
  PROVE  TypeOK'
<1> USE DEF mainVars, syncVars, searchVars, counters
<1>1. CASE Check(t)
  <2>1. MustStop(t) \in BOOLEAN
    BY DEF MustStop, SizeReached, VictoryReached, TimedOut, gTerminate
  <2>2. terminate' \in [Threads -> BOOLEAN]
    BY <1>1, <2>1, Zenon DEF Check, TypeOK
  <2> QED
    BY <1>1, <2>2 DEF Check, TypeOK
<1>2. CASE TakeNext(t)
  <2>1. PICK i \in position[t] + 1 .. Len(Walk) :
          /\ position' = [position EXCEPT ![t] = i]
          /\ current' = [current EXCEPT ![t] = Walk[i]]
    BY <1>2 DEF TakeNext
  <2>2. position[t] \in 0 .. Len(Walk)
    BY DEF TypeOK
  <2>3. i \in 0 .. Len(Walk) /\ Walk[i] \in Ids
    BY <2>2, WalkIds
  <2>4. position' \in [Threads -> 0 .. Len(Walk)] /\ current' \in [Threads -> Ids]
    BY <2>1, <2>3 DEF TypeOK
  <2> QED
    BY <1>2, <2>4 DEF TakeNext, TypeOK, Exchanging
<1>3. CASE SearchDone(t)
  BY <1>3 DEF SearchDone, TypeOK
<1>4. CASE Lock(t)
  BY <1>4 DEF Lock, TypeOK, Exchanging
<1>5. CASE Pull(t)
  <2>1. PullDue(t) \in BOOLEAN
    BY DEF PullDue, Improves
  <2>2. pulled' \in [Threads -> BOOLEAN]
    BY <1>5, <2>1, Zenon DEF Pull, TypeOK
  <2>3. best \in Held
    BY <1>5, BestIsHeld DEF Pull, Exchanging
  <2>4. threadBest' \in [Threads -> Held]
    BY <1>5, <2>3 DEF Pull, TypeOK
  <2> QED
    BY <1>5, <2>2, <2>4 DEF Pull, TypeOK, Exchanging
<1>6. CASE PushMapping(t)
  BY <1>6 DEF PushMapping, TypeOK, Exchanging
<1>7. CASE PushStats(t)
  BY <1>7 DEF PushStats, TypeOK, Exchanging
<1>8. CASE Unlock(t)
  BY <1>8 DEF Unlock, AfterSync, TypeOK, Exchanging
<1>9. ASSUME Reported(t)
      PROVE  /\ mainPc' = mainPc /\ globalBest' = globalBest /\ compared' = compared
             /\ reevaluated' = reevaluated /\ signals' = signals /\ lockOwner' = lockOwner
             /\ pc' \in [Threads -> {"idle", "check", "next", "lock", "map", "exited"} \cup Exchanging]
             /\ terminate' = terminate /\ pulled' = pulled
             /\ position' = position /\ current' = current
             /\ previous' \in [Threads -> Ids]
             /\ total' \in [Threads -> Nat] /\ late' \in [Threads -> Nat]
  <2>1. /\ pc' = [pc EXCEPT ![t] = "check"]
        /\ total' = [total EXCEPT ![t] = @ + 1]
        /\ previous' = [previous EXCEPT ![t] = current[t]]
        /\ late' = [late EXCEPT ![t] = IF gTerminate THEN @ + 1 ELSE @]
    BY <1>9 DEF Reported
  <2>2. total \in [Threads -> Nat] /\ late \in [Threads -> Nat]
    BY DEF TypeOK
  <2>3. total' \in [Threads -> Nat] /\ late' \in [Threads -> Nat]
    BY ONLY <2>1, <2>2, t \in Threads
  <2>4. previous' \in [Threads -> Ids]
    BY <2>1 DEF TypeOK
  <2> QED
    BY <1>9, <2>3, <2>4 DEF Reported, TypeOK
<1>10. valid \in [Threads -> Nat] /\ invalid \in [Threads -> Nat] /\ streak \in [Threads -> Nat]
  BY DEF TypeOK
<1>11. CASE ConstructionFails(t)
  <2>1. /\ Reported(t)
        /\ invalid' = [invalid EXCEPT ![t] = @ + 1] /\ streak' = [streak EXCEPT ![t] = @ + 1]
        /\ UNCHANGED <<valid, sinceBest, threadBest, found>>
    BY <1>11 DEF ConstructionFails
  <2>2. invalid' \in [Threads -> Nat] /\ streak' \in [Threads -> Nat]
    BY ONLY <1>10, <2>1, t \in Threads
  <2> QED
    BY <1>9, <2>1, <2>2 DEF TypeOK
<1>12. CASE EvaluationFails(t)
  <2>1. /\ Reported(t)
        /\ invalid' = [invalid EXCEPT ![t] = IF Counted(t) THEN @ + 1 ELSE @]
        /\ streak' = [streak EXCEPT ![t] = @ + 1]
        /\ UNCHANGED <<valid, sinceBest, threadBest, found>>
    BY <1>12 DEF EvaluationFails
  <2>2. invalid' \in [Threads -> Nat] /\ streak' \in [Threads -> Nat]
    BY ONLY <1>10, <2>1, t \in Threads
  <2> QED
    BY <1>9, <2>1, <2>2 DEF TypeOK
<1>13. CASE Succeeds(t)
  <2>1. PICK stats \in Costs :
          /\ found' = [found EXCEPT ![t] = @ \cup {stats}]
          /\ threadBest' = [threadBest EXCEPT ![t] = BestAfter(t, stats)]
          /\ sinceBest' = [sinceBest EXCEPT ![t] = SuboptimalAfter(t, stats)]
    BY <1>13 DEF Succeeds
  <2>2. BestAfter(t, stats) \in Held
    BY ValidIsHeld, UpdateIsHeld DEF BestAfter, TypeOK
  <2>3. threadBest' \in [Threads -> Held]
    BY <2>1, <2>2 DEF TypeOK
  <2>4. SuboptimalAfter(t, stats) \in Nat
    BY DEF SuboptimalAfter, TypeOK
  <2>5. sinceBest' \in [Threads -> Nat] /\ found' \in [Threads -> SUBSET Costs]
    BY <2>1, <2>4 DEF TypeOK
  <2>6. /\ valid' = [valid EXCEPT ![t] = @ + 1] /\ invalid' = [invalid EXCEPT ![t] = 0]
        /\ streak' = [streak EXCEPT ![t] = 0]
    BY <1>13 DEF Succeeds, InvalidAfter
  <2>7. /\ valid' \in [Threads -> Nat] /\ invalid' \in [Threads -> Nat] /\ streak' \in [Threads -> Nat]
    BY ONLY <1>10, <2>6, t \in Threads
  <2> QED
    BY <1>9, <1>13, <2>3, <2>5, <2>7 DEF Succeeds, TypeOK
<1> QED
  BY <1>1, <1>2, <1>3, <1>4, <1>5, <1>6, <1>7, <1>8, <1>11, <1>12, <1>13 DEF Run

LEMMA TypeMain ==
  ASSUME TypeOK, SelectionOrder, Main \/ Interrupt
  PROVE  TypeOK'
<1> USE DEF mainVars, syncVars, searchVars, counters
<1>1. CASE Launch
  BY <1>1 DEF Launch, TypeOK
<1>2. CASE Join
  BY <1>2 DEF Join, TypeOK
<1>3. CASE SelectBest
  <2>1. compared \in Threads /\ compared + 1 \in 0 .. NumThreads
    BY <1>3, ThreadIds DEF SelectBest, SelectionOrder, TypeOK
  <2>2. UpdateIfBetter(globalBest, threadBest[compared]) \in Held
    BY <2>1, UpdateIsHeld DEF TypeOK
  <2> QED
    BY <1>3, <2>1, <2>2 DEF SelectBest, TypeOK
<1>4. CASE PrintBest
  <2>1. globalBest.valid \in BOOLEAN
    BY HeldIs DEF TypeOK
  <2>2. reevaluated' \in BOOLEAN
    BY <1>4, <2>1 DEF PrintBest, gTerminateEval
  <2> QED
    BY <1>4, <2>2 DEF PrintBest, TypeOK
<1>5. CASE Interrupt
  BY <1>5 DEF Interrupt, TypeOK
<1> QED
  BY <1>1, <1>2, <1>3, <1>4, <1>5 DEF Main

------------------------------------------------------------------------------
(* The inductive invariant: the exchange and the counters *)

\* A thread's step moves no other thread and changes nothing that is another's.
LEMMA OthersStand ==
  ASSUME TypeOK, NEW t \in Threads, Run(t), NEW u \in Threads, u # t
  PROVE  /\ pc'[u] = pc[u] /\ terminate'[u] = terminate[u] /\ threadBest'[u] = threadBest[u]
         /\ invalid'[u] = invalid[u] /\ streak'[u] = streak[u] /\ late'[u] = late[u]
         /\ found'[u] = found[u]
<1> USE DEF mainVars, syncVars, searchVars, counters
<1>1. CASE Check(t)
  BY <1>1 DEF Check, TypeOK
<1>2. CASE TakeNext(t) \/ SearchDone(t)
  BY <1>2 DEF TakeNext, SearchDone, TypeOK
<1>3. CASE Lock(t) \/ Pull(t)
  BY <1>3 DEF Lock, Pull, TypeOK
<1>4. CASE PushMapping(t) \/ PushStats(t) \/ Unlock(t)
  BY <1>4 DEF PushMapping, PushStats, Unlock, TypeOK
<1>5. CASE ConstructionFails(t) \/ EvaluationFails(t)
  BY <1>5 DEF ConstructionFails, EvaluationFails, Reported, TypeOK
<1>6. CASE Succeeds(t)
  BY <1>6 DEF Succeeds, Reported, TypeOK
<1> QED
  BY <1>1, <1>2, <1>3, <1>4, <1>5, <1>6 DEF Run

\* Only the main thread changes what is its own; a step of a thread leaves
\* the signals as they are.
LEMMA RunLeavesMain ==
  ASSUME NEW t \in Threads, Run(t)
  PROVE  UNCHANGED <<mainPc, globalBest, compared, reevaluated, signals>>
<1> USE DEF mainVars, syncVars, searchVars, counters
<1>1. CASE Check(t) \/ TakeNext(t) \/ SearchDone(t) \/ Lock(t) \/ Pull(t)
  BY <1>1 DEF Check, TakeNext, SearchDone, Lock, Pull
<1>2. CASE PushMapping(t) \/ PushStats(t) \/ Unlock(t)
  BY <1>2 DEF PushMapping, PushStats, Unlock
<1>3. CASE ConstructionFails(t) \/ EvaluationFails(t) \/ Succeeds(t)
  BY <1>3 DEF ConstructionFails, EvaluationFails, Succeeds, Reported
<1> QED
  BY <1>1, <1>2, <1>3 DEF Run

LEMMA MutexRun ==
  ASSUME TypeOK, MutexHeld, NEW t \in Threads, Run(t)
  PROVE  MutexHeld'
<1> USE DEF mainVars, syncVars, searchVars, counters
<1>1. ASSUME NEW u \in Threads, u # t PROVE pc'[u] = pc[u]
  BY <1>1, OthersStand
<1>2. ASSUME lockOwner' = lockOwner, pc'[t] \in Exchanging <=> pc[t] \in Exchanging
      PROVE  MutexHeld'
  BY <1>1, <1>2 DEF MutexHeld
<1>3. CASE Check(t) \/ TakeNext(t) \/ SearchDone(t)
  <2>1. /\ lockOwner' = lockOwner
        /\ pc[t] \notin Exchanging /\ pc'[t] \notin Exchanging
    BY <1>3 DEF Check, TakeNext, SearchDone, TypeOK, Exchanging
  <2> QED
    BY <1>2, <2>1
<1>4. CASE Lock(t)
  <2>1. lockOwner = Nobody /\ lockOwner' = t /\ pc'[t] \in Exchanging
    BY <1>4 DEF Lock, MutexFree, TypeOK, Exchanging
  <2> QED
    BY <1>1, <2>1, ThreadIds DEF MutexHeld
<1>5. CASE Pull(t) \/ PushMapping(t) \/ PushStats(t)
  <2>1. lockOwner' = lockOwner /\ pc[t] \in Exchanging /\ pc'[t] \in Exchanging
    BY <1>5 DEF Pull, PushMapping, PushStats, TypeOK, Exchanging
  <2> QED
    BY <1>2, <2>1
<1>6. CASE Unlock(t)
  <2>1. lockOwner' = Nobody /\ pc[t] \in Exchanging /\ pc'[t] \notin Exchanging
    BY <1>6 DEF Unlock, AfterSync, TypeOK, Exchanging
  <2> QED
    BY <1>1, <2>1, ThreadIds DEF MutexHeld
<1>7. CASE ConstructionFails(t) \/ EvaluationFails(t) \/ Succeeds(t)
  <2>1. /\ lockOwner' = lockOwner
        /\ pc[t] \notin Exchanging /\ pc'[t] \notin Exchanging
    BY <1>7 DEF ConstructionFails, EvaluationFails, Succeeds, Reported, TypeOK, Exchanging
  <2> QED
    BY <1>2, <2>1
<1> QED
  BY <1>3, <1>4, <1>5, <1>6, <1>7 DEF Run

LEMMA TornRun ==
  ASSUME TypeOK, MutexHeld, TornInside, NEW t \in Threads, Run(t)
  PROVE  TornInside'
<1> USE DEF mainVars, syncVars, searchVars, counters
<1>1. ASSUME NEW u \in Threads, u # t
      PROVE  pc'[u] = pc[u] /\ threadBest'[u] = threadBest[u]
  BY <1>1, OthersStand
<1>2. ASSUME pc[t] \in Exchanging, NEW u \in Threads, u # t PROVE pc'[u] # "pushStats"
  BY <1>1, <1>2 DEF MutexHeld, Exchanging
<1>3. ASSUME best' = best, pc[t] # "pushStats", pc'[t] # "pushStats"
      PROVE  TornInside'
  BY <1>1, <1>3 DEF TornInside
<1>4. CASE Check(t) \/ TakeNext(t) \/ SearchDone(t) \/ Lock(t) \/ Pull(t) \/ Unlock(t)
  <2>1. best' = best /\ pc[t] # "pushStats" /\ pc'[t] # "pushStats"
    BY <1>4 DEF Check, TakeNext, SearchDone, Lock, Pull, Unlock, AfterSync, TypeOK
  <2> QED
    BY <1>3, <2>1
<1>5. CASE ConstructionFails(t) \/ EvaluationFails(t) \/ Succeeds(t)
  <2>1. best' = best /\ pc[t] # "pushStats" /\ pc'[t] # "pushStats"
    BY <1>5 DEF ConstructionFails, EvaluationFails, Succeeds, Reported, TypeOK
  <2> QED
    BY <1>3, <2>1
<1>6. CASE PushMapping(t)
  <2>1. best \in Held /\ threadBest[t].valid
    BY <1>6, BestIsHeld DEF PushMapping, PushDue, Improves, Exchanging
  <2>2. /\ best' = [best EXCEPT !.valid = TRUE, !.mapping = threadBest[t].mapping]
        /\ pc' = [pc EXCEPT ![t] = "pushStats"] /\ threadBest' = threadBest
    BY <1>6 DEF PushMapping
  <2>3. best \in [valid : {best.valid}, mapping : {best.mapping}, stats : {best.stats}]
    BY <2>1 DEF Held, NoResult, Valid
  <2>4. best' \in [valid : {TRUE}, mapping : {threadBest[t].mapping}, stats : {best.stats}]
    BY ONLY <2>2, <2>3
  <2>5. best' \in [valid : {TRUE}, mapping : {threadBest'[t].mapping}, stats : {best'.stats}]
    BY <2>2, <2>4
  <2>6. pc'[t] = "pushStats"
    BY <2>2 DEF TypeOK
  <2>7. \A u \in Threads : pc'[u] = "pushStats" => u = t
    BY <1>2, <1>6 DEF PushMapping, Exchanging
  <2> QED
    BY <2>1, <2>2, <2>5, <2>6, <2>7 DEF TornInside
<1>7. CASE PushStats(t)
  <2>1. /\ pc[t] = "pushStats" /\ pc' = [pc EXCEPT ![t] = "unlock"]
        /\ best' = [best EXCEPT !.stats = threadBest[t].stats]
    BY <1>7 DEF PushStats
  <2>2. threadBest[t] \in Held
    BY DEF TypeOK
  <2>3. /\ best \in [valid : {TRUE}, mapping : {threadBest[t].mapping}, stats : {best.stats}]
        /\ threadBest[t].valid
    BY <2>1 DEF TornInside
  <2>4. best' = threadBest[t]
    BY <2>1, <2>2, <2>3, CopiedIsHeld
  <2>5. \A u \in Threads : pc'[u] # "pushStats"
    BY <1>2, <2>1 DEF TypeOK, Exchanging
  <2> QED
    BY <2>2, <2>4, <2>5 DEF TornInside
<1> QED
  BY <1>4, <1>5, <1>6, <1>7 DEF Run

LEMMA LastReportRun ==
  ASSUME TypeOK, LastReport, NEW t \in Threads, Run(t)
  PROVE  LastReport'
<1> USE DEF mainVars, syncVars, searchVars, counters
<1>1. late[t] \in Nat /\ late[t] <= 1 /\ gTerminate' = gTerminate /\ gTerminate \in BOOLEAN
  BY RunLeavesMain DEF TypeOK, LastReport, gTerminate
<1>2. ASSUME /\ late'[t] <= 1
             /\ late'[t] = 1 => /\ gTerminate
                                /\ \/ pc'[t] \in {"check", "exited"}
                                   \/ pc'[t] = "next" /\ terminate'[t]
      PROVE  LastReport'
  <2>1. ASSUME NEW u \in Threads, u # t
        PROVE  late'[u] = late[u] /\ pc'[u] = pc[u] /\ terminate'[u] = terminate[u]
    BY <2>1, OthersStand
  <2> QED
    BY <1>1, <1>2, <2>1 DEF LastReport
<1>3. ASSUME late' = late, late[t] # 1 PROVE LastReport'
  BY <1>1, <1>2, <1>3
<1>4. CASE Check(t)
  <2>1. late' = late /\ pc'[t] = "next"
    BY <1>4 DEF Check, TypeOK
  <2>2. terminate'[t] = MustStop(t)
    BY <1>4, Zenon DEF Check, TypeOK
  <2>3. gTerminate => terminate'[t]
    BY <2>2 DEF MustStop
  <2>4. late[t] = 1 => gTerminate
    BY DEF LastReport
  <2> QED
    BY <1>1, <1>2, <2>1, <2>3, <2>4
<1>5. CASE TakeNext(t) \/ SearchDone(t)
  <2>1. late' = late /\ pc[t] = "next"
    BY <1>5 DEF TakeNext, SearchDone
  <2>2. terminate[t] => pc'[t] = "exited"
    BY <1>5 DEF TakeNext, SearchDone, TypeOK
  <2>3. late[t] = 1 => gTerminate /\ terminate[t]
    BY <2>1 DEF LastReport
  <2> QED
    BY <1>1, <1>2, <2>1, <2>2, <2>3
<1>6. CASE Lock(t) \/ Pull(t) \/ PushMapping(t) \/ PushStats(t) \/ Unlock(t)
  <2>1. late' = late /\ pc[t] \in {"lock", "pull", "push", "pushStats", "unlock"}
    BY <1>6 DEF Lock, Pull, PushMapping, PushStats, Unlock
  <2> QED
    BY <1>3, <2>1 DEF LastReport
<1>7. CASE ConstructionFails(t) \/ EvaluationFails(t) \/ Succeeds(t)
  <2>1. Reported(t)
    BY <1>7 DEF ConstructionFails, EvaluationFails, Succeeds
  <2>2. pc[t] = "map" /\ pc'[t] = "check"
    BY <2>1 DEF Reported, TypeOK
  <2>3. late[t] = 0
    BY <1>1, <2>2 DEF LastReport
  <2>4. late'[t] = IF gTerminate THEN late[t] + 1 ELSE late[t]
    BY <2>1 DEF Reported, TypeOK
  <2> QED
    BY <1>1, <1>2, <2>2, <2>3, <2>4
<1> QED
  BY <1>4, <1>5, <1>6, <1>7 DEF Run

LEMMA TimeoutRun ==
  ASSUME TypeOK, TimeoutIsConsecutive, NEW t \in Threads, Run(t)
  PROVE  TimeoutIsConsecutive'
<1> USE DEF mainVars, syncVars, searchVars, counters
<1>1. ASSUME /\ invalid'[t] <= streak'[t]
             /\ PenalizeBypass => invalid'[t] = streak'[t]
      PROVE  TimeoutIsConsecutive'
  <2>1. ASSUME NEW u \in Threads, u # t
        PROVE  invalid'[u] = invalid[u] /\ streak'[u] = streak[u]
    BY <2>1, OthersStand
  <2> QED
    BY <1>1, <2>1 DEF TimeoutIsConsecutive
<1>2. /\ invalid[t] \in Nat /\ streak[t] \in Nat /\ invalid[t] <= streak[t]
      /\ PenalizeBypass => invalid[t] = streak[t]
  BY DEF TypeOK, TimeoutIsConsecutive
<1>3. CASE UNCHANGED <<invalid, streak>>
  BY <1>1, <1>2, <1>3
<1>4. CASE ConstructionFails(t)
  <2>1. invalid'[t] = invalid[t] + 1 /\ streak'[t] = streak[t] + 1
    BY <1>4 DEF ConstructionFails, TypeOK
  <2> QED
    BY <1>1, <1>2, <2>1
<1>5. CASE EvaluationFails(t)
  <2>1. /\ invalid'[t] = IF Counted(t) THEN invalid[t] + 1 ELSE invalid[t]
        /\ streak'[t] = streak[t] + 1
    BY <1>5 DEF EvaluationFails, TypeOK
  <2>2. PenalizeBypass => Counted(t)
    BY DEF Counted
  <2> QED
    BY <1>1, <1>2, <2>1, <2>2
<1>6. CASE Succeeds(t)
  <2>1. invalid'[t] = 0 /\ streak'[t] = 0
    BY <1>6 DEF Succeeds, InvalidAfter, TypeOK
  <2> QED
    BY <1>1, <2>1
<1>7. CASE Check(t) \/ TakeNext(t) \/ SearchDone(t) \/ Lock(t) \/ Pull(t)
  BY <1>3, <1>7 DEF Check, TakeNext, SearchDone, Lock, Pull
<1>8. CASE PushMapping(t) \/ PushStats(t) \/ Unlock(t)
  BY <1>3, <1>8 DEF PushMapping, PushStats, Unlock
<1> QED
  BY <1>4, <1>5, <1>6, <1>7, <1>8 DEF Run

\* The main thread and the user leave the exchange alone.
LEMMA OthersMain ==
  ASSUME TypeOK, MutexHeld, TornInside, LastReport, TimeoutIsConsecutive, Main \/ Interrupt
  PROVE  (MutexHeld /\ TornInside /\ LastReport /\ TimeoutIsConsecutive)'
<1> USE DEF mainVars, syncVars, searchVars, counters
<1>1. CASE Launch
  <2>1. PICK t \in Threads : pc[t] = "idle" /\ pc' = [pc EXCEPT ![t] = "check"]
    BY <1>1 DEF Launch
  <2>2. UNCHANGED <<signals, best, lockOwner, terminate, invalid, streak, late, threadBest>>
    BY <1>1 DEF Launch
  <2>3. \A u \in Threads : u # t => pc'[u] = pc[u]
    BY <2>1 DEF TypeOK
  <2>4. pc'[t] = "check"
    BY <2>1 DEF TypeOK
  <2>5. MutexHeld'
    BY <2>1, <2>2, <2>3, <2>4 DEF MutexHeld, Exchanging
  <2>6. TornInside'
    BY <2>1, <2>2, <2>3, <2>4 DEF TornInside
  <2>7. LastReport'
    BY <2>1, <2>2, <2>3, <2>4 DEF LastReport, gTerminate
  <2> QED
    BY <2>2, <2>5, <2>6, <2>7 DEF TimeoutIsConsecutive
<1>2. CASE Join \/ SelectBest \/ PrintBest
  <2>1. UNCHANGED <<signals, pc, best, lockOwner, terminate, invalid, streak, late, threadBest>>
    BY <1>2 DEF Join, SelectBest, PrintBest
  <2> QED
    BY <2>1 DEF MutexHeld, TornInside, LastReport, TimeoutIsConsecutive, gTerminate
<1>3. CASE Interrupt
  <2>1. UNCHANGED <<pc, best, lockOwner, terminate, invalid, streak, late, threadBest>>
    BY <1>3 DEF Interrupt
  <2>2. gTerminate'
    BY <1>3 DEF Interrupt, TypeOK, gTerminate
  <2> QED
    BY <2>1, <2>2 DEF MutexHeld, TornInside, LastReport, TimeoutIsConsecutive
<1> QED
  BY <1>1, <1>2, <1>3 DEF Main

\* A thread that has left its loop takes no step.
LEMMA RunsBeforeExit ==
  ASSUME NEW t \in Threads, Run(t)
  PROVE  pc[t] # "exited"
<1>1. CASE Check(t) \/ TakeNext(t) \/ SearchDone(t) \/ Lock(t) \/ Pull(t)
  BY <1>1 DEF Check, TakeNext, SearchDone, Lock, Pull
<1>2. CASE PushMapping(t) \/ PushStats(t) \/ Unlock(t)
  BY <1>2 DEF PushMapping, PushStats, Unlock
<1>3. CASE ConstructionFails(t) \/ EvaluationFails(t) \/ Succeeds(t)
  BY <1>3 DEF ConstructionFails, EvaluationFails, Succeeds, Reported
<1> QED
  BY <1>1, <1>2, <1>3 DEF Run

\* The main thread joins the threads before it selects, and a thread that has
\* exited takes no step.
LEMMA SelectionStep ==
  ASSUME TypeOK, SelectionOrder, Main \/ Interrupt \/ \E t \in Threads : Run(t)
  PROVE  SelectionOrder'
<1> USE DEF mainVars, syncVars, searchVars, counters
<1>1. CASE Launch
  BY <1>1 DEF Launch, SelectionOrder
<1>2. CASE Join
  <2>1. compared = 0 /\ compared' = compared /\ mainPc' = "select" /\ pc' = pc
    BY <1>2 DEF Join, SelectionOrder
  <2>2. \A t \in Threads : pc[t] = "exited"
    BY <1>2 DEF Join
  <2> QED
    BY <2>1, <2>2, ThreadIds DEF SelectionOrder
<1>3. CASE SelectBest
  <2>1. /\ compared < NumThreads /\ compared \in 0 .. NumThreads
        /\ compared' = compared + 1 /\ pc' = pc
        /\ mainPc' = IF compared' = NumThreads THEN "print" ELSE "select"
        /\ \A t \in Threads : pc[t] = "exited"
    BY <1>3 DEF SelectBest, SelectionOrder, TypeOK
  <2> QED
    BY <2>1, ThreadIds DEF SelectionOrder
<1>4. CASE PrintBest
  BY <1>4 DEF PrintBest, SelectionOrder
<1>5. CASE Interrupt
  BY <1>5 DEF Interrupt, SelectionOrder
<1>6. ASSUME NEW t \in Threads, Run(t) PROVE SelectionOrder'
  <2>1. pc[t] # "exited"
    BY <1>6, RunsBeforeExit
  <2>2. mainPc' = mainPc /\ compared' = compared
    BY <1>6, RunLeavesMain
  <2> QED
    BY <1>6, <2>1, <2>2 DEF SelectionOrder
<1> QED
  BY <1>1, <1>2, <1>3, <1>4, <1>5, <1>6 DEF Main

------------------------------------------------------------------------------
(* Theorems *)

\* A stuttering step leaves every part of the invariant as it is.
LEMMA Stutter ==
  ASSUME IInv, SelectionOrder, UNCHANGED vars
  PROVE  (IInv /\ SelectionOrder)'
<1> USE DEF vars, mainVars, syncVars, searchVars, counters
<1>1. TypeOK'
  BY DEF IInv, TypeOK
<1>2. (MutexHeld /\ TornInside)'
  BY DEF IInv, MutexHeld, TornInside
<1>3. (LastReport /\ TimeoutIsConsecutive)'
  BY DEF IInv, LastReport, TimeoutIsConsecutive, gTerminate
<1>4. SelectionOrder'
  BY DEF SelectionOrder
<1> QED
  BY <1>1, <1>2, <1>3, <1>4 DEF IInv

\* The invariant of the mapper's threads (MapperThread::Run) and of the main
\* thread that waits for them (Mapper::Run).
THEOREM MapperInvariant == Spec => [](IInv /\ SelectionOrder)
<1>1. Init => IInv /\ SelectionOrder
  <2> SUFFICES ASSUME Init PROVE IInv /\ SelectionOrder
    OBVIOUS
  <2>1. TypeOK
    BY TypeInit
  <2>2. MutexHeld /\ TornInside
    BY ThreadIds, NoResultIsHeld DEF Init, MutexHeld, TornInside, Exchanging
  <2>3. LastReport /\ TimeoutIsConsecutive
    BY DEF Init, LastReport, TimeoutIsConsecutive
  <2>4. SelectionOrder
    BY DEF Init, SelectionOrder
  <2> QED
    BY <2>1, <2>2, <2>3, <2>4 DEF IInv
<1>2. IInv /\ SelectionOrder /\ [Next]_vars => (IInv /\ SelectionOrder)'
  <2> SUFFICES ASSUME IInv, SelectionOrder, [Next]_vars PROVE (IInv /\ SelectionOrder)'
    OBVIOUS
  <2>1. TypeOK /\ MutexHeld /\ TornInside /\ LastReport /\ TimeoutIsConsecutive
    BY DEF IInv
  <2>2. CASE Main \/ Interrupt
    BY <2>1, <2>2, TypeMain, OthersMain, SelectionStep DEF IInv
  <2>3. ASSUME NEW t \in Threads, Run(t) PROVE (IInv /\ SelectionOrder)'
    BY <2>1, <2>3, TypeRun, MutexRun, TornRun, LastReportRun, TimeoutRun, SelectionStep DEF IInv
  <2>4. CASE UNCHANGED vars
    BY <2>4, Stutter
  <2> QED
    BY <2>2, <2>3, <2>4 DEF Next, Stopped
<1> QED
  BY <1>1, <1>2, PTL DEF Spec

\* At most one thread is inside of the exchange of the incumbents, the one
\* that holds the mutex.
Exclusive ==
  \A t, u \in Threads : pc[t] \in Exchanging /\ pc[u] \in Exchanging => t = u

THEOREM ExchangeIsExclusive == Spec => []Exclusive
<1>1. IInv => Exclusive
  BY DEF IInv, MutexHeld, Exclusive
<1> QED
  BY <1>1, MapperInvariant, PTL

\* No thread, and not the mapper at the end, holds the mapping of one result
\* with the stats of another, though UpdateIfBetter copies them one by one.
THEOREM ResultsAreIntact == Spec => []ResultsIntact
<1>1. IInv => ResultsIntact
  <2> SUFFICES ASSUME IInv PROVE ResultsIntact
    OBVIOUS
  <2>1. globalBest \in Held /\ \A t \in Threads : threadBest[t] \in Held
    BY DEF IInv, TypeOK
  <2> QED
    BY <2>1, HeldIs DEF ResultsIntact, Intact
<1> QED
  BY <1>1, MapperInvariant, PTL

\* The counter compared with timeout never exceeds the invalid mappings since
\* the thread's last valid one, and equals them unless repeats in bypass are
\* forgiven.
THEOREM TimeoutCountsConsecutive == Spec => []TimeoutIsConsecutive
<1>1. IInv => TimeoutIsConsecutive
  BY DEF IInv
<1> QED
  BY <1>1, MapperInvariant, PTL

\* After the first SIGINT every thread reports at most one mapping more,
\* whether the signal falls before or after its check of the flag.
THEOREM OneMappingEndsThread == Spec => []OneMappingAfterSignal
<1>1. IInv => OneMappingAfterSignal
  BY DEF IInv, LastReport, OneMappingAfterSignal
<1> QED
  BY <1>1, MapperInvariant, PTL

------------------------------------------------------------------------------
(* The order on costs *)

\* IsBetter is an order on Costs: it never prefers both of two costs to the
\* other, and costs it finds as good as each other are interchangeable.  The
\* tolerance of IsBetter breaks this for some costs of several metrics; the
\* lemmas below give the costs for which it does not.
CostsOrdered ==
  /\ \A a, b \in Costs : IsBetter(a, b) => ~IsBetter(b, a)
  /\ \A a, b, c \in Costs : IsBetter(a, c) => IsBetter(a, b) \/ IsBetter(b, c)

\* What IsBetterRecursive_ answers at metric i, given its answer at the next.
Verdict(candidate, incumbent, i, later) ==
  LET gain == Improvement(candidate[i], incumbent[i])
  IN  IF ClearlyDifferent(candidate[i], incumbent[i])
        THEN IF gain > 0 THEN "Better" ELSE "Worse"
      ELSE IF i < Len(candidate) /\ later \in {"Better", "Worse"} THEN later
      ELSE IF gain > 0 THEN "SlightlyBetter" ELSE "SlightlyWorse"

LEMMA BetternessIs ==
  ASSUME NEW a, NEW b, Len(a) \in {1, 2}
  PROVE  Betterness(a, b) =
           Verdict(a, b, 1, IF Len(a) = 2 THEN Verdict(a, b, 2, "none") ELSE "none")
<1> DEFINE Verdicts(f) ==
             [i \in 1 .. Len(a) |->
               LET gain == Improvement(a[i], b[i])
                   slight == IF gain > 0 THEN "SlightlyBetter" ELSE "SlightlyWorse"
               IN  IF ClearlyDifferent(a[i], b[i])
                     THEN IF gain > 0 THEN "Better" ELSE "Worse"
                   ELSE IF i < Len(a) /\ f[i + 1] \in {"Better", "Worse"}
                     THEN f[i + 1]
                   ELSE slight]
           verdict == CHOOSE f : f = Verdicts(f)
<1>1. Betterness(a, b) = verdict[1]
  BY Zenon DEF Betterness
<1>2. \E f : f = Verdicts(f)
  <2> DEFINE last == IF Len(a) = 2 THEN Verdict(a, b, 2, "none") ELSE "none"
             f == [i \in 1 .. Len(a) |-> IF i = 2 THEN last ELSE Verdict(a, b, i, last)]
  <2>1. f = Verdicts(f)
    BY DEF Verdict
  <2> QED
    BY <2>1
<1> HIDE DEF Verdicts
<1>3. verdict = Verdicts(verdict)
  BY <1>2
<1> HIDE DEF verdict
<1>4. verdict[1] = Verdict(a, b, 1, verdict[2])
  BY <1>3 DEF Verdicts, Verdict
<1>5. CASE Len(a) = 2
  <2>1. verdict[2] = Verdict(a, b, 2, "none")
    BY <1>3, <1>5 DEF Verdicts, Verdict
  <2> QED
    BY <1>1, <1>4, <1>5, <2>1
<1>6. CASE Len(a) = 1
  BY <1>1, <1>4, <1>6 DEF Verdict
<1> QED
  BY <1>5, <1>6

\* With one metric the tolerance does not matter: the smaller cost is better.
LEMMA OneMetricIsBetter ==
  ASSUME NEW a \in Seq(Nat), NEW b \in Seq(Nat), Len(a) = 1, Len(b) = 1
  PROVE  IsBetter(a, b) <=> a[1] < b[1]
<1>1. a[1] \in Nat /\ b[1] \in Nat
  OBVIOUS
<1>2. Betterness(a, b) = Verdict(a, b, 1, "none")
  BY BetternessIs DEF Verdict
<1>3. ClearlyDifferent(a[1], b[1]) => a[1] # b[1]
  BY <1>1 DEF ClearlyDifferent, Improvement, Magnitude, ToleranceInverse
<1> QED
  BY <1>1, <1>2, <1>3 DEF Verdict, IsBetter, Improvement

\* With two metrics IsBetter is the lexicographic order of costs that differ
\* clearly where they differ.
LEMMA TwoMetricsAreBetter ==
  ASSUME NEW a \in Seq(Nat), NEW b \in Seq(Nat), Len(a) = 2, Len(b) = 2,
         \A i \in 1 .. 2 : a[i] # b[i] => ClearlyDifferent(a[i], b[i])
  PROVE  IsBetter(a, b) <=> a[1] < b[1] \/ (a[1] = b[1] /\ a[2] < b[2])
<1>1. a[1] \in Nat /\ b[1] \in Nat /\ a[2] \in Nat /\ b[2] \in Nat
  OBVIOUS
<1>2. Betterness(a, b) = Verdict(a, b, 1, Verdict(a, b, 2, "none"))
  BY BetternessIs
<1>3. \A i \in 1 .. 2 : ClearlyDifferent(a[i], b[i]) <=> a[i] # b[i]
  BY <1>1 DEF ClearlyDifferent, Improvement, Magnitude, ToleranceInverse
<1>4. Verdict(a, b, 2, "none") = IF a[2] = b[2] THEN "SlightlyWorse"
                                 ELSE IF a[2] < b[2] THEN "Better" ELSE "Worse"
  BY <1>1, <1>3 DEF Verdict, Improvement
<1>5. Verdict(a, b, 1, Verdict(a, b, 2, "none")) =
        IF a[1] # b[1] THEN (IF a[1] < b[1] THEN "Better" ELSE "Worse")
        ELSE IF a[2] # b[2] THEN (IF a[2] < b[2] THEN "Better" ELSE "Worse")
        ELSE "SlightlyWorse"
  BY <1>1, <1>3, <1>4 DEF Verdict, Improvement
<1> QED
  BY <1>1, <1>2, <1>5 DEF IsBetter

SingleMetric == \A a \in Costs : Len(a) = 1

ClearTwoMetrics ==
  /\ \A a \in Costs : Len(a) = 2
  /\ \A a, b \in Costs : \A i \in 1 .. 2 : a[i] # b[i] => ClearlyDifferent(a[i], b[i])

\* IsBetter is an order on costs of one metric, and on costs of two metrics
\* without near ties (mapper-thread.cpp's tolerance of 0.001).
THEOREM IsBetterIsAnOrder == SingleMetric \/ ClearTwoMetrics => CostsOrdered
<1>1. Costs \subseteq Seq(Nat)
  BY ConfigAssumption DEF ConfigAssumption
<1>2. CASE SingleMetric
  <2>1. \A a, b \in Costs : IsBetter(a, b) <=> a[1] < b[1]
    BY <1>1, <1>2, OneMetricIsBetter DEF SingleMetric
  <2>2. \A a \in Costs : a[1] \in Nat
    BY <1>1, <1>2 DEF SingleMetric
  <2> QED
    BY <2>1, <2>2 DEF CostsOrdered
<1>3. CASE ClearTwoMetrics
  <2>1. \A a, b \in Costs : IsBetter(a, b) <=> a[1] < b[1] \/ (a[1] = b[1] /\ a[2] < b[2])
    BY <1>1, <1>3, TwoMetricsAreBetter DEF ClearTwoMetrics
  <2>2. \A a \in Costs : a[1] \in Nat /\ a[2] \in Nat
    BY <1>1, <1>3 DEF ClearTwoMetrics
  <2> QED
    BY <2>1, <2>2 DEF CostsOrdered
<1> QED
  BY <1>2, <1>3

------------------------------------------------------------------------------
(* The best mapping is selected *)

\* UpdateIfBetter loses nothing: what beats neither of two results does not
\* beat the one it keeps, and what it keeps is not beaten by either.
LEMMA UpdateKeeps ==
  ASSUME CostsOrdered, NEW result \in Held, NEW other \in Held, NEW stats \in Costs,
         ~Beats(stats, result) \/ ~Beats(stats, other)
  PROVE  ~Beats(stats, UpdateIfBetter(result, other))
<1>1. /\ result.valid => result.stats \in Costs
      /\ other.valid => other.stats \in Costs
  BY HeldIs
<1>2. /\ \A a, b \in Costs : IsBetter(a, b) => ~IsBetter(b, a)
      /\ \A a, b, c \in Costs : IsBetter(a, c) => IsBetter(a, b) \/ IsBetter(b, c)
  BY DEF CostsOrdered
<1>3. CASE Improves(result, other)
  <2>1. UpdateIfBetter(result, other) = other
    BY <1>3 DEF UpdateIfBetter
  <2> QED
    BY <1>1, <1>2, <1>3, <2>1 DEF Beats, Improves
<1>4. CASE ~Improves(result, other)
  <2>1. UpdateIfBetter(result, other) = result
    BY <1>4 DEF UpdateIfBetter
  <2> QED
    BY <1>1, <1>2, <1>4, <2>1 DEF Beats, Improves
<1> QED
  BY <1>3, <1>4

LEMMA ValidNotBeaten ==
  ASSUME CostsOrdered, NEW stats \in Costs
  PROVE  ~Beats(stats, Valid(stats))
  BY ValidIsHeld DEF CostsOrdered, Beats

\* What a thread holds after a step of its own is the better of what it held
\* and of what it met; it adds to found only what it compared.
LEMMA NothingBeatsRun ==
  ASSUME CostsOrdered, IInv, SelectionOrder, NothingBeatsHeld, NEW t \in Threads, Run(t)
  PROVE  NothingBeatsHeld'
<1> USE DEF mainVars, syncVars, searchVars, counters
<1>1. compared' = compared /\ globalBest' = globalBest
  BY RunLeavesMain
<1>2. compared = 0
  BY RunsBeforeExit DEF SelectionOrder, IInv, TypeOK
<1>3. ASSUME NEW u \in Threads, u # t
      PROVE  threadBest'[u] = threadBest[u] /\ found'[u] = found[u]
  BY <1>3, OthersStand DEF IInv
<1>4. ASSUME \A stats \in found'[t] : ~Beats(stats, threadBest'[t])
      PROVE  NothingBeatsHeld'
  BY <1>1, <1>2, <1>3, <1>4 DEF NothingBeatsHeld
<1>5. threadBest[t] \in Held /\ found[t] \subseteq Costs
  BY DEF IInv, TypeOK
<1>6. \A stats \in found[t] : ~Beats(stats, threadBest[t])
  BY DEF NothingBeatsHeld
<1>7. CASE UNCHANGED <<threadBest, found>>
  BY <1>4, <1>6, <1>7
<1>8. CASE Pull(t)
  <2>1. best \in Held
    BY <1>8, BestIsHeld DEF IInv, Pull, Exchanging
  <2>2. found' = found /\ threadBest'[t] = UpdateIfBetter(threadBest[t], best)
    BY <1>8 DEF Pull, PullDue, UpdateIfBetter, IInv, TypeOK
  <2> QED
    BY <1>4, <1>5, <1>6, <2>1, <2>2, UpdateKeeps
<1>9. CASE Succeeds(t)
  <2>1. PICK stats \in Costs :
          /\ found' = [found EXCEPT ![t] = @ \cup {stats}]
          /\ threadBest' = [threadBest EXCEPT ![t] = BestAfter(t, stats)]
    BY <1>9 DEF Succeeds
  <2>2. /\ found'[t] = found[t] \cup {stats}
        /\ threadBest'[t] = UpdateIfBetter(threadBest[t], Valid(stats))
    BY <2>1 DEF BestAfter, IInv, TypeOK
  <2>3. ~Beats(stats, Valid(stats)) /\ Valid(stats) \in Held
    BY ValidNotBeaten, ValidIsHeld
  <2> QED
    BY <1>4, <1>5, <1>6, <2>2, <2>3, UpdateKeeps
<1>10. CASE Check(t) \/ TakeNext(t) \/ SearchDone(t) \/ Lock(t)
  BY <1>7, <1>10 DEF Check, TakeNext, SearchDone, Lock
<1>11. CASE PushMapping(t) \/ PushStats(t) \/ Unlock(t)
  BY <1>7, <1>11 DEF PushMapping, PushStats, Unlock
<1>12. CASE ConstructionFails(t) \/ EvaluationFails(t)
  BY <1>7, <1>12 DEF ConstructionFails, EvaluationFails
<1> QED
  BY <1>8, <1>9, <1>10, <1>11, <1>12 DEF Run

LEMMA NothingBeatsMain ==
  ASSUME CostsOrdered, IInv, SelectionOrder, NothingBeatsHeld, Main \/ Interrupt
  PROVE  NothingBeatsHeld'
<1> USE DEF mainVars, syncVars, searchVars, counters
<1>1. CASE SelectBest
  <2>1. /\ compared' = compared + 1 /\ compared \in Nat
        /\ globalBest' = UpdateIfBetter(globalBest, threadBest[compared])
        /\ UNCHANGED <<threadBest, found>>
    BY <1>1 DEF SelectBest, IInv, TypeOK
  <2>2. compared \in Threads /\ \A t \in 0 .. compared : t \in Threads
    BY <1>1, ThreadIds DEF SelectBest, SelectionOrder, IInv, TypeOK
  <2>3. globalBest \in Held /\ threadBest[compared] \in Held
    BY <2>2 DEF IInv, TypeOK
  <2>4. ASSUME NEW t \in 0 .. compared, NEW stats \in found[t]
        PROVE  ~Beats(stats, UpdateIfBetter(globalBest, threadBest[compared]))
    <3>1. stats \in Costs
      BY <2>2, <2>4 DEF IInv, TypeOK
    <3>2. ~Beats(stats, globalBest) \/ ~Beats(stats, threadBest[compared])
      BY <2>1, <2>2, <2>4 DEF NothingBeatsHeld
    <3> QED
      BY <2>3, <3>1, <3>2, UpdateKeeps
  <2> QED
    BY <2>1, <2>4 DEF NothingBeatsHeld
<1>2. CASE Launch \/ Join \/ PrintBest \/ Interrupt
  <2>1. UNCHANGED <<compared, globalBest, threadBest, found>>
    BY <1>2 DEF Launch, Join, PrintBest, Interrupt
  <2> QED
    BY <2>1 DEF NothingBeatsHeld
<1> QED
  BY <1>1, <1>2 DEF Main

\* The mapping the mapper reports is as good as every mapping any of its
\* threads evaluated, however they exchanged their bests, when the costs are
\* ones that IsBetter orders.
THEOREM BestIsSelected ==
  ASSUME CostsOrdered
  PROVE  Spec => []GlobalBestIsBest
<1>1. Init => NothingBeatsHeld
  BY DEF Init, NothingBeatsHeld
<1>2. IInv /\ SelectionOrder /\ NothingBeatsHeld /\ [Next]_vars => NothingBeatsHeld'
  <2> SUFFICES ASSUME IInv, SelectionOrder, NothingBeatsHeld, [Next]_vars
               PROVE  NothingBeatsHeld'
    OBVIOUS
  <2>1. CASE Main \/ Interrupt
    BY <2>1, NothingBeatsMain
  <2>2. ASSUME NEW t \in Threads, Run(t) PROVE NothingBeatsHeld'
    BY <2>2, NothingBeatsRun
  <2>3. CASE UNCHANGED vars
    BY <2>3 DEF vars, mainVars, counters, NothingBeatsHeld
  <2> QED
    BY <2>1, <2>2, <2>3 DEF Next, Stopped
<1>3. IInv /\ SelectionOrder /\ NothingBeatsHeld => GlobalBestIsBest
  <2> SUFFICES ASSUME SelectionOrder, NothingBeatsHeld, mainPc \in {"print", "finished"},
                      NEW stats \in AllFound
               PROVE  ~Beats(stats, globalBest)
    BY DEF GlobalBestIsBest
  <2>1. PICK t \in Threads : stats \in found[t]
    BY DEF AllFound
  <2>2. t \in 0 .. compared - 1
    BY ThreadIds DEF SelectionOrder
  <2> QED
    BY <2>1, <2>2 DEF NothingBeatsHeld
<1> QED
  BY <1>1, <1>2, <1>3, MapperInvariant, PTL DEF Spec
=============================================================================
