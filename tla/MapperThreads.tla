---------------------------- MODULE MapperThreads ----------------------------
(***************************************************************************)
(* The mapper's threads (MapperThread::Run in src/src/applications/mapper/ *)
(* mapper-thread.cpp) and the main thread that starts them, joins them and *)
(* picks the global best (Mapper::Run in mapper.cpp).                      *)
(*                                                                         *)
(* Each thread walks its own split of the mapspace; the search is taken by *)
(* its contract (SearchAlgorithm): every Next hands out a new ID of the    *)
(* split, further on in the search's walk (the search may skip as many as  *)
(* it likes), or declares the search done.  Threads share the incumbent best_,  *)
(* guarded by one mutex, and the flags the SIGINT handler sets.  Logging,  *)
(* the live status display and the diagnostics tables are left out, and so *)
(* are the lock acquisitions that only guard output.                       *)
(*                                                                         *)
(* gTerminate is a plain bool written by a signal handler.  The loop calls *)
(* opaque functions in every iteration, so a build rereads it each time;   *)
(* the read and the Next that follows it are separate steps here.          *)
(***************************************************************************)
EXTENDS FiniteSets, FiniteSetsExt, Integers, Sequences

(***************************************************************************)
(* EvaluationResult and the order on results that the mapper optimises by  *)
(* (src/src/applications/mapper/mapper-thread.cpp).  A result carries the  *)
(* costs of its mapping, one per optimization metric, most significant     *)
(* first.                                                                  *)
(*                                                                         *)
(* The code compares costs as doubles; here they are exact naturals.       *)
(***************************************************************************)

\* The reciprocal of the tolerance 0.001.
ToleranceInverse == 1000

Improvement(candidate, incumbent) == incumbent - candidate

Magnitude(n) == IF n < 0 THEN -n ELSE n

\* |relative improvement| > tolerance.  A zero incumbent cost divides by the
\* candidate's cost instead, which makes any other cost clearly worse.
ClearlyDifferent(candidate, incumbent) ==
  IF incumbent = 0
    THEN candidate # 0
    ELSE ToleranceInverse * Magnitude(Improvement(candidate, incumbent)) > incumbent

\* IsBetterRecursive_: a clear difference in a metric decides; within the
\* tolerance a clear verdict of the later metrics does, and only if there is
\* none the slight difference here.  Equality prefers the incumbent.
Betterness(candidate, incumbent) ==
  LET verdict[i \in 1 .. Len(candidate)] ==
        LET gain == Improvement(candidate[i], incumbent[i])
            slight == IF gain > 0 THEN "SlightlyBetter" ELSE "SlightlyWorse"
        IN  IF ClearlyDifferent(candidate[i], incumbent[i])
              THEN IF gain > 0 THEN "Better" ELSE "Worse"
            ELSE IF i < Len(candidate) /\ verdict[i + 1] \in {"Better", "Worse"}
              THEN verdict[i + 1]
            ELSE slight
  IN  verdict[1]

IsBetter(candidate, incumbent) ==
  Betterness(candidate, incumbent) \in {"Better", "SlightlyBetter"}

\* A result names the mapping its stats belong to by those stats, so that a
\* torn copy shows.
NoResult == [valid |-> FALSE, mapping |-> <<>>, stats |-> <<>>]

Valid(stats) == [valid |-> TRUE, mapping |-> stats, stats |-> stats]

\* Whether UpdateIfBetter replaces result by other, and what it leaves.
Improves(result, other) ==
  other.valid /\ (result.valid => IsBetter(other.stats, result.stats))

UpdateIfBetter(result, other) == IF Improves(result, other) THEN other ELSE result

-----------------------------------------------------------------------------
CONSTANTS
  NumThreads,          \* num_threads
  SearchSizeSetting,   \* the knob search_size, 0 if unlimited
  Timeout,             \* timeout
  VictoryCondition,    \* victory_condition, 0 if unlimited
  SyncInterval,        \* sync_interval, 0 for no exchange
  PenalizeBypass,      \* penalize_consecutive_bypass_fails
  Walk,                \* the mapping IDs of a split, in the order of the search
  Costs,               \* the stats a valid mapping may evaluate to
  MaxSignals           \* bound on the SIGINTs the user sends, at most 2

ASSUME ConfigAssumption ==
  /\ NumThreads \in Nat \ {0}
  /\ {SearchSizeSetting, Timeout, VictoryCondition, SyncInterval, MaxSignals} \subseteq Nat
  /\ MaxSignals <= 2
  /\ PenalizeBypass \in BOOLEAN
  /\ Costs \subseteq Seq(Nat)
  /\ Walk \in Seq({Walk[i] : i \in DOMAIN Walk})
  /\ \A i \in DOMAIN Walk : DOMAIN Walk[i] = {"point", "bypass"}

Threads == 0 .. NumThreads - 1

\* search_size is divided between the threads, rounding up.
SearchSize ==
  IF SearchSizeSetting > 0 THEN 1 + (SearchSizeSetting - 1) \div NumThreads ELSE 0

NoId == [point |-> "none", bypass |-> "none"]

Nobody == -1

VARIABLES
  mainPc,       \* where Mapper::Run stands
  globalBest,   \* global_best_
  compared,     \* the threads whose best Mapper::Run has compared with it
  reevaluated,  \* whether the engine that prints the final stats is evaluated
  signals,      \* SIGINTs received; 1 sets gTerminate, 2 gTerminateEval
  best,         \* best_, shared by the threads
  lockOwner,    \* the thread that holds the mutex
  pc,           \* where each thread's Run stands
  terminate,    \* terminate, of the current iteration
  position,     \* how far in Walk the thread's search is
  current,      \* mapping_id
  previous,     \* prev_mapping_id
  pulled,       \* global_pulled
  total,        \* total_mappings
  valid,        \* valid_mappings
  invalid,      \* invalid_mappings_mapcnstr + invalid_mappings_eval
  sinceBest,    \* mappings_since_last_best_update
  threadBest,   \* stats_.thread_best
  found,        \* history: the stats of the valid mappings each thread evaluated
  streak,       \* history: invalid mappings since each thread's last valid one
  late          \* history: mappings each thread reported after the first SIGINT

mainVars == <<mainPc, globalBest, compared, reevaluated>>
syncVars == <<best, lockOwner, pulled>>
searchVars == <<position, current>>
counters == <<previous, total, valid, invalid, sinceBest, found, streak, late>>
vars == <<mainVars, signals, syncVars, searchVars, counters, pc, terminate, threadBest>>

gTerminate == signals >= 1
gTerminateEval == signals >= 2

Init ==
  /\ mainPc = "launch"
  /\ globalBest = NoResult
  /\ compared = 0
  /\ reevaluated = FALSE
  /\ signals = 0
  /\ best = NoResult
  /\ lockOwner = Nobody
  /\ pc = [t \in Threads |-> "idle"]
  /\ terminate = [t \in Threads |-> FALSE]
  /\ position = [t \in Threads |-> 0]
  /\ current = [t \in Threads |-> NoId]
  /\ previous = [t \in Threads |-> NoId]
  /\ pulled = [t \in Threads |-> FALSE]
  /\ total = [t \in Threads |-> 0]
  /\ valid = [t \in Threads |-> 0]
  /\ invalid = [t \in Threads |-> 0]
  /\ sinceBest = [t \in Threads |-> 0]
  /\ threadBest = [t \in Threads |-> NoResult]
  /\ found = [t \in Threads |-> {}]
  /\ streak = [t \in Threads |-> 0]
  /\ late = [t \in Threads |-> 0]

-----------------------------------------------------------------------------
\* A mapper thread.

SizeReached(t) == SearchSize > 0 /\ valid[t] >= SearchSize

VictoryReached(t) == VictoryCondition > 0 /\ sinceBest[t] >= VictoryCondition

TimedOut(t) == invalid[t] > 0 /\ invalid[t] >= Timeout

MustStop_IgnoresSignal(t) == SizeReached(t) \/ VictoryReached(t) \/ TimedOut(t)

MustStop(t) == gTerminate \/ SizeReached(t) \/ VictoryReached(t) \/ TimedOut(t)

\* The termination conditions at the top of the loop.
Check(t) ==
  /\ pc[t] = "check"
  /\ terminate' = [terminate EXCEPT ![t] = MustStop(t)]
  /\ pc' = [pc EXCEPT ![t] = "next"]
  /\ UNCHANGED <<mainVars, signals, syncVars, searchVars, counters, threadBest>>

SyncDue(t) == total[t] # 0 /\ SyncInterval > 0 /\ total[t] % SyncInterval = 0

\* search_->Next is called even by a thread that has decided to terminate;
\* the ID it hands out is then dropped.
TakeNext(t) ==
  /\ pc[t] = "next"
  /\ \E i \in position[t] + 1 .. Len(Walk) :
       /\ position' = [position EXCEPT ![t] = i]
       /\ current' = [current EXCEPT ![t] = Walk[i]]
  /\ pc' = [pc EXCEPT ![t] = IF terminate[t] THEN "exited"
                             ELSE IF SyncDue(t) THEN "lock" ELSE "map"]
  /\ UNCHANGED <<mainVars, signals, syncVars, counters, terminate, threadBest>>

\* The search is done: Next returns false.
SearchDone(t) ==
  /\ pc[t] = "next"
  /\ pc' = [pc EXCEPT ![t] = "exited"]
  /\ UNCHANGED <<mainVars, signals, syncVars, searchVars, counters, terminate, threadBest>>

MutexFree_Always == TRUE

MutexFree == lockOwner = Nobody

\* The periodic sync runs under the mutex.
Lock(t) ==
  /\ pc[t] = "lock"
  /\ MutexFree
  /\ lockOwner' = t
  /\ pc' = [pc EXCEPT ![t] = "pull"]
  /\ UNCHANGED <<mainVars, signals, best, pulled, searchVars, counters, terminate, threadBest>>

PullDue_Always(t) == best.valid

PullDue(t) == Improves(threadBest[t], best)

\* Sync from the global best to thread_best.
Pull(t) ==
  /\ pc[t] = "pull"
  /\ pulled' = [pulled EXCEPT ![t] = PullDue(t)]
  /\ threadBest' = [threadBest EXCEPT ![t] = IF PullDue(t) THEN best ELSE @]
  /\ pc' = [pc EXCEPT ![t] = "push"]
  /\ UNCHANGED <<mainVars, signals, best, lockOwner, searchVars, counters, terminate>>

PushDue(t) == ~pulled[t] /\ Improves(best, threadBest[t])

\* Sync from thread_best to the global best.  UpdateIfBetter copies the
\* mapping and the stats one after the other.
PushMapping(t) ==
  /\ pc[t] = "push"
  /\ PushDue(t)
  /\ best' = [best EXCEPT !.valid = TRUE, !.mapping = threadBest[t].mapping]
  /\ pc' = [pc EXCEPT ![t] = "pushStats"]
  /\ UNCHANGED <<mainVars, signals, lockOwner, pulled, searchVars, counters, terminate, threadBest>>

PushStats(t) ==
  /\ pc[t] = "pushStats"
  /\ best' = [best EXCEPT !.stats = threadBest[t].stats]
  /\ pc' = [pc EXCEPT ![t] = "unlock"]
  /\ UNCHANGED <<mainVars, signals, lockOwner, pulled, searchVars, counters, terminate, threadBest>>

AfterSync_WaitsForBest == IF best.valid THEN "map" ELSE "lock"

\* The sync is one attempt, not a barrier: the thread then goes on with its
\* mapping, whether or not any thread has a best yet.
AfterSync == "map"

Unlock(t) ==
  /\ pc[t] = "unlock" \/ (pc[t] = "push" /\ ~PushDue(t))
  /\ lockOwner' = Nobody
  /\ pc' = [pc EXCEPT ![t] = AfterSync]
  /\ UNCHANGED <<mainVars, signals, best, pulled, searchVars, counters, terminate, threadBest>>

DiffersInBypassOnly(t) ==
  /\ current[t].point = previous[t].point
  /\ current[t].bypass # previous[t].bypass

\* only_bypass_changed, computed from the third mapping on.
OnlyBypassChanged(t) == total[t] > 1 /\ DiffersInBypassOnly(t)

Counted(t) == PenalizeBypass \/ ~OnlyBypassChanged(t)

\* What every outcome of a mapping does: the mapping is counted, remembered
\* as the previous one and reported to the search.
Reported(t) ==
  /\ pc[t] = "map"
  /\ pc' = [pc EXCEPT ![t] = "check"]
  /\ total' = [total EXCEPT ![t] = @ + 1]
  /\ previous' = [previous EXCEPT ![t] = current[t]]
  /\ late' = [late EXCEPT ![t] = IF gTerminate THEN @ + 1 ELSE @]
  /\ UNCHANGED <<mainVars, signals, syncVars, searchVars, terminate>>

\* ConstructMapping fails, or the mapping has too many temporal loops.
ConstructionFails(t) ==
  /\ Reported(t)
  /\ invalid' = [invalid EXCEPT ![t] = @ + 1]
  /\ streak' = [streak EXCEPT ![t] = @ + 1]
  /\ UNCHANGED <<valid, sinceBest, threadBest, found>>

\* PreEvaluationCheck or Evaluate fails; after a second SIGINT every
\* evaluation does.
EvaluationFails(t) ==
  /\ Reported(t)
  /\ invalid' = [invalid EXCEPT ![t] = IF Counted(t) THEN @ + 1 ELSE @]
  /\ streak' = [streak EXCEPT ![t] = @ + 1]
  /\ UNCHANGED <<valid, sinceBest, threadBest, found>>

\* thread_best after a valid mapping.
BestAfter(t, stats) == UpdateIfBetter(threadBest[t], Valid(stats))

\* mappings_since_last_best_update after a valid mapping.
SuboptimalAfter(t, stats) ==
  IF Improves(threadBest[t], Valid(stats)) THEN 0
  ELSE IF Counted(t) THEN sinceBest[t] + 1
  ELSE sinceBest[t]

InvalidAfter_Kept(t) == invalid[t]

\* A valid mapping starts a new run of invalid ones.
InvalidAfter(t) == 0

\* The mapping is valid; it may become the thread's best.
Succeeds(t) ==
  /\ Reported(t)
  /\ ~gTerminateEval
  /\ \E stats \in Costs :
       /\ found' = [found EXCEPT ![t] = @ \cup {stats}]
       /\ threadBest' = [threadBest EXCEPT ![t] = BestAfter(t, stats)]
       /\ sinceBest' = [sinceBest EXCEPT ![t] = SuboptimalAfter(t, stats)]
  /\ valid' = [valid EXCEPT ![t] = @ + 1]
  /\ invalid' = [invalid EXCEPT ![t] = InvalidAfter(t)]
  /\ streak' = [streak EXCEPT ![t] = 0]

Run(t) ==
  \/ Check(t) \/ TakeNext(t) \/ SearchDone(t)
  \/ Lock(t) \/ Pull(t) \/ PushMapping(t) \/ PushStats(t) \/ Unlock(t)
  \/ ConstructionFails(t) \/ EvaluationFails(t) \/ Succeeds(t)

-----------------------------------------------------------------------------
\* The main thread, and the user.

\* Launch the threads, in order.
Launch ==
  /\ mainPc = "launch"
  /\ \E t \in Threads :
       /\ pc[t] = "idle"
       /\ \A u \in Threads : u < t => pc[u] # "idle"
       /\ pc' = [pc EXCEPT ![t] = "check"]
       /\ mainPc' = IF t = NumThreads - 1 THEN "join" ELSE "launch"
  /\ UNCHANGED <<globalBest, compared, reevaluated, signals, syncVars, searchVars, counters, terminate,
                 threadBest>>

\* Every thread has joined.
Join ==
  /\ mainPc = "join"
  /\ \A t \in Threads : pc[t] = "exited"
  /\ mainPc' = "select"
  /\ UNCHANGED <<globalBest, compared, reevaluated, signals, syncVars, searchVars, counters, pc, terminate,
                 threadBest>>

\* Select the best mapping from each thread, in thread order; best_ itself is
\* not consulted.
SelectBest ==
  /\ mainPc = "select"
  /\ globalBest' = UpdateIfBetter(globalBest, threadBest[compared])
  /\ compared' = compared + 1
  /\ mainPc' = IF compared' = NumThreads THEN "print" ELSE "select"
  /\ UNCHANGED <<reevaluated, signals, syncVars, searchVars, counters, pc, terminate, threadBest>>

\* Re-evaluate the global best on a new engine and print that engine's stats.
PrintBest ==
  /\ mainPc = "print"
  /\ reevaluated' = (globalBest.valid /\ ~gTerminateEval)
  /\ mainPc' = "finished"
  /\ UNCHANGED <<globalBest, compared, signals, syncVars, searchVars, counters, pc, terminate, threadBest>>

\* The SIGINT handler.  A third signal exits the process there and then.
Interrupt ==
  /\ mainPc # "finished"
  /\ signals < MaxSignals
  /\ signals' = signals + 1
  /\ UNCHANGED <<mainVars, syncVars, searchVars, counters, pc, terminate, threadBest>>

Stopped == mainPc = "finished" /\ UNCHANGED vars

Main == Launch \/ Join \/ SelectBest \/ PrintBest

Next == Main \/ Interrupt \/ (\E t \in Threads : Run(t)) \/ Stopped

Spec == Init /\ [][Next]_vars

\* The scheduler runs every thread that can run; a mutex is not held forever.
FairSpec ==
  /\ Spec
  /\ WF_vars(Main)
  /\ \A t \in Threads : WF_vars(Run(t))

-----------------------------------------------------------------------------
\* Properties.

AllFound == UNION { found[t] : t \in Threads }

Beats(stats, result) == result.valid => IsBetter(stats, result.stats)

\* The mapper reports the best mapping any thread evaluated: pulls that
\* overwrite a thread's own best, the exchange of bests in any order, and
\* Mapper::Run leaving best_ out of the final selection lose nothing.
GlobalBestIsBest ==
  mainPc \in {"print", "finished"} => \A stats \in AllFound : ~Beats(stats, globalBest)

\* No thread ever takes over a half-copied result: the mapping and the stats
\* that a thread, or the mapper at the end, holds belong together.
Intact(result) == result.mapping = result.stats

ResultsIntact == Intact(globalBest) /\ \A t \in Threads : Intact(threadBest[t])

\* The timeout counter never runs ahead of the consecutive invalid mappings
\* it stands for; it lags only by the bypass repeats that are not penalised.
TimeoutIsConsecutive ==
  \A t \in Threads :
    /\ invalid[t] <= streak[t]
    /\ PenalizeBypass => invalid[t] = streak[t]

\* "Mapper threads will terminate after completing any ongoing evaluations":
\* after the first SIGINT a thread reports at most the mapping it is working
\* on, or the one it takes if it had just passed the check of the flag.
OneMappingAfterSignal == \A t \in Threads : late[t] <= 1

\* Every run of the mapper comes to an end: no thread waits forever for the
\* mutex, and the main thread for no thread.
Finishes == <>(mainPc = "finished")

=============================================================================
