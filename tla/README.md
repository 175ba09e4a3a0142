# TLA+ models of Timeloop

Timeloop models accelerator architectures and searches for *mappings*: ways of
tiling, ordering, parallelising and buffering the loops of a tensor workload on
a memory hierarchy. This directory holds TLA+ modules for the parts of the
program whose correctness rests on state, order, threads, and on counting that is
hard to get right, TLC configurations that check them on small instances, and
proofs checked by TLAPS.

Paths below are relative to the repository root (`src/mapspaces/uber.cpp` is
`src/src/mapspaces/uber.cpp` in `PROJECT.json`, which prefixes the repository
directory).

## 1. Inventory

| Part | State it keeps | Operations | Interacts with |
|---|---|---|---|
| Mapper main thread (`applications/mapper/mapper.cpp`, `main.cpp`) | `global_best_`, list of threads, one mutex, flags `gTerminate`, `gTerminateEval` | construct (split the mapspace, one search per split), `Run` (launch, join, diagnose, select, re-evaluate, print), SIGINT handler | mapper threads through `best_`, the mutex and the flags |
| Mapper thread (`mapper-thread.cpp`) | counters, previous mapping ID, `stats_` with `thread_best` and the failure tables | `Run` loop: check, `Next`, sync, construct, pre-evaluate, evaluate, `Report` | its search, its mapspace split, its engine, the shared `best_` |
| Searches (`search/*.cpp`) | an iterator over four mapspace dimensions, a protocol state, a failure count | constructor, `Next`, `Report`, `IncrementRecursive_` | the mapspace (sizes, `InitPruned`), the mapper thread (alternating calls) |
| Mapspaces Uber and Ruby (`mapspaces/*.cpp`) | sizes of the four dimensions, sub-spaces, split identity | `Init*Space`, `InitPruned`, `Split`, `ConstructMapping` | constraints, architecture properties, the numeric helpers |
| Numeric helpers (`util/numeric.*`) | factor lists, remainders, counters, generators | enumerating and pruning factors and imperfect factors, reading mixed-radix counters, factoradic permutations | mapspaces, searches |
| Mapping description (`mapping/*.cpp`) | constraints and mapping directives per level and dimension | read constraints one by one, read a mapping, derive constraints from a mapping, compare, print | mapspaces, the model application |
| Nest analysis (`loop-analysis/nest-analysis.cpp`, `point-set-*`) | the live data of every level and instance, working sets, compute counts, global flags | walk the nest recursively, subtract point sets, find multicasts and link transfers, extrapolate, cache | the topology, workload shapes |
| Tiling passes (`loop-analysis/tiling.cpp`) | the tiles of one data space, level by level | collapse, share, distribute, mask, peer accesses, reads and updates, parents and children | nest analysis, the sparse analysis |
| Sparse analysis (`sparse-analysis/*.cpp`, `tiling-tile-info.cpp`) | compression, gating and skipping per level and data space, spatial expansions | define representations, expected occupancies, gate and skip, spatial skipping, combine, computes | tiles, densities, the topology |
| Densities and formats (`workload/density-models`, `format-models`) | a distribution of nonzeros, the ranks of a format | probabilities, maximum and expected occupancies, metadata and payload units | sparse analysis, levels (confidence) |
| Architecture (`model/*.cpp`) | levels and networks with specs and stats, `is_specced_`, `is_evaluated_` | `Spec`, `PreEvaluationCheck`, `Evaluate`, `ComputeStats`, `Reset` | mapper threads, both analyses, the PAT tables |
| Data layout (`layout/*`) | ranks and ports per level | bank conflicts at a buffer | buffers |
| tenssella (`tenssella/**`) | tensor-wise transfers as isl relations; at run time engines with queues and buffets with a lock per entry | generate the program of a mapping, merge reads into multicasts, run one thread per engine, save and compare | generated programs call the emulator; a reference program |
| Workload and fused workload (`workload/**`) | shape, bounds, coefficients | projection of operation points to data spaces; parsing | both analyses |
| ISL analysis (`loop-analysis/isl-*`, `mapping-to-isl`, `isl-wrapper`), fused mapping | polyhedral relations, a tree | delegated to isl and barvinok | LoopTree front end |
| Other applications | none beyond a run | read configuration, evaluate, print | the model |
| Configuration, built-in tables, PAT, orojenesis, scripts, tests | parsed text, tables, closed formulas | lookup | everything |

`PROJECT.json` repeats this list with the source files of each part and what is
modelled of it.

### What is hard here

* **Interleavings.** Mapper threads exchange their best result through one
  mutex-guarded record in the middle of their own progress; the flags of the
  signal handler are read at one point and acted on at another. The emulator's
  engines meet only at the locks of buffet entries: a value must have one
  writable copy, and no set of engines may wait for each other.
* **Protocol sequences.** A search decides from the order of `Report` calls
  what to skip. A failure count or an iterator that survives the point it is
  about silently drops legal mappings: nothing crashes, the result is only worse.
* **Stale state.** Pruning changes sizes that an iterator counts with; one
  engine evaluates millions of mappings, and networks *add* into their stats;
  working sets of one nest are reused for the next.
* **Double counting.** Multicasts, link transfers, masks, extrapolated
  iterations, and gating or skipping at several levels each take a share of
  the same traffic. A result twice as large looks as plausible as the right one.
* **Boundaries.** Splitting with a residue, factors that leave a remainder,
  square roots, empty splits, thresholds that are zero, rounding of capacities.
* **Partial failure.** An evaluation that is abandoned half-way, and what the
  final output is printed from.
* **Two forms of one thing.** Mappings, constraints and their printed texts are
  written and read by code that shares nothing.

## 2. Modules

| Module | Models | Role |
|---|---|---|
| `SearchAlgorithm` | `search/search.hpp`, as the mapper thread relies on it | abstract specification |
| `LinearPrunedSearch` | `search/linear-pruned.cpp` | detailed; implements `SearchAlgorithm` |
| `HybridSearch`, `RandomPrunedSearch` | `search/hybrid.cpp`, `search/random-pruned.cpp` | extend `LinearPrunedSearch`, with which they share the inner steps of the walk |
| `ExhaustiveSearch` | `search/exhaustive.cpp` | detailed, with its own iterator array; implements `LinearPrunedSearch` over sub-spaces of full size |
| `RandomSearch` | `search/random.cpp` | detailed |
| `SearchFactory` | `search/search-factory.cpp` | composes the five searches |
| `MapperThreads` | `MapperThread::Run`, `Mapper::Run`, the SIGINT handler, the order on results | threads; takes the search by its contract |
| `MapspaceSplit` | `Uber::Split`, `InitSplit`, the factorization IDs of the splits | one walk per thread |
| `IndexFactors` | `util/numeric.*` and one dimension's factors, from the user's constraints to loop bounds, perfect (`Factors`) and imperfect (`ResidualFactors`) | functions and folds, no state |
| `UberMapspace` | sub-spaces, pruning and construction in `mapspaces/uber.cpp`, `subspaces.cpp` | extends `MapspaceSplit`, `IndexFactors` |
| `Mapspaces` | `mapspace-factory.cpp`, `mapspaces/ruby.cpp` and its sub-spaces | extends `UberMapspace`, composes both mapspaces |
| `MappingDirectives` | the directives of mappings and constraints, `mapping/parser.cpp`, `arch-properties.cpp`, the printers | operators |
| `Constraints` | `mapping/constraints.cpp` | extends `MappingDirectives` |
| `MappingSetup` | the set-up of `applications/model/model.cpp` | composes the two; one action per directive |
| `Rational` | doubles that hold counts, shares and energies | exact fractions |
| `PointSets` | `loop-analysis/point-set-*.cpp`, `aahr-carve.cpp`, `shape-models/operation-space.cpp` | operators |
| `NestDeltas` | `loop-analysis/nest-analysis.cpp` | the recursion over the nest, as functions of levels |
| `TilingPasses` | `loop-analysis/tiling.cpp` | one operator per pass |
| `TileAnalysis` | `Topology`'s use of both | composes the two; one action per pass |
| `NestAnalysisCache` | the cache and the global flags of `nest-analysis.cpp` | threads, one engine each |
| `DensityModels` | `workload/density-models/` | operators |
| `SparseFormats` | `sparse-analysis/representation-analyzer.cpp`, `format-models/`, `tiling-tile-info.cpp` | extends `DensityModels` |
| `SparseOptimizations` | `sparse-analysis/storage-gs-analyzer.cpp` | extends `SparseFormats` |
| `SparseAnalysis` | `sparse-analysis.cpp`, the combiner, `compute-gs-analyzer.cpp` | extends `SparseOptimizations`; one action per pass and group of options |
| `BufferModel`, `BufferEvaluation` | `model/buffer.cpp`: specification and bank conflicts; checks, occupancy, accesses, energy, bandwidth | operators |
| `NetworkModels` | `model/network-*.cpp`, `model/arithmetic.cpp` | operators from old to new stats |
| `ArchitectureStats` | `model/topology.cpp`: parsing, `Spec`, `PreEvaluationCheck`, `Evaluate`, `ComputeStats`; the search for a confidence | composes the three; a kept and a fresh engine |
| `TopologyEvaluation` | statuses and flags of `Engine::Evaluate`, `Topology::Evaluate` and their two callers | one evaluation after another |
| `ReferenceRun` | the reference program of an einsum | abstract specification |
| `TensorEmulator` | programs of `tenssella.cpp`, the emulator in `tenssella/emulation/` | threads; implements `ReferenceRun` |
| `*Proofs` | - | theorems about the module they extend (those about `MapspaceSplit`, `NestAnalysisCache`, `TopologyEvaluation` and `ArchitectureStats` stand at the end of the module itself) |
| `MC*` | - | constants for TLC |

Definitions keep the names of the code (`iterator_` is `iterator`,
`eval_fail_count_` is `eval_fail_count`, a method is an operator or action of its name).
Definitions with a suffix (`MoveFac_KeepsPruning`) are not part of any
specification. Each is the definition below it with a plausible bug in it; the
property it breaks is named in `PROJECT.json`.

### How state and actions correspond to the code

**Searches.** `state` is the protocol state, `Ready`, `WaitingForStatus` or
`Terminated`; `NextId` and `Report(status)` are the two calls. `Report` includes
the accounting of the failure, the fast-forward and the increment with its
carries, as in the code, and the new `InitPruned` if the factorization moves.
The mapspace is represented by the sizes of its pruned sub-spaces; `pruned` is
the factorization of the last `InitPruned`, and all sizes are looked up with
it, never with the iterator: a search that prunes too late is thereby wrong in
the model too. `reported` is a history variable. One fact about the caller is
built into `Report`: construction of a mapping never looks at the bypass
scheme, so either all schemes of a point fail construction or none
(`BypassBlind`). Costs are left out, the searches do not use them.
The hybrid and the random searches draw by pseudo-random generators
that revisit; a draw is any element of the range. The loop of
`HybridSearch::Next` that draws until an unvisited factorization comes up is one step;
the loop of `RandomSearch::Next` is one step per roll, since it moves a second
generator each time.

**Mapper threads.** `pc[t]` is the point of `MapperThread::Run` a thread has
reached: the check of the termination conditions, `Next`, the sync under the
mutex (pull, then push in two assignments), and the mapping, which ends in a
construction failure, an evaluation failure or a success. The read of
`gTerminate` and the `Next` after it are two steps. A search is a walk over
`Walk`, from which it skips as it likes. `previous` and `current` are the IDs
compared for `only_bypass_changed`. The main thread launches, joins in order (`Join`),
then compares the threads' bests one by one (`SelectBest`), and re-evaluates; `Interrupt` is the SIGINT handler. A result names
its mapping by its stats, so that a mapping and stats that do not belong
together are visible. Output, diagnostics and the live display are left out.

**Mapspaces.** `IndexFactors` transcribes the algorithms: the integer square
root by bits, divisors in the order found, splits by recursion over the levels,
given factors inserted by rank, remainders within the levels' bounds for Ruby.
`cofactors`, `patterns` and `splits` are the sub-spaces `InitPruned` leaves; a
pattern is the prefix, infix and suffix of a level's permutation; a mapping is
constructed by decoding the IDs in mixed radix and is compared as a loop nest.
The splits share nothing, so the sub-spaces of one of them, `mine`, are
followed, and the walks are taken one after another.

**Mappings and constraints.** `ParseConstraint(d)` and `ParseDirective(d)` are the
bodies of the two parsers' loops for one entry of the configuration, with
every refusal; `Construct` is the rest of `ParseAndConstruct`, `Validate` the
comparison with the constraints. `given` is a history of what was accepted.
Printing is an operator from a mapping to directives, so that reading it back
runs the model's own parsers. Names of levels, dimensions and data spaces are numbers
and model values, the factor string is the sequence of its terms.

**Nest analysis and tiling.** A nest is a record of loops and boundaries. What
the recursion restores is an argument, what it leaves behind is `st`: the
point set each level and instance holds, and the compute counts. Point sets
are lists of boxes, subtracted and carved as in the code. `TileAnalysis`
follows one data space through the passes of `CollapseDataMovementNest`, one
action each. The reference the properties compare with runs all loops one
iteration at a time on sets of points and shares no definition with the recursion.

**Sparse analysis.** `in` is the mapping with its dense counts, `rec` and
`compute` are the records the passes rewrite, `saf` and `spread` the state of the
optimizations, `offers` a history of what each group of options came up with.
Probabilities are exact fractions, so that a share counted twice cannot hide in a
rounding.

**Architecture.** `engine["used"]` goes through all mappings, `engine["fresh"]`
is built for each; both go through the same stages, level by level. The search
for a confidence is a loop of its own (`TryConfidence`, `EndSearch`). A network's `Evaluate` is an operator
from its old stats, since the code adds into some and assigns others. In
`TopologyEvaluation` the same evaluation is seen from its verdicts: a mapping is the set of
checks it fails, and diagnostics let it go on. The local `EvalStatus s` of a
connection whose network was evaluated earlier is uninitialised: reading it may give either
answer. `NestAnalysisCache` sees it from the nest analysis: which
nest the working sets were computed for, and who last set
`gEnableImperfectCycleCount`.

**Emulator.** From a mapping of operations to units and times, `Init` makes
the engines' queues as the generated program does (tiles, transfers, deltas
over time, actions in order); `Optimizations` merges reads, `Run(e)` starts a
thread. Each buffet operation waits for the state of its entry and
changes it under the entry's mutex: one step, `ReadSrc` or `WriteDst`. A value is
the set of products accumulated in it. Time stamps and traces are left out.

## 3. What is checked

Passing runs. The module of a run is `MC` with the specification's name
(`NestAnalysisCache` needs none); the reason for a constant is in the comments of the `MC` module.

| Run | Properties | What they say |
|---|---|---|
| `LinearPrunedSearch` | `NoRevisit`, `SkipsJustified` | No ID is handed out twice; every ID passed over is ruled out by a reported failure. |
| | `KeepsContract`, `Terminates` | It implements `SearchAlgorithm`, and a caller that keeps asking comes to its end. |
| `SearchFactory` | `WalkComplete`, `WalksAsLinear`, `FilteredSearchEnds` | The random orders lose no ID they are to visit; the exhaustive search walks as the linear one does, though it prunes nothing; a filtered walk ends. |
| `MapperThreads` | `GlobalBestIsBest`, `ResultsIntact` | The mapping selected at the end is the best any thread found; nobody ever holds a mapping with the stats of another. |
| | `OneMappingAfterSignal`, `TimeoutIsConsecutive`, `Finishes` | A signal costs a thread one more mapping at most; a thread times out on consecutive failures only; the mapper ends. |
| `Mapspaces` | `SplitsDisjoint`, `SplitsCover` | The splits handed to the threads partition the factorizations. |
| | `SplitsKept`, `LoopsCoverBound` | The factorizations are exactly the legal ones, and the loops of each make as many steps as the workload, imperfect ones included. |
| | `PruningLosesNothing`, `UserConstraintsKept` | Every legal mapping survives the pruning of its factorization, except where a spatial level one wide has only Y to spread over (one exception below); orders, splits, limits and bypasses of the user hold in what is constructed. |
| `MappingSetup` | `NothingOverwritten` | An accepted constraint stays in force whatever is read after it. |
| | `AcceptedKeepsFactors`, `NestCoversBounds`, `PrintedReadsBack` | An accepted mapping keeps the constraints and runs over the bounds; printed, it is read back as itself and as the constraints it stands for. |
| `TileAnalysis` | `TileSizesAreExact` | Tiles are as large as the data touched; the size the early check goes by is never larger. |
| | `DeliversWhatIsNew`, `OperationsConserved`, `NetworksAreFed` | Accesses and link transfers bring each instance what is new to it and nothing twice; the units together do every operation once; what a masked level would have been asked for is asked of the next that holds the data. |
| `NestAnalysisCache` | `WorkingSetsAreCurrent` | No mapping is evaluated with the working sets of another nest. |
| `SparseAnalysis` | `NonzerosConserved`, `ProbabilityIsCounted` | Leaving out empty tiles leaves the nonzeros as many; probabilities are shares of placements. |
| | `EachReadSavedOnce`, `EffectualComputesKept` | A read is saved by the nearest optimization and by no second one; computes with two nonzero operands are never skipped. |
| `ArchitectureStats` | `EvaluationForgets` | What an engine reports does not depend on the mappings it evaluated before, except for the energy of a network that is shown to hold something of them (below). |
| | `CapacityIsJudged`, `CyclesAreEnough`, `ConfidenceIsFound` | Accepted tiles fit, and the early check refuses none of them for its size (one exception below); the cycles suffice for the words, for the lines that bank conflicts hold up, and for the computes; the bisection for a confidence ends (another exception). |
| `TopologyEvaluation` | `VerdictsAgree`, `StatsAreComplete` | Statuses, flags, the returned verdict and the stats agree after any history of failures, with diagnostics or without. |
| `TensorEmulator` | `OneWritableCopy` | Of an output point at most one copy may be changed. |
| | `RunsAsReference`, `SavesResult` | However the engines interleave, products are accumulated as by the reference program; all engines end, the complete result is saved and the buffets are empty. |

Bounds, and why they are enough:

| Run | Bounds |
|---|---|
| `LinearPrunedSearch` | 2 factorizations of different pruned sizes, 3 bypass schemes: every carry, both fast-forwards, partial failure counts. All statuses in all orders. The safety part is proved for all sizes. |
| `SearchFactory` | 3 factorizations, one with more permutations than a visit draws; 2 points in each dimension of the exhaustive search, so that all carries happen; 2 points and 2 schemes to roll. The safety part is proved for all sizes. |
| `MapperThreads` | 2 threads exchanging in every iteration, 3 IDs that differ in the point, in the scheme or both, 2 costs, search size 3 (odd, so shares are rounded), victory condition 1, timeout 2, up to 2 signals at any time. |
| `Mapspaces` | Nests: 3 dimensions of bounds 2, 2, 4 (unit factors occur everywhere) over 2 or 3 levels, with every kind of level and constraint; all IDs of all factorizations, in 1, 3 or 4 splits. Bounds: 4 to 12 over 2 or 3 levels, with squares, a prime and many divisors; every set of given factors (dividing or not), a limit at one level, remainders for Ruby. |
| `MappingSetup` | 2 constraints and 3 directives in all orders, of every type, with factors that divide, that are imperfect and that are 0 (the rest), on a 2 x 2 array. Two constraints are enough for one to overwrite another; three directives reach every level. Proved for all inputs, but for what is printed. |
| `TileAnalysis` | 14 nests: temporal and spatial reuse, both directions, two spatial levels, sliding windows, imperfect loops, a skew, a flattened dimension; each with and without extrapolation, all masks, distribution on or off. |
| `NestAnalysisCache` | 2 threads, a perfect and an imperfect nest, 3 mappings each; rejected, abandoned, repeated in any order. Proved for all constants. |
| `SparseAnalysis` | Matrix products on 3 levels, one fan-out; 6 pairs of formats (flattened, inner first, growing ranks, dense), 3 kinds of density, 6 sets of options at several levels and conditions, 3 kinds of compute hardware. |
| `ArchitectureStats` | 3 storage levels, the DRAM not reducing as by default; networks of every type, one read over by two levels. 22 mappings, 2 after one another: dense, overbooked, exactly full, every unit busy, transferring by other factors or nothing at all, laid out (8 ways, lines of 2 to 7 words against requests of 2 to 9, so that some straddle a line more, with 1 or 2 ports), with metadata for a tile that is not compressed, smaller than a minimum utilization, and one failing at each check, the one for data spaces kept nowhere included. That evaluations forget and that accepted tiles fit is proved for all architectures and mappings (see 4). |
| `TopologyEvaluation` | 2 storage levels, 3 networks of which one is shared by both directions, up to 2 failing checks in each of 2 evaluations. Proved for all constants. |
| `TensorEmulator` | 4 operations, 2 outputs, 2 units under a shared buffer, 3 levels; mappings in which outputs change units, a tile changes while its output stays, a unit has two operations at a time or none. |

`CHECK_DEADLOCK FALSE` is set where the model really stops: after its last
evaluation (`ArchitectureStats`, `SparseAnalysis`, `TopologyEvaluation`,
`NestAnalysisCache`) or when the program has refused its input or accepted
the mapping (`MappingSetup`).

One run is violated and shows a disagreement between the code and what the
repository says of it: `NestAnalysisRace` (`CyclesFollowNest`,
`loop-analysis/nest-analysis.cpp:256`). `gEnableImperfectCycleCount` is one flag for
the process; with two threads, the one that ran last decides by which rule the other
counts the cycles of its mapping, although `doc/mapper.md` has each thread work
independently.

### Fairness

A mapper thread calls `Next` and `Report` in turn for as long as `Next` returns
true, so weak fairness of the calls holds for the searches (`FairSpec`,
`FairFactorySpec`). For the threads it is weak fairness of each thread and of
the main thread: they are `std::thread`s under a preemptive scheduler, every
section under the mutex is finite, and no thread leaves one without unlocking.
Fairness of `Lock` need not be strong: a finite search can only make finitely many
threads overtake. No fairness is assumed of the user's signals, of the outcome of
a mapping, or of what is drawn: `FilteredSearchEnds` holds because a draw that ends the
loop is one step, which leaves out only that the generator might go on for
ever without it. The emulator's engines are threads too, each weakly fair: a
step waits on a condition variable for a state of one entry, and in a generated program
only one engine moves the entry on from there, so that an enabled step stays
enabled. The loop of the confidence search is sequential code, which runs
until its condition fails.

### Seen while modelling

The following is what the code does, as far as the models tell, and is listed here
because a reader may not expect it. No run is spent on it; where it would break a
property, the property or the instance says so and the entry is marked (†).

Search and mapper
* The tolerance of `IsBetter` (`mapper-thread.cpp:105`) makes the order on results
  not transitive, so that small losses can add up (†: the costs are clearly apart).
* With timeout 0 a thread stops at its first invalid mapping
  (`mapper-thread.cpp:423`); `doc/mapper.md` says 0 ignores invalid mappings.
* A thread compares a mapping with its predecessor from the third on only
  (`mapper-thread.cpp:517`); `search_size` is a share per thread (`mapper.cpp:195`).
* After a second SIGINT the final stats come from an engine that was never
  evaluated (`mapper.cpp:598`).
* `RandomSearch` filters whole IDs, but each filtered roll moves the bypass
  sequence on, so points come back (`random.cpp:115`; `doc/mapper.md` says the filter
  prevents revisits), and `Next` does not return once nothing new is left to roll (`:108`).

Mapspaces
* For a spatial level one wide, pruning the unit factors also removes the split
  that puts all loops along Y (`uber.cpp:241`, `subspaces.cpp:440`): no mapping that spreads over
  it is left, although `doc/mapper.md:55` has only "superfluous permutations of unit-factors" pruned (†:
  `PruningLosesNothing` states the exception, and for such a level that it is complete; the instances
  have one under the pruned and one under the Ruby mapspace).
* Ruby with all factors of a dimension given and something left over covers only part of
  the bound (`numeric.cpp:735`) (†). A factor at the threshold is in both of
  Ruby's lists, so that IDs are duplicated (`:450`). An imperfect given factor
  outside the innermost free level leaves the space empty, and an empty space makes
  the overflow check divide by zero (`uber.cpp:109`). Remainders are listed outermost first
  (`ruby.cpp:211`) and consumed innermost first (`numeric.cpp:543`).
* `subspaces.cpp:164` reads one past the end after an erase; several index
  assertions allow `index == size()`; an unsplit mapspace makes every ID mean
  factorization 0 (no caller of the mapper leaves it unsplit).

Mappings and constraints
* Comparing a mapping with a permutation skips unit factors of the wrong
  sequence (`constraints.cpp:463`) and looks at no suffix; the least factors,
  remainders and keep flags are not compared (the FIXME at `:501`).
* The remainder bounds, the confidence thresholds and the keep flag of the outermost
  level are overwritten without a word. Thresholds are stored by
  tiling level (`:849`) and read by storage level (`topology.cpp:1272`).
* Two loops of a dimension at one level: the last one's factor is kept, not
  the product (`constraints.cpp:216`).
* A term of one iteration may be given another residual: it takes part in the check
  of the factors, but has no loop, so that the bound is missed (†: `UnitTermsAreWhole`). A permutation may
  name a dimension twice, and two loops of it are made (†: `DimensionsListedOnce`).
* The printers write no residual: an imperfect mapping printed by the mapper is
  refused by the model (†).
* A level constrained in space aborts on a mapping without a spatial loop there
  (`:383`). The parser accepts the type "dataspace" (`parser.cpp:242`) and then refuses
  it (`:540`); `no_reuse` is looked up under the same name twice (`:157`).

Nest analysis and tiling
* A skew combined with spatial extrapolation counts too few computes; a term's
  bound is taken from its index (`nest-analysis.cpp:1321`) (†: the skewed nest runs exactly).
* Extrapolation over time is inexact for sliding windows and flattened dimensions (†).
* The size the early check goes by is too small for flattened tiles that do not
  start at the origin (†).
* Peer accesses divide the transfers of one instance by the replication of all
  (`tiling.cpp:621`); `ResetBackingStorageFills` has no effect.

Sparse analysis
* `GetMinTileDensity` of the hypergeometric model divides integers
  (`hypergeometric-distribution.cpp:187`), so that a non-empty tile may be dropped (†).
* A spatial option on a target with metadata reduces its expansion twice, down to a
  division by zero (`storage-gs-analyzer.cpp:1045`) (†).
* The share of an inner level relative to the outer ones is 0/0 when the outer
  level saves everything, and negative when it saves more
  (`storage-optimization-combiner.cpp:265`). Gating and spatial skipping at one level meet an assertion.
* The banded model's warm-up weights exceed 1 for few rows, its maximum uses the
  share of empty tiles, and the flag that the tensor size is set is tested before
  the lock (`banded-distribution.cpp:61`).

Architecture
* The bisection for a confidence does not end when it meets a tile exactly as
  large as what is set aside: the condition commented "stop when find the exact
  confidence value" keeps the loop going (`buffer.cpp:1635`) (†: `ConfidenceIsFound`
  states the exception).
* The early check is meant to fail a mapping "only if there's no chance that this mapping can
  fit" (`buffer.cpp:877`). Of a tile with metadata that is not compressed it
  counts all elements (`:911`), while the evaluation counts the nonzeros
  (`tiling-tile-info.cpp:104`), so that it refuses mappings that fit (†:
  `CapacityIsJudged` states the exception). It also holds the minimum utilization against a size already
  scaled down to the confidence (`:921`), and refuses overbooked mappings that the
  evaluation accepts (†: the property is about "too large" only).
* With diagnostics on, a failed format or sparse check is overwritten by the
  level's own status (`topology.cpp:1416`); the mapping can become the best and cannot be
  evaluated at the end.
* The metadata of an overbooked tile may exceed its space (`buffer.cpp:1957`);
  allocations rounded up may exceed the level; `DrainLatency()` returns the fill latency; a
  shared network's latency counts once per connection. A latency set for a network
  (`SetDrainLatency`, `network-legacy.cpp:551`) goes into statistics that are not read.
* No network resets its statistics. A legacy one whose sink does not reduce, which is what a DRAM is
  by default (`buffer.cpp:1416`), adds to the ingresses of earlier mappings and keeps those of
  factors the mapping does not use (`network-legacy.cpp:279`); a reduction tree adds up the
  reductions of all mappings; a multicast network keeps its energy where nothing is transferred; and
  where a network is met again from a level further out, the loop over the connections tests a status nothing
  assigned (`topology.cpp:1539`) and may leave out the networks that follow. Each shows in the energy, and
  in nothing else (†: `EvaluationForgets` says when the energy may differ).
* The lines counted for a request carry the comment "Wrong equation when C=3, H=7"
  (`buffer.cpp:1059`). The run has lines of 3 and 7 words against requests of 7 and 3: over all
  placements the count is right (`LinesMatchPlacement`).
* The legacy network subtracts the partition size from every access record (its
  FIXME), and a network given by the user for reading only is cast
  to a legacy one (`topology.cpp:933`).

Emulator
* Merging consecutive reads drops the intent to update of those after the
  first (`transfer-engine.hpp:344`): the later update waits for ever (†: the
  mappings have no such run of reads).
* `buffet.hpp:174` unlocks a mutex that its guard unlocks again; time stamps are
  written after the entry was released; `Arch` hands out references into a map
  that other threads extend.

## 4. What is proved

All proofs are checked by TLAPS with no unproved step, for every value of the constants
that satisfies the named assumptions.

* `SearchProofs`, from `SizesAssumption` (a pruned sub-space has at
  least one point) and `FactoryAssumption` (sizes are natural numbers, those of the
  array's three inner dimensions positive). The invariant is built up in layers. `InSpace`: the
  iterator is an ID of the space the mapspace is pruned for (`TypeCorrect`,
  `StaysInPrunedSpace`). `Forward`: what has been reported lies before the
  iterator; a step moves to the successor in the order of IDs
  (`IncrementIsSuccessor`), so nothing is repeated (`NeverRevisits`).
  `Accounted`: the failure count speaks of the iterator's own permutation and
  split, and every ID passed over is ruled out (`CountsOwnFailures`,
  `SkipsAreJustified`). Neither of the last two is inductive alone: the fast-forward
  that skips a factorization is justified only by the meaning of the count. `ImplementsContract`
  follows from `Forward`, the refinement maps the visited IDs to those
  reported, plus the one waiting for its status.
  `WalksAreComplete` says the same of the searches that draw. Their history starts
  anew with each walk, so the invariant is about the walk in hand, `InWalk`: the reports
  are of IDs of one factorization (hybrid) or one permutation (random_pruned), and
  each of those before the iterator is reported or ruled out. A step inside the walk
  is one of the linear search, and its lemmas carry over (`WalkGoesOn`); where the
  walk carries, nothing of it lies ahead (`WalkEnds`). `WalksCounted` relates the
  number of walks of a factorization to the revisit filter. For random,
  `RandomInv` says that the schemes handed out since the last roll are the
  last ones of the generator, wherever its sequence stood. `ExhaustiveWalksAsLinear` is
  a refinement, step by step: the dimension that moves on the array is the
  innermost that can, which is how the linear search carries.
* `MapspaceSplit`, from `SplitAssumption`. `WalkInv` says that what a split has
  constructed from is the set of global IDs of the local IDs walked so far. With
  the arithmetic of the rounded size and the residue (`SizesOfSplits`,
  `GlobalIdInSpace`, `GlobalIdsDistinct`) it gives `StaysWithinSpace`,
  `SplitsStayDisjoint` and `SplitsCoverSpace`.
* `NestAnalysisCache`, from `NestAssumption`. `CacheConsistent` adds to the
  property what the cache must satisfy between evaluations: computed sets are
  those of the cached nest, and from `Evaluate` on that is the nest in hand. It
  gives `WorkingSetsStayCurrent` for any number of threads.
* `MappingSetupProofs`, from `InputsAssumption` (bounds and proportions are
  natural numbers, a proportion is present where its type says so). `SetupInv` says
  what type the constraints have, that all accepted directives are of a type that
  the parser knows, and that each is in force. For each part of a directive (factors, bounds,
  permutation, split, keep and bypass, flags) there is a lemma that an accepted
  directive leaves the parts others have set. The result, `AcceptedInForce`, is
  for any number of constraints and directives, levels, dimensions and data spaces.

  That a constructed mapping runs over the bounds (`ConstructedCovers`) and an accepted one
  keeps the constraints (`ConstraintsKept`) takes induction over data: over the terms of a directive, the
  loops of a level and the levels. The provers do not take a predicate as a
  parameter, but they take a set: `NaturalsByInduction` is induction with a set in place
  of the predicate, and from it `RecursionExists` and `RecursionIs` say that a recursive function over
  `0 .. N` exists and what its values are. With these, what `SelectSeq`, the sorting into a permutation and
  the running products compute is proved loop by loop (`NestRunsProduct`). `ReadInv` says what type the
  parsed mapping has, and that a mapping exists only if its factors multiply up; `AcceptedInv` adds
  that an accepted one has passed the check against the constraints in force. The
  hypotheses are about the user's mapping, and are what the parser does not look at (see "Seen while
  modelling"): a term of one iteration has no other residual (`UnitTermsAreWhole`), and no permutation
  names a dimension twice (`DimensionsListedOnce`). Without them the properties are
  false. TLC checks that they hold of the run's inputs (`HypothesesHold`).

* `MapperThreadsProofs`, from `ConfigAssumption`, for any number of threads and
  signals. `IInv` says who may be between `lock()` and `unlock()` (`MutexHeld`), that the
  shared record can be a mapping with another's stats only between the two assignments
  of its owner (`TornInside`), how many mappings a thread has reported since the
  first signal at each point of its loop (`LastReport`), and that the counters agree
  with what happened. It gives `ExchangeIsExclusive`, `ResultsAreIntact`,
  `TimeoutCountsConsecutive` and `OneMappingEndsThread`. That the mapping selected
  is the best any thread evaluated (`BestIsSelected`) takes one more invariant,
  `NothingBeatsHeld`: nothing a thread has found beats what it holds, and while it pulls and
  pushes, what it holds moves in one direction only. This needs `IsBetter` to be an order
  (`CostsOrdered`), which it is not on all stats: with two metrics that nearly
  tie, its tolerance is not transitive. `IsBetterIsAnOrder` proves it for one metric,
  and for two whose values are equal or clearly apart; the run checks it for its own costs.
* `TopologyEvaluation`, for any number of levels and networks and any checks that
  fail. `AccumTracksStatus` relates the accumulated success of `Topology::Evaluate` to
  the statuses written so far and to the point of the loop, which gives
  `VerdictsAlwaysAgree`. `EvaluatedSoFar` says which levels and networks have the
  stats of the mapping in hand; it gives `StatsAreAlwaysComplete` where no two
  storage levels share a network (`OwnNetworks`, as in the run). For a network met a second time the code
  tests a status it has not assigned (see "Seen while modelling"), and what follows depends
  on it: `ArchitectureStats` has such a network, and says what of a report depends on it.
* `TensorEmulatorProofs`, for any einsum, number of units and levels. An output point
  is carried by one *token*: the one ready entry, or the one engine that took the
  value out and has not put it down. Every other entry in use is locked and holds an older
  value (`OneToken`, `TokenIsLatest`); copies of inputs are right wherever they are
  (`InputsAreRight`); and a unit's operation is done when its engine is
  past it. The invariant gives `OneCopyWritable`, and with it every compute step accumulates
  into the latest value, which is the step of the reference program
  (`EmulationRefines`). The hypothesis is `ProgramsAreDisciplined`: after the
  optimizations, each action is a fill, a move of one output point from one entry to another, an
  action on one input point, or a compute; each point is filled once, each
  operation computed once by its own unit's engine. It is false of a mapping whose
  queues have two reads for update of one point in succession, since these are merged
  into a multicast. It is checked by TLC for all programs of the run, and not
  proved from `GenerateCode`, which orders the actions by counting and needs induction over
  data.

* `ArchitectureStats`, from `LevelsAssumption` (there is a storage level), and for the last
  result `SizesAssumption` and `MappingsAssumption` (sizes and instances are counts, a
  threshold is a number from 0 to 1, occupancies are ascending). That one
  mapping leaks into the report of the next by the energy of certain networks only (`MappingsAreForgotten`) is
  about two engines, so the
  invariant `Reusable` says how far they agree at each point of an evaluation
  (`EnginesAgree`): on the levels evaluated so far, on the arithmetic, on what is assigned
  when the energy is finalized, on the energies of the networks. A lemma for each function of a level or network
  says which fields agree after it if those it reads agreed before. The ranks of
  the metadata never agree, since they are appended from mapping to mapping, so the proof also
  shows that no statistic is computed from them. Networks need not agree at all before they are evaluated. For each
  type a lemma (`LegacyForgets`, `TreeForgets`, `MulticastForgets`) compares a network evaluated on
  whatever it holds with one evaluated anew, and shows that the energy is the same unless the statistics
  themselves show what was left behind (`LeftBehind`): ingresses under more factors, more reductions, or an energy
  without transfers. It takes that what a type never assigns is still as it was specified
  (`Untouched`). The theorem has no hypothesis on the architecture: a shared network, at which the loop may stop
  early, is in it, and so is a DRAM that does not reduce.
  `AcceptedTilesFit` is about one engine. Its invariant `Fitting` says which levels of a still
  successful evaluation have been judged and that their statistics hold what was judged: the occupancy
  a level is judged by is gone by the end, and the charges for overflow, leakage and energy
  rewrite the levels' statistics in between.

  `AcceptedWereNotTooLarge` (all of `CapacityIsJudged`) relates the pre-evaluation check to this verdict. The check
  adds up, over the data spaces a level keeps, what a tile holds at the confidence asked
  for; the evaluation adds up, over all data spaces, what a tile holds at the confidence the
  bisection has found. The invariant `Sizing` says that what is settled for a data
  space, and the best a search has so far, is no less than the check counts (`Enough`), that
  a search moves between its bounds upwards from the confidence asked for
  (`SearchAbove`), and that each level evaluated has room for what the check
  counts (`Roomy`). It rests on the arithmetic of the rationals: that Euclid's algorithm finds a
  common divisor, so that lowest terms are the same number, that a share of a count rounded up grows with
  the share (`ShareGrows`), that the middle of two shares lies between them (`MiddleBetween`), and that a sum
  over fewer and smaller things is smaller (`SumsCompare`), by induction over data with
  sets of numbers as in `MappingSetupProofs`.

Only model-checked:

* liveness (`Terminates`, `Finishes`, `FilteredSearchEnds`, `ConfidenceIsFound`,
  `SavesResult`), which the prover does not reach;
* what the recursive definitions and folds of the mapspaces compute: factor sets, pruning and
  construction (`SplitsKept`, `LoopsCoverBound`, `PruningLosesNothing`, `UserConstraintsKept`), and that
  a printed mapping is read back (`PrintedReadsBack`). Each needs induction over data as in
  `MappingSetupProofs`, for definitions several times as many;
* everything in `TileAnalysis` and `SparseAnalysis`: the recursion over the nest and
  the formats are recursive operators, which the prover's arithmetic backend does
  not take;
* in `ArchitectureStats`, that the cycles are enough (`CyclesAreEnough`): it divides rounded sums over the
  data spaces, and counts placements over products of ranks.

## 5. What is not modelled

* Text: configuration (libconfig, YAML), the parsers of workloads, shapes, layouts
  and sparse options, output writers and diagnostics tables. The parsers of mappings and
  constraints are modelled from the directives on.
* The PAT energy and area tables (closed formulas over reals; they are parameters of
  `BufferModel` and `NetworkModels`), hop counts, and imperfect-cycle counting in the
  statistics.
* The sparse analyzer for more than two operands (compiled under
  `USE_MULTI_OPERAND_ANALYSIS` only), the point-set classes not selected at
  build time, the inclusion order on constraints (`operator >=`) and
  `complete_loop_nest`.
* The ISL analysis, the fused mapping and workload (polyhedral algebra delegated to
  isl and barvinok, outside the repository), and the isl side of tenssella's code
  generator: the programs it emits are modelled, the relations it computes
  them with are not. The single-threaded emulator is straight-line.
* The design-space explorer, simple-mapper, metrics, LoopTree and
  einsum-graph front ends (a configuration read, one evaluation, a print),
  orojenesis and the other scripts, tests and build files.

What could come next: larger nests in `TileAnalysis`, whose reference grows with the
product of all bounds; the sparse analysis of more than one fan-out; a proof that the
programs of `GenerateCode` are disciplined for a class of mappings.
