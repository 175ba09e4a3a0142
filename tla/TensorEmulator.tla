--------------------------- MODULE TensorEmulator ---------------------------
(***************************************************************************)
(* The multithreaded emulator that runs a generated program: one thread per *)
(* transfer engine works through its queue of actions, and the entries of   *)
(* the buffets are what the threads wait on.  A buffet operation runs under *)
(* the mutex of its entry and is one step.  Time stamps and traces are left *)
(* out; a value is what it was made from.                                   *)
(***************************************************************************)
EXTENDS FiniteSetsExt, Naturals, Sequences, SequencesExt, FiniteSets

(***************************************************************************)
(* What tenssella generates for one einsum: from a mapping of the          *)
(* operations to spaces and times, the transfers between the levels of     *)
(* each tensor, what reuse over time removes from them, and the program of *)
(* every transfer engine.                                                  *)
(*                                                                         *)
(* Hardware level 1 holds the operands at the compute units, level Depth   *)
(* is the last storage, with one instance on every level above 1.  A time  *)
(* at level l is the first Depth - l ranks of a time at level 1.           *)
(***************************************************************************)

CONSTANTS
  Ops,         \* the points of the iteration space
  DataSpaces,  \* the tensors an operation reads
  Output,      \* the one of them it also writes
  Projection,  \* Projection[ds][o]: the point of ds that o accesses, a number
  Units,       \* compute units, numbers
  Depth        \* the hardware level of the last storage

ASSUME ProgramsAssumption ==
  /\ Output \in DataSpaces /\ IsFiniteSet(DataSpaces)
  /\ Depth \in Nat \ {0, 1}
  /\ Projection \in [DataSpaces -> [Ops -> Nat]]

Inputs == DataSpaces \ {Output}

Points(ds) == {Projection[ds][o] : o \in Ops}

(* A mapping places each operation at a unit and a time of Depth - 1 ranks. *)
Space(level, s) == IF level = 1 THEN s ELSE 0
Time(level, t) == SubSeq(t, 1, Depth - level)

(* T-functions, projected to a data space: the tile of each (space, time). *)
GenerateTs(mapping, level, ds) ==
  {[s |-> Space(level, mapping[o].s), t |-> Time(level, mapping[o].t), p |-> Projection[ds][o]] :
     o \in Ops}

(* Every tile of a child is a transfer from the parent it is nested in. *)
Decouple(mapping, level, ds) ==
  {[s_out |-> Space(level + 1, x.s), t_out |-> Front(x.t), s_in |-> x.s, t_in |-> x.t, p |-> x.p] :
     x \in GenerateTs(mapping, level, ds)}

(* Only the innermost rank of the child's time is shifted. *)
Later(x) == [x EXCEPT !.t_in = Front(@) \o <<Last(@) + 1>>]

(* A point already there at the time before is not read again; one still   *)
(* wanted at the time after is neither shrunk nor drained.                  *)
ReadDelta(xfer) == xfer \ {Later(x) : x \in xfer}
ShrinkDelta(xfer) == {x \in xfer : Later(x) \notin xfer}
UpdateDelta(xfer) == {x \in xfer : Later(x) \notin xfer}

-----------------------------------------------------------------------------
(* Actions.  A descriptor names an entry of a buffet. *)
Entry(ds, level, s, p) == [ds |-> ds, level |-> level, s |-> s, p |-> p]

Read(x, ds, level) ==
  [op |-> "READ", iu |-> FALSE, srcs |-> <<Entry(ds, level + 1, x.s_out, x.p)>>,
   dsts |-> <<Entry(ds, level, x.s_in, x.p)>>]

ReadIU(x, ds, level) == [Read(x, ds, level) EXCEPT !.iu = TRUE]

Shrink(x, ds, level) ==
  [op |-> "SHRINK", iu |-> FALSE, srcs |-> <<Entry(ds, level, x.s_in, x.p)>>, dsts |-> <<>>]

Update(x, ds, level) ==
  [op |-> "UPDATE", iu |-> FALSE, srcs |-> <<Entry(ds, level, x.s_in, x.p)>>,
   dsts |-> <<Entry(ds, level + 1, x.s_out, x.p)>>]

InitAction(ds, p) ==
  [op |-> "INIT", iu |-> FALSE, srcs |-> <<>>, dsts |-> <<Entry(ds, Depth, 0, p)>>]

(* The operands in the order of the data spaces, the output last here: only *)
(* its own read takes the lock.                                             *)
Compute(o, s) ==
  LET Operand(ds) == Entry(ds, 1, s, Projection[ds][o])
      inputs == SetToSeq(Inputs)
  IN  [op |-> "COMPUTE", iu |-> TRUE,
       srcs |-> [i \in 1..Len(inputs) |-> Operand(inputs[i])] \o <<Operand(Output)>>,
       dsts |-> <<Operand(Output)>>]

-----------------------------------------------------------------------------
(* Schedules: the time of the engine's own level, the slot that serializes  *)
(* reads and computations, updates and shrinks of that time, and then the   *)
(* order within.                                                            *)
Key(t, slot, rest) == t \o <<slot>> \o rest

SchedGenRead(mapping, ds, level) ==
  {[key |-> Key(x.t_out, 0, x.t_in \o <<x.p, x.s_out, x.s_in>>),
    action |-> IF ds = Output THEN ReadIU(x, ds, level) ELSE Read(x, ds, level)] :
      x \in ReadDelta(Decouple(mapping, level, ds))}

Zeros(n) == [i \in 1..n |-> 0]

SchedGenUpdate(mapping, ds, level) ==
  {[key |-> Key(x.t_in, 1, Zeros(Depth - level + 1) \o <<x.p, x.s_in, x.s_out>>),
    action |-> Update(x, ds, level)] : x \in UpdateDelta(Decouple(mapping, level, ds))}

(* Each tensor has a slot of its own. *)
ShrinkId(ds) == CHOOSE i \in 1..Cardinality(Inputs) : SetToSeq(Inputs)[i] = ds

SchedGenShrink(mapping, ds, level) ==
  {[key |-> Key(x.t_in, 1 + ShrinkId(ds), Zeros(Depth - level + 1) \o <<x.p, x.s_in, 0>>),
    action |-> Shrink(x, ds, level)] : x \in ShrinkDelta(Decouple(mapping, level, ds))}

(* The operations are numbers here; the code orders them by their ranks. *)
SchedGenCompute(mapping) ==
  {[key |-> Key(mapping[o].t, 0, <<0, 0, o, mapping[o].s, 0>>),
    action |-> Compute(o, mapping[o].s)] : o \in Ops}

SchedGenInit(ds) == {[key |-> <<p>>, action |-> InitAction(ds, p)] : p \in Points(ds)}

-----------------------------------------------------------------------------
(* Engines: one fills the last storage of a tensor, one is at each level    *)
(* that reads into the next, and the one of a compute unit has the updates  *)
(* and the shrinks of its operands merged into it.                          *)
FillEngine(ds) == <<"fill", ds, 0>>
MemEngine(ds, level) == <<"memory", ds, level>>
UnitEngine(s) == <<"unit", "", s>>

MemEngines == {MemEngine(ds, level) : ds \in DataSpaces, level \in 2..Depth}
UnitEngines == {UnitEngine(s) : s \in Units}
Engines == {FillEngine(ds) : ds \in DataSpaces} \cup MemEngines \cup UnitEngines

Before(a, b) == \E i \in DOMAIN a.key :
                  i \in DOMAIN b.key /\ a.key[i] < b.key[i] /\ SubSeq(a.key, 1, i - 1) = SubSeq(b.key, 1, i - 1)

InOrder(scheduled) ==
  [i \in 1..Cardinality(scheduled) |->
     (CHOOSE x \in scheduled : Cardinality({y \in scheduled : Before(y, x)}) = i - 1).action]

(* What leaves level: the reads of the child, and what releases the level. *)
ReleaseOf(mapping, ds, level) ==
  IF ds = Output THEN SchedGenUpdate(mapping, ds, level) ELSE SchedGenShrink(mapping, ds, level)

GeneratePHSTs(mapping, ds, level) ==
  SchedGenRead(mapping, ds, level - 1)
    \cup (IF level < Depth THEN ReleaseOf(mapping, ds, level) ELSE {})

MergeOperandIntoCompute(mapping, s) ==
  {x \in SchedGenCompute(mapping) \cup UNION {ReleaseOf(mapping, ds, 1) : ds \in DataSpaces} :
     Head(x.action.srcs).s = s}

GenerateCode(mapping) ==
  [e \in Engines |->
     InOrder(CASE e[1] = "fill"   -> SchedGenInit(e[2])
               [] e[1] = "memory" -> GeneratePHSTs(mapping, e[2], e[3])
               [] e[1] = "unit"   -> MergeOperandIntoCompute(mapping, e[3]))]

-----------------------------------------------------------------------------
CONSTANT Mappings   \* mappings to run, one of which is compiled

VARIABLES
  mapping,   \* the mapping whose program is emulated
  queue,     \* queue[e]: actions not yet processed, the front one in work
  done,      \* done[e]: accesses of the front action already made
  operands,  \* operands[e]: values read for the front action
  state,     \* state[n]: Empty, Ready or Locked
  content,   \* content[n]
  running,   \* engines whose thread was started
  phase      \* where the main thread is

vars == <<mapping, queue, done, operands, state, content, running, phase>>

Saver == <<"main", "", 0>>

Entries == {Entry(ds, level, s, p) :
              ds \in DataSpaces, level \in 1..Depth, s \in Units \cup {0}, p \in UNION {Points(ds) : ds \in DataSpaces}}

Saved(p) == Entry("__val__", 0, 0, p)
AllEntries == Entries \cup {Saved(p) : p \in Points(Output)}

ASSUME EmulatorAssumption ==
  Mappings # {} /\ Mappings \subseteq [Ops -> [s : Units, t : [1..(Depth - 1) -> Nat]]]

Init ==
  /\ mapping \in Mappings
  /\ queue = [e \in Engines \cup {Saver} |-> IF e = Saver THEN <<>> ELSE GenerateCode(mapping)[e]]
  /\ done = [e \in Engines \cup {Saver} |-> 0]
  /\ operands = [e \in Engines \cup {Saver} |-> <<>>]
  /\ state = [n \in AllEntries |-> "Empty"]
  /\ content = [n \in AllEntries |-> {}]
  /\ running = {}
  /\ phase = "Optimizations"

-----------------------------------------------------------------------------
(* Consecutive reads of one point become a multicast with the first's       *)
(* source.                                                                   *)
SamePoint(a, b) == a.op = "READ" /\ b.op = "READ" /\ a.srcs[1].p = b.srcs[1].p

CreateMulticast(run) ==
  IF Len(run) = 1 THEN run[1]
  ELSE [run[1] EXCEPT !.op = "MULTICAST", !.dsts = [i \in 1..Len(run) |-> run[i].dsts[1]]]

MergeActionsIntoMulticast(actions) ==
  LET Breaks(i) == i = 1 \/ ~ SamePoint(actions[i - 1], actions[i])
      starts == SelectSeq([i \in 1..Len(actions) |-> i], Breaks)
      End(k) == IF k = Len(starts) THEN Len(actions) ELSE starts[k + 1] - 1
  IN  [k \in 1..Len(starts) |-> CreateMulticast(SubSeq(actions, starts[k], End(k)))]

Optimizations ==
  /\ phase = "Optimizations"
  /\ queue' = [e \in DOMAIN queue |->
                 IF e = Saver THEN queue[e] ELSE MergeActionsIntoMulticast(queue[e])]
  /\ phase' = "Run"
  /\ UNCHANGED <<mapping, done, operands, state, content, running>>

(* Engines are started in the order of the map that holds them; those        *)
(* already started work meanwhile.                                           *)
Run(e) ==
  /\ phase = "Run"
  /\ e = CHOOSE x \in Engines \ running : TRUE
  /\ running' = running \cup {e}
  /\ phase' = IF Engines \subseteq running' THEN "Wait" ELSE phase
  /\ UNCHANGED <<mapping, queue, done, operands, state, content>>

-----------------------------------------------------------------------------
(* The buffet operations: the state an entry must be in, and the state it   *)
(* is left in.                                                               *)
Needs == [fill |-> "Empty", read |-> "Ready", read_iu |-> "Ready", shrink |-> "Ready",
          drain |-> "Ready", update |-> "Locked"]

Leaves_ReadIuKeepsReady == [fill |-> "Ready", read |-> "Ready", read_iu |-> "Ready", shrink |-> "Empty",
           drain |-> "Empty", update |-> "Ready"]

Leaves == [fill |-> "Ready", read |-> "Ready", read_iu |-> "Locked", shrink |-> "Empty",
           drain |-> "Empty", update |-> "Ready"]

Access_WithoutWaiting(operation, n) == state' = [state EXCEPT ![n] = Leaves[operation]]
Access(operation, n) ==
  /\ state[n] = Needs[operation]
  /\ state' = [state EXCEPT ![n] = Leaves[operation]]

(* Which operation an action performs on its sources and destinations; the  *)
(* output operand of a computation is its last source.                       *)
SrcOperation(action, i) ==
  CASE action.op = "SHRINK" -> "shrink"
    [] action.op = "UPDATE" -> "drain"
    [] OTHER -> IF action.iu /\ i = Len(action.srcs) THEN "read_iu" ELSE "read"

DstOperation(action) == IF action.op \in {"COMPUTE", "UPDATE"} THEN "update" ELSE "fill"

(* What the transformation of an action makes of its operands. *)
Transform(action, values) ==
  CASE action.op = "INIT"    -> IF action.dsts[1].ds = Output THEN {} ELSE {<<action.dsts[1].ds, action.dsts[1].p>>}
    [] action.op = "COMPUTE" -> Last(values) \cup {UNION Range(Front(values))}
    [] OTHER                 -> values[1]

Accesses(action) == Len(action.srcs) + Len(action.dsts)

(* After its last access an action leaves the queue. *)
Advance(e) ==
  LET action == Head(queue[e])
  IN  IF done[e] + 1 = Accesses(action)
      THEN /\ queue' = [queue EXCEPT ![e] = Tail(@)]
           /\ done' = [done EXCEPT ![e] = 0]
      ELSE /\ done' = [done EXCEPT ![e] = @ + 1]
           /\ UNCHANGED queue

Busy(e) == (e \in running \/ e = Saver) /\ queue[e] # <<>>

ReadSrc(e) ==
  /\ Busy(e)
  /\ LET action == Head(queue[e])
         i == done[e] + 1
     IN  /\ i <= Len(action.srcs)
         /\ Access(SrcOperation(action, i), action.srcs[i])
         /\ operands' = [operands EXCEPT ![e] = IF Accesses(action) = i THEN <<>> ELSE Append(@, content[action.srcs[i]])]
  /\ Advance(e)
  /\ UNCHANGED <<mapping, content, running, phase>>

WriteDst(e) ==
  /\ Busy(e)
  /\ LET action == Head(queue[e])
         i == done[e] + 1 - Len(action.srcs)
     IN  /\ i >= 1
         /\ Access(DstOperation(action), action.dsts[i])
         /\ content' = [content EXCEPT ![action.dsts[i]] = Transform(action, operands[e])]
         /\ operands' = IF i = Len(action.dsts) THEN [operands EXCEPT ![e] = <<>>] ELSE operands
  /\ Advance(e)
  /\ UNCHANGED <<mapping, running, phase>>

ProcessAction(e) == ReadSrc(e) \/ WriteDst(e)

-----------------------------------------------------------------------------
InlineSave(p) ==
  [op |-> "READ", iu |-> FALSE, srcs |-> <<Entry(Output, Depth, 0, p)>>, dsts |-> <<Saved(p)>>]

(* Main joins the threads and then saves the outputs with actions of its own. *)
Wait_NotJoined ==
  /\ phase = "Wait"
  /\ phase' = "Save"
  /\ queue' = [queue EXCEPT ![Saver] =
                 InOrder({[key |-> <<p>>, action |-> InlineSave(p)] : p \in Points(Output)})]
  /\ UNCHANGED <<mapping, done, operands, state, content, running>>

Wait ==
  /\ phase = "Wait"
  /\ \A e \in Engines : queue[e] = <<>>
  /\ phase' = "Save"
  /\ queue' = [queue EXCEPT ![Saver] =
                 InOrder({[key |-> <<p>>, action |-> InlineSave(p)] : p \in Points(Output)})]
  /\ UNCHANGED <<mapping, done, operands, state, content, running>>

Complete ==
  /\ phase = "Save"
  /\ queue[Saver] = <<>>
  /\ phase' = "Complete"
  /\ UNCHANGED <<mapping, queue, done, operands, state, content, running>>

Terminating == phase = "Complete" /\ UNCHANGED vars

Next ==
  \/ Optimizations
  \/ \E e \in Engines : Run(e)
  \/ \E e \in Engines \cup {Saver} : ProcessAction(e)
  \/ Wait
  \/ Complete
  \/ Terminating

Spec == Init /\ [][Next]_vars

(* Every started thread is scheduled; main never stops of its own. *)
FairSpec ==
  /\ Spec
  /\ \A e \in Engines \cup {Saver} : WF_vars(ProcessAction(e))
  /\ WF_vars(Optimizations \/ (\E e \in Engines : Run(e)) \/ Wait \/ Complete)

-----------------------------------------------------------------------------
(* Values of an output point that are current: those in an entry in use, and *)
(* those an engine has taken out and not yet put down.                       *)
InUse(p) == {n \in Entries : n.ds = Output /\ n.p = p /\ state[n] # "Empty"}

Carriers(p) == {e \in Engines : /\ queue[e] # <<>>
                                /\ Len(operands[e]) = Len(Head(queue[e]).srcs)
                                /\ operands[e] # <<>>
                                /\ Last(Head(queue[e]).srcs).ds = Output
                                /\ Last(Head(queue[e]).srcs).p = p}

Product == [o \in Ops |-> UNION {{<<ds, Projection[ds][o]>>} : ds \in Inputs}]

(* Among the copies of an output point that are in use, or being moved by an *)
(* engine, at most one may be changed: every other one is locked, and waits  *)
(* for the update of that one.  This is what read-and-intend-to-update is    *)
(* for (Buffet::read_iu, Buffet::update).                                    *)
OneWritableCopy ==
  \A p \in Points(Output) :
     Cardinality({n \in InUse(p) : state[n] = "Ready"})
       + Cardinality(Carriers(p)) <= 1

(* The emulation accumulates as the reference program does: one product of   *)
(* one operation at a time, each once, none lost on the way between levels,  *)
(* whatever the threads do (TransferEngine::ProcessAction).                  *)
Accumulated == [p \in Points(Output) |->
                  UNION ({content[n] : n \in InUse(p)} \cup {Last(operands[e]) : e \in Carriers(p)})]

Performed == {o \in Ops : \A i \in 1..Len(queue[UnitEngine(mapping[o].s)]) :
                             queue[UnitEngine(mapping[o].s)][i] # Compute(o, mapping[o].s)}

Reference == INSTANCE ReferenceRun WITH
  Operations <- Ops, Target <- Projection[Output], Product <- Product, Outputs <- Points(Output),
  result <- Accumulated, performed <- Performed

RunsAsReference == Reference!SpecReference

(* What main saves for the comparison is the complete result, and it comes   *)
(* to that: no set of threads waits for each other for ever (Arch::Wait).    *)
(* Nothing is left in the buffets below the last storage: what was read down *)
(* has been shrunk or drained again.                                         *)
BuffetsEmptied == \A n \in Entries : n.level < Depth => state[n] = "Empty"

ResultSaved(p) == content[Saved(p)] = {Product[o] : o \in {q \in Ops : Projection[Output][q] = p}}

SavesResult == <>(phase = "Complete" /\ BuffetsEmptied /\ \A p \in Points(Output) : ResultSaved(p))

=============================================================================
