------------------------ MODULE TensorEmulatorProofs ------------------------
(***************************************************************************)
(* Proofs about TensorEmulator, for any einsum, any number of units and    *)
(* levels and any set of mappings whose programs are disciplined (below):  *)
(* however the threads of the transfer engines interleave, an output point *)
(* has at most one writable copy, and the emulation accumulates as the     *)
(* reference program does.                                                 *)
(*                                                                         *)
(* The value of an output point is carried by one token: the entry that is *)
(* ready, or the engine that took the value out and has not yet put it     *)
(* down.  Everything else in use is locked, and holds an older value.      *)
(***************************************************************************)
EXTENDS TensorEmulator, FiniteSetTheorems, TLAPS

-----------------------------------------------------------------------------
(* Disciplined programs *)

\* What the engines of a mapping work through, after the optimizations.
Program(m) == [e \in Engines |-> MergeActionsIntoMulticast(GenerateCode(m)[e])]

AllPoints == UNION {Points(ds) : ds \in DataSpaces}

EntriesOf(ds, p) == {n \in Entries : n.ds = ds /\ n.p = p}

\* An action on one point of an input.
InputAction(a) ==
  \E ds \in Inputs, p \in AllPoints :
    /\ a.op \in {"INIT", "READ", "MULTICAST", "SHRINK"} /\ a.iu = FALSE
    /\ a.srcs \in Seq(EntriesOf(ds, p)) /\ Len(a.srcs) = (IF a.op = "INIT" THEN 0 ELSE 1)
    /\ a.dsts \in Seq(EntriesOf(ds, p)) /\ (Len(a.dsts) = 0 <=> a.op = "SHRINK")

\* A point of the output goes from one entry to one other: down to be updated,
\* or up again.
MoveAction(a, p) ==
  \E n, k \in EntriesOf(Output, p) :
    \/ a = [op |-> "READ", iu |-> TRUE, srcs |-> <<n>>, dsts |-> <<k>>]
    \/ a = [op |-> "UPDATE", iu |-> FALSE, srcs |-> <<n>>, dsts |-> <<k>>]

Known(m, e, a) ==
  \/ InputAction(a)
  \/ \E p \in Points(Output) : MoveAction(a, p) \/ a = InitAction(Output, p)
  \/ \E o \in Ops : e = UnitEngine(m[o].s) /\ a = Compute(o, m[o].s)

Occurs(a, actions) == \E i \in 1 .. Len(actions) : actions[i] = a

\* Every output point is filled once, and every operation is computed once, by
\* the engine of its unit.
FillsOnce(m) ==
  \A p \in Points(Output) : \A e, f \in Engines :
    \A i \in 1 .. Len(Program(m)[e]), j \in 1 .. Len(Program(m)[f]) :
      Program(m)[e][i] = InitAction(Output, p) /\ Program(m)[f][j] = InitAction(Output, p)
        => e = f /\ i = j

ComputesOnce(m) ==
  /\ \A o \in Ops : LET e == UnitEngine(m[o].s) IN
       /\ Occurs(Compute(o, m[o].s), GenerateCode(m)[e])
       /\ Occurs(Compute(o, m[o].s), Program(m)[e])
  /\ \A o, q \in Ops : m[o].s = m[q].s =>
       LET actions == Program(m)[UnitEngine(m[o].s)] IN
       \A i, j \in 1 .. Len(actions) :
         actions[i] = Compute(o, m[o].s) /\ actions[j] = Compute(q, m[q].s) => (i = j <=> o = q)

Disciplined(m) ==
  /\ \A e \in Engines :
       /\ Program(m)[e] \in Seq(Range(Program(m)[e]))
       /\ \A i \in 1 .. Len(Program(m)[e]) : Known(m, e, Program(m)[e][i])
  /\ FillsOnce(m)
  /\ ComputesOnce(m)

\* What main saves, in the order in which it does.
Saves == InOrder({[key |-> <<p>>, action |-> InlineSave(p)] : p \in Points(Output)})

\* The programs of all mappings are disciplined.  A program is not when two
\* reads for update of one point follow each other in a queue: the
\* optimization would merge them into a multicast, and so make two writable
\* copies.
ProgramsAreDisciplined ==
  /\ \A m \in Mappings : Disciplined(m)
  /\ Saves \in Seq({InlineSave(p) : p \in Points(Output)})

-----------------------------------------------------------------------------
(* The inductive invariant *)

\* The values: of an output point the sets of products, of an input a point.
Values == SUBSET ({Product[o] : o \in Ops} \cup (Inputs \X AllPoints))

Workers == Engines \cup {Saver}

TypeOK ==
  /\ mapping \in Mappings
  /\ phase \in {"Optimizations", "Run", "Wait", "Save", "Complete"}
  /\ running \subseteq Engines
  /\ DOMAIN queue = Workers
  /\ done \in [Workers -> Nat]
  /\ operands \in [Workers -> Seq(Values)]
  /\ state \in [AllEntries -> {"Empty", "Ready", "Locked"}]
  /\ content \in [AllEntries -> Values]

\* Before the threads run nothing has happened.
NothingYet ==
  /\ \A e \in Engines : queue[e] = GenerateCode(mapping)[e]
  /\ queue[Saver] = <<>>
  /\ running = {}
  /\ \A e \in Workers : operands[e] = <<>> /\ done[e] = 0
  /\ \A n \in AllEntries : state[n] = "Empty"

\* What is left of a program is the last part of it.
Remains(left, actions) ==
  /\ left \in Seq(Range(actions))
  /\ Len(left) <= Len(actions)
  /\ \A i \in 1 .. Len(left) : left[i] = actions[Len(actions) - Len(left) + i]

Left(m, e, left) ==
  IF e = Saver THEN left \in Seq({InlineSave(p) : p \in Points(Output)})
  ELSE Remains(left, Program(m)[e])

QueuesLeft == \A e \in Workers : Left(mapping, e, queue[e])

\* The operands of the front action are read before its results are written.
InProgress(e) ==
  IF queue[e] = <<>> THEN done[e] = 0 /\ operands[e] = <<>>
  ELSE LET action == Head(queue[e]) IN
       /\ done[e] < Accesses(action)
       /\ Len(operands[e]) = IF done[e] < Len(action.srcs) THEN done[e] ELSE Len(action.srcs)

FrontInProgress == \A e \in Workers : InProgress(e)

\* A copy of an input point has the point's value, wherever it is.
InputsAreRight ==
  /\ \A n \in Entries : n.ds \in Inputs /\ state[n] = "Ready" => content[n] = {<<n.ds, n.p>>}
  /\ \A e \in Engines : \A i \in 1 .. Len(operands[e]) :
       LET n == Head(queue[e]).srcs[i] IN n.ds \in Inputs => operands[e][i] = {<<n.ds, n.p>>}

Writable(p) == {n \in InUse(p) : state[n] = "Ready"}

\* There is at most one token, and none before the point is filled.
OneToken(p) ==
  /\ \A n, k \in Writable(p) : n = k
  /\ \A e, f \in Carriers(p) : e = f
  /\ Writable(p) = {} \/ Carriers(p) = {}
  /\ (\E e \in Engines : Occurs(InitAction(Output, p), queue[e])) =>
       InUse(p) = {} /\ Carriers(p) = {}

\* The token has the latest value.
TokenIsLatest(p) ==
  /\ \A n \in InUse(p), k \in Writable(p) : content[n] \subseteq content[k]
  /\ \A n \in InUse(p), e \in Carriers(p) : content[n] \subseteq Last(operands[e])

Token(p) == OneToken(p) /\ TokenIsLatest(p)

\* The accesses leave all of this in order.
Working == TypeOK /\ QueuesLeft /\ FrontInProgress /\ InputsAreRight

\* Main saves after the engines are done.
SavesLast == phase \notin {"Save", "Complete"} => queue[Saver] = <<>>

IInv ==
  IF phase = "Optimizations" THEN TypeOK /\ NothingYet
  ELSE Working /\ SavesLast /\ \A p \in Points(Output) : Token(p)


LEMMA Appended ==
  ASSUME NEW S, NEW s \in Seq(S), NEW x \in S, NEW r, r = s \o <<x>>
  PROVE  /\ r \in Seq(S) /\ Len(r) = Len(s) + 1 /\ r[Len(s) + 1] = x
         /\ \A i \in 1 .. Len(s) : r[i] = s[i]
  OBVIOUS
-----------------------------------------------------------------------------
(* Constants *)

LEMMA SaverApart == Saver \notin Engines
  BY DEF Saver, Engines, MemEngines, UnitEngines, FillEngine, MemEngine, UnitEngine

LEMMA UnitIsEngine ==
  ASSUME NEW m \in Mappings, NEW o \in Ops
  PROVE  m[o].s \in Units /\ UnitEngine(m[o].s) \in Engines
<1>1. m[o] \in [s : Units, t : [1..(Depth - 1) -> Nat]]
  BY EmulatorAssumption DEF EmulatorAssumption
<1> QED
  BY <1>1 DEF Engines, UnitEngines

LEMMA EntriesApart ==
  /\ Entries \subseteq AllEntries
  /\ \A p : Saved(p) \notin Entries
  /\ \A p \in Points(Output) : Saved(p) \in AllEntries
  /\ \A p \in Points(Output) : Entry(Output, Depth, 0, p) \in EntriesOf(Output, p)
<1>1. Depth \in Nat /\ 0 \notin 1 .. Depth /\ Depth \in 1 .. Depth /\ Output \in DataSpaces
  BY ProgramsAssumption DEF ProgramsAssumption
<1>2. ASSUME NEW p PROVE Saved(p) \notin Entries
  <2>1. Saved(p).level = 0
    BY DEF Saved, Entry
  <2>2. \A n \in Entries : n.level \in 1 .. Depth
    BY DEF Entries, Entry
  <2> QED
    BY <1>1, <2>1, <2>2
<1>3. ASSUME NEW p \in Points(Output) PROVE Entry(Output, Depth, 0, p) \in EntriesOf(Output, p)
  BY <1>1, <1>3 DEF EntriesOf, Entries, Entry
<1> QED
  BY <1>2, <1>3 DEF AllEntries

\* The inputs of an operation are read in some order, each once.
LEMMA InputsListed ==
  /\ Cardinality(Inputs) \in Nat
  /\ SetToSeq(Inputs) \in [1 .. Cardinality(Inputs) -> Inputs]
  /\ \A ds \in Inputs : \E i \in 1 .. Cardinality(Inputs) : SetToSeq(Inputs)[i] = ds
<1> DEFINE n == Cardinality(Inputs)
<1>1. IsFiniteSet(Inputs)
  BY ProgramsAssumption, FS_RemoveElement DEF ProgramsAssumption, Inputs
<1>2. n \in Nat /\ \E f : f \in Bijection(1 .. n, Inputs)
  BY <1>1, FS_CardinalityType DEF ExistsBijection
<1>3. \E f \in [1 .. n -> Inputs] : IsInjective(f)
  BY <1>2 DEF Bijection, Injection
<1> DEFINE list == SetToSeq(Inputs)
<1>4. list \in [1 .. n -> Inputs] /\ IsInjective(list)
  BY <1>3 DEF SetToSeq
<1>5. list \in Injection(1 .. n, Inputs) /\ Cardinality(1 .. n) = n
  BY <1>2, <1>4, FS_Interval DEF Injection
<1> HIDE DEF n, list
<1>6. list \in Surjection(1 .. n, Inputs)
  BY <1>1, <1>5, FS_Injection DEF n
<1> QED
  BY <1>2, <1>4, <1>6 DEF Surjection, n, list

LEMMA ComputeIs ==
  ASSUME NEW m \in Mappings, NEW o \in Ops
  PROVE  LET a == Compute(o, m[o].s)
             k == Cardinality(Inputs)
         IN  /\ a.op = "COMPUTE" /\ a.iu = TRUE
             /\ k \in Nat /\ Len(a.srcs) = k + 1 /\ Len(a.dsts) = 1
             /\ a.srcs \in Seq(Entries) /\ a.dsts \in Seq(Entries)
             /\ \A i \in 1 .. k :
                  a.srcs[i] \in EntriesOf(SetToSeq(Inputs)[i], Projection[SetToSeq(Inputs)[i]][o])
             /\ a.srcs[k + 1] \in EntriesOf(Output, Projection[Output][o])
             /\ a.dsts[1] = a.srcs[k + 1]
<1> DEFINE k == Cardinality(Inputs)
           list == SetToSeq(Inputs)
           Operand(ds) == Entry(ds, 1, m[o].s, Projection[ds][o])
           a == Compute(o, m[o].s)
<1>1. k \in Nat /\ list \in [1 .. k -> Inputs]
  BY InputsListed
<1>2. ASSUME NEW ds \in DataSpaces PROVE Operand(ds) \in EntriesOf(ds, Projection[ds][o])
  <2>1. 1 \in 1 .. Depth
    BY ProgramsAssumption DEF ProgramsAssumption
  <2>2. m[o].s \in Units
    BY UnitIsEngine
  <2>3. Projection[ds][o] \in UNION {Points(d) : d \in DataSpaces}
    BY DEF Points
  <2> HIDE DEF k, list, a
  <2> QED
    BY <2>1, <2>2, <2>3 DEF EntriesOf, Entries, Entry
<1>3. Len(list) = k /\ list \in Seq(Inputs)
  BY <1>1
<1>4. a = [op |-> "COMPUTE", iu |-> TRUE,
           srcs |-> [i \in 1 .. Len(list) |-> Operand(list[i])] \o <<Operand(Output)>>,
           dsts |-> <<Operand(Output)>>]
  BY DEF Compute
<1> DEFINE read == [i \in 1 .. k |-> Operand(list[i])]
<1> HIDE DEF k, list, a, Operand
<1>5. \A i \in 1 .. k : list[i] \in Inputs /\ Operand(list[i]) \in EntriesOf(list[i], Projection[list[i]][o])
  BY <1>1, <1>2 DEF Inputs
<1>6. Output \in DataSpaces /\ Operand(Output) \in EntriesOf(Output, Projection[Output][o])
  BY <1>2, ProgramsAssumption DEF ProgramsAssumption
<1>7. Operand(Output) \in Entries /\ \A i \in 1 .. k : Operand(list[i]) \in Entries
  BY <1>5, <1>6 DEF EntriesOf
<1>8. read \in Seq(Entries) /\ Len(read) = k /\ \A i \in 1 .. k : read[i] = Operand(list[i])
  BY <1>1, <1>7
<1>9. a.srcs = read \o <<Operand(Output)>> /\ a.dsts = <<Operand(Output)>> /\ a.op = "COMPUTE" /\ a.iu = TRUE
  BY <1>3, <1>4
<1> HIDE DEF read
<1>10. /\ a.srcs \in Seq(Entries) /\ Len(a.srcs) = k + 1 /\ a.srcs[k + 1] = Operand(Output)
       /\ \A i \in 1 .. k : a.srcs[i] = Operand(list[i])
  <2>1. /\ a.srcs \in Seq(Entries) /\ Len(a.srcs) = Len(read) + 1
        /\ a.srcs[Len(read) + 1] = Operand(Output)
        /\ \A i \in 1 .. Len(read) : a.srcs[i] = read[i]
    <3>1. read \in Seq(Entries) /\ Operand(Output) \in Entries /\ a.srcs = read \o <<Operand(Output)>>
      BY <1>7, <1>8, <1>9
    <3> QED
      BY ONLY <3>1, Appended
  <2> QED
    BY ONLY <1>8, <2>1
<1>11. a.dsts \in Seq(Entries) /\ Len(a.dsts) = 1 /\ a.dsts[1] = Operand(Output)
  BY <1>7, <1>9
<1>12. /\ a.op = "COMPUTE" /\ a.iu = TRUE
       /\ k \in Nat /\ Len(a.srcs) = k + 1 /\ Len(a.dsts) = 1
       /\ a.srcs \in Seq(Entries) /\ a.dsts \in Seq(Entries)
       /\ \A i \in 1 .. k : a.srcs[i] \in EntriesOf(list[i], Projection[list[i]][o])
       /\ a.srcs[k + 1] \in EntriesOf(Output, Projection[Output][o])
       /\ a.dsts[1] = a.srcs[k + 1]
  BY <1>1, <1>5, <1>6, <1>9, <1>10, <1>11
<1> QED
  BY <1>12, Zenon DEF k, list, a

-----------------------------------------------------------------------------
(* What a known action may do *)

\* Sources that are written again are last, and what is taken from them is put
\* down at the one destination.
SourcesFit(a) ==
  \A i \in 1 .. Len(a.srcs) :
    \/ a.srcs[i].ds \in Inputs /\ SrcOperation(a, i) \in {"read", "shrink"}
    \/ /\ a.srcs[i].ds = Output /\ a.srcs[i].p \in Points(Output)
       /\ i = Len(a.srcs) /\ Len(a.dsts) = 1
       /\ SrcOperation(a, i) \in {"read_iu", "drain"}

DestinationsFit(a) ==
  \A i \in 1 .. Len(a.dsts) :
    \/ /\ a.dsts[i].ds \in Inputs /\ DstOperation(a) = "fill"
       /\ \A j \in 1 .. Len(a.srcs) : j = 1 /\ a.srcs[j].ds = a.dsts[i].ds /\ a.srcs[j].p = a.dsts[i].p
       /\ IF a.op = "INIT" THEN Len(a.srcs) = 0 ELSE a.op # "COMPUTE" /\ Len(a.srcs) = 1
       /\ a.dsts[i].ds = a.dsts[1].ds /\ a.dsts[i].p = a.dsts[1].p
    \/ /\ a.dsts[i].ds = Output /\ a.dsts[i].p \in Points(Output) /\ Len(a.dsts) = 1
       /\ \/ a = InitAction(Output, a.dsts[1].p) /\ Len(a.srcs) = 0
          \/ /\ a.op # "INIT" /\ Len(a.srcs) >= 1
             /\ a.srcs[Len(a.srcs)].ds = Output /\ a.srcs[Len(a.srcs)].p = a.dsts[1].p

Shaped(a) ==
  /\ a.srcs \in Seq(Entries) /\ a.dsts \in Seq(Entries) /\ Accesses(a) \in Nat \ {0}
  /\ SourcesFit(a) /\ DestinationsFit(a)

LEMMA OutputIsNoInput == Output \notin Inputs
  BY DEF Inputs

LEMMA InputActionShaped ==
  ASSUME NEW a, InputAction(a)
  PROVE  Shaped(a)
<1>1. PICK ds \in Inputs, p \in AllPoints :
        /\ a.op \in {"INIT", "READ", "MULTICAST", "SHRINK"} /\ a.iu = FALSE
        /\ a.srcs \in Seq(EntriesOf(ds, p)) /\ Len(a.srcs) = (IF a.op = "INIT" THEN 0 ELSE 1)
        /\ a.dsts \in Seq(EntriesOf(ds, p)) /\ (Len(a.dsts) = 0 <=> a.op = "SHRINK")
  BY DEF InputAction
<1>2. /\ \A i \in 1 .. Len(a.srcs) : a.srcs[i] \in Entries /\ a.srcs[i].ds = ds /\ a.srcs[i].p = p
      /\ \A i \in 1 .. Len(a.dsts) : a.dsts[i] \in Entries /\ a.dsts[i].ds = ds /\ a.dsts[i].p = p
  BY <1>1 DEF EntriesOf
<1>3. a.srcs \in Seq(Entries) /\ a.dsts \in Seq(Entries)
  BY <1>1 DEF EntriesOf
<1>4. Len(a.srcs) \in Nat /\ Len(a.dsts) \in Nat
  BY <1>3
<1>5. Accesses(a) \in Nat \ {0}
  <2>1. Len(a.srcs) = 1 \/ Len(a.dsts) # 0
    BY <1>1
  <2>2. \A x, y \in Nat : x = 1 \/ y # 0 => x + y \in Nat \ {0}
    OBVIOUS
  <2> QED
    BY <1>4, <2>1, <2>2, Zenon DEF Accesses
<1>6. SourcesFit(a)
  BY <1>1, <1>2 DEF SourcesFit, SrcOperation
<1>7. DestinationsFit(a)
  <2>1. SUFFICES ASSUME NEW i \in 1 .. Len(a.dsts)
                 PROVE  /\ a.dsts[i].ds \in Inputs /\ DstOperation(a) = "fill"
                        /\ \A j \in 1 .. Len(a.srcs) : j = 1 /\ a.srcs[j].ds = a.dsts[i].ds /\ a.srcs[j].p = a.dsts[i].p
                        /\ IF a.op = "INIT" THEN Len(a.srcs) = 0 ELSE a.op # "COMPUTE" /\ Len(a.srcs) = 1
                        /\ a.dsts[i].ds = a.dsts[1].ds /\ a.dsts[i].p = a.dsts[1].p
    BY DEF DestinationsFit
  <2>2. 1 \in 1 .. Len(a.dsts)
    BY <1>4
  <2> QED
    BY <1>1, <1>2, <1>4, <2>2 DEF DstOperation
<1> QED
  BY <1>3, <1>5, <1>6, <1>7 DEF Shaped

LEMMA MoveShaped ==
  ASSUME NEW p \in Points(Output), NEW a, MoveAction(a, p)
  PROVE  Shaped(a) /\ a.op \in {"READ", "UPDATE"} /\ Len(a.srcs) = 1
<1>1. PICK n \in EntriesOf(Output, p), k \in EntriesOf(Output, p) :
        /\ a.srcs = <<n>> /\ a.dsts = <<k>>
        /\ (a.op = "READ" /\ a.iu = TRUE) \/ (a.op = "UPDATE" /\ a.iu = FALSE)
  BY DEF MoveAction
<1>2. n \in Entries /\ n.ds = Output /\ n.p = p /\ k \in Entries /\ k.ds = Output /\ k.p = p
  BY DEF EntriesOf
<1>3. /\ a.srcs \in Seq(Entries) /\ Len(a.srcs) = 1 /\ a.srcs[1] = n
      /\ a.dsts \in Seq(Entries) /\ Len(a.dsts) = 1 /\ a.dsts[1] = k
  BY <1>1, <1>2
<1>4. SrcOperation(a, 1) \in {"read_iu", "drain"}
  BY <1>1, <1>3 DEF SrcOperation
<1> QED
  BY <1>1, <1>2, <1>3, <1>4 DEF Shaped, Accesses, SourcesFit, DestinationsFit

LEMMA FillShaped ==
  ASSUME NEW p \in Points(Output), NEW a, a = InitAction(Output, p)
  PROVE  Shaped(a) /\ a.op = "INIT" /\ Len(a.srcs) = 0 /\ a.dsts[1].ds = Output /\ a.dsts[1].p = p
<1> DEFINE n == Entry(Output, Depth, 0, p)
<1>1. n \in Entries /\ n.ds = Output /\ n.p = p
  BY EntriesApart DEF EntriesOf
<1>2. a.op = "INIT" /\ a.srcs = <<>> /\ a.dsts = <<n>>
  BY DEF InitAction
<1> HIDE DEF n
<1>3. a.srcs \in Seq(Entries) /\ Len(a.srcs) = 0 /\ a.dsts \in Seq(Entries) /\ Len(a.dsts) = 1 /\ a.dsts[1] = n
  BY <1>1, <1>2
<1>4. a = InitAction(Output, a.dsts[1].p)
  BY <1>1, <1>3
<1> QED
  BY <1>1, <1>2, <1>3, <1>4 DEF Shaped, Accesses, SourcesFit, DestinationsFit

LEMMA ComputeShaped ==
  ASSUME NEW m \in Mappings, NEW o \in Ops, NEW a, a = Compute(o, m[o].s)
  PROVE  Shaped(a) /\ a.op = "COMPUTE"
<1> DEFINE k == Cardinality(Inputs)
           list == SetToSeq(Inputs)
<1>1. /\ a.op = "COMPUTE" /\ a.iu = TRUE
      /\ k \in Nat /\ Len(a.srcs) = k + 1 /\ Len(a.dsts) = 1
      /\ a.srcs \in Seq(Entries) /\ a.dsts \in Seq(Entries)
      /\ \A i \in 1 .. k : a.srcs[i] \in EntriesOf(list[i], Projection[list[i]][o])
      /\ a.srcs[k + 1] \in EntriesOf(Output, Projection[Output][o])
      /\ a.dsts[1] = a.srcs[k + 1]
  BY ComputeIs, Zenon
<1>2. \A i \in 1 .. k : list[i] \in Inputs
  BY InputsListed
<1> HIDE DEF k, list
<1>3. /\ \A i \in 1 .. k : a.srcs[i].ds \in Inputs
      /\ a.srcs[k + 1].ds = Output /\ a.srcs[k + 1].p = Projection[Output][o]
  BY <1>1, <1>2 DEF EntriesOf
<1>4. Projection[Output][o] \in Points(Output)
  BY DEF Points
<1>5. \A i \in 1 .. k : i # k + 1
  BY <1>1
<1>6. SourcesFit(a)
  BY <1>1, <1>3, <1>4, <1>5 DEF SourcesFit, SrcOperation
<1>7. DestinationsFit(a)
  BY <1>1, <1>3, <1>4 DEF DestinationsFit
<1> QED
  BY <1>1, <1>6, <1>7 DEF Shaped, Accesses

LEMMA KnownShaped ==
  ASSUME NEW m \in Mappings, NEW e, NEW a, Known(m, e, a)
  PROVE  Shaped(a)
  BY InputActionShaped, MoveShaped, FillShaped, ComputeShaped DEF Known

-----------------------------------------------------------------------------
(* The queues *)

LEMMA QueueParts ==
  ASSUME NEW S, NEW q \in Seq(S), q # <<>>
  PROVE  /\ Len(q) \in Nat \ {0} /\ Head(q) = q[1] /\ Head(q) \in S
         /\ Tail(q) \in Seq(S) /\ Len(Tail(q)) = Len(q) - 1
         /\ \A i \in 1 .. Len(q) - 1 : Tail(q)[i] = q[i + 1]
  OBVIOUS

LEMMA TailRemains ==
  ASSUME NEW q, NEW actions, Len(actions) \in Nat, Remains(q, actions), q # <<>>
  PROVE  Remains(Tail(q), actions)
<1>1. /\ Len(q) \in Nat \ {0} /\ Tail(q) \in Seq(Range(actions)) /\ Len(Tail(q)) = Len(q) - 1
      /\ \A i \in 1 .. Len(q) - 1 : Tail(q)[i] = q[i + 1]
  BY QueueParts DEF Remains
<1>2. ASSUME NEW i \in 1 .. Len(Tail(q))
      PROVE  Tail(q)[i] = actions[Len(actions) - Len(Tail(q)) + i]
  <2>1. i \in 1 .. Len(q) - 1 /\ i + 1 \in 1 .. Len(q)
    BY <1>1
  <2>2. Tail(q)[i] = actions[Len(actions) - Len(q) + (i + 1)]
    BY <1>1, <2>1 DEF Remains
  <2>3. Len(actions) - Len(q) + (i + 1) = Len(actions) - Len(Tail(q)) + i
    BY ONLY <1>1, <2>1, Len(actions) \in Nat
  <2> QED
    BY <2>2, <2>3
<1>3. Len(Tail(q)) <= Len(actions)
  <2>1. Len(q) <= Len(actions)
    BY DEF Remains
  <2> QED
    BY ONLY <1>1, <2>1, Len(actions) \in Nat
<1> QED
  BY <1>1, <1>2, <1>3 DEF Remains

LEMMA ProgramIs ==
  ASSUME ProgramsAreDisciplined, NEW m \in Mappings, NEW e \in Engines
  PROVE  /\ Len(Program(m)[e]) \in Nat /\ Program(m)[e] \in Seq(Range(Program(m)[e]))
         /\ \A i \in 1 .. Len(Program(m)[e]) : Known(m, e, Program(m)[e][i])
<1>1. Disciplined(m)
  BY DEF ProgramsAreDisciplined
<1>2. /\ Program(m)[e] \in Seq(Range(Program(m)[e]))
      /\ \A i \in 1 .. Len(Program(m)[e]) : Known(m, e, Program(m)[e][i])
  BY <1>1 DEF Disciplined
<1>3. ASSUME NEW S, NEW q \in Seq(S) PROVE Len(q) \in Nat
  OBVIOUS
<1> QED
  BY <1>2, <1>3, Zenon

LEMMA RemainsKnown ==
  ASSUME ProgramsAreDisciplined, NEW m \in Mappings, NEW e \in Engines,
         NEW q, Remains(q, Program(m)[e]), NEW i \in 1 .. Len(q)
  PROVE  Known(m, e, q[i]) /\ Shaped(q[i])
<1> DEFINE actions == Program(m)[e]
<1>1. Len(actions) \in Nat /\ \A j \in 1 .. Len(actions) : Known(m, e, actions[j])
  BY ProgramIs
<1> HIDE DEF actions
<1>2. Len(q) <= Len(actions) /\ q[i] = actions[Len(actions) - Len(q) + i] /\ q \in Seq(Range(actions))
  BY DEF Remains, actions
<1>3. Len(q) \in Nat
  BY <1>2
<1>4. Len(actions) - Len(q) + i \in 1 .. Len(actions)
  BY <1>1, <1>2, <1>3
<1> QED
  BY <1>1, <1>2, <1>4, KnownShaped

LEMMA SaveIs ==
  ASSUME NEW p \in Points(Output), NEW a, a = InlineSave(p)
  PROVE  /\ a.srcs \in Seq(AllEntries) /\ Len(a.srcs) = 1 /\ a.srcs[1] = Entry(Output, Depth, 0, p)
         /\ a.dsts \in Seq(AllEntries) /\ Len(a.dsts) = 1 /\ a.dsts[1] = Saved(p)
         /\ a.op = "READ" /\ a.iu = FALSE
<1> DEFINE n == Entry(Output, Depth, 0, p)
           k == Saved(p)
<1>1. n \in AllEntries /\ k \in AllEntries
  BY EntriesApart DEF EntriesOf
<1>2. a.srcs = <<n>> /\ a.dsts = <<k>> /\ a.op = "READ" /\ a.iu = FALSE
  BY DEF InlineSave
<1> HIDE DEF n, k
<1>3. /\ a.srcs \in Seq(AllEntries) /\ Len(a.srcs) = 1 /\ a.srcs[1] = n
      /\ a.dsts \in Seq(AllEntries) /\ Len(a.dsts) = 1 /\ a.dsts[1] = k
  BY <1>1, <1>2
<1> QED
  BY <1>2, <1>3 DEF n, k

\* An action in the queue of a worker.
Due(m, e, a) ==
  IF e = Saver THEN \E p \in Points(Output) : a = InlineSave(p) ELSE Known(m, e, a) /\ Shaped(a)

LEMMA DueIs ==
  ASSUME NEW m, NEW e, NEW a, Due(m, e, a)
  PROVE  /\ a.srcs \in Seq(AllEntries) /\ Len(a.srcs) \in Nat
         /\ a.dsts \in Seq(AllEntries) /\ Len(a.dsts) \in Nat
         /\ Accesses(a) \in Nat \ {0}
<1>1. ASSUME NEW p \in Points(Output), a = InlineSave(p)
      PROVE  /\ a.srcs \in Seq(AllEntries) /\ Len(a.srcs) \in Nat
             /\ a.dsts \in Seq(AllEntries) /\ Len(a.dsts) \in Nat
             /\ Accesses(a) \in Nat \ {0}
  <2>1. /\ a.srcs \in Seq(AllEntries) /\ Len(a.srcs) = 1
        /\ a.dsts \in Seq(AllEntries) /\ Len(a.dsts) = 1
    BY <1>1, SaveIs, Zenon
  <2> QED
    BY ONLY <2>1 DEF Accesses
<1>2. ASSUME Shaped(a)
      PROVE  /\ a.srcs \in Seq(AllEntries) /\ Len(a.srcs) \in Nat
             /\ a.dsts \in Seq(AllEntries) /\ Len(a.dsts) \in Nat
             /\ Accesses(a) \in Nat \ {0}
  BY <1>2, EntriesApart DEF Shaped
<1> QED
  BY <1>1, <1>2 DEF Due

LEMMA FrontIsDue ==
  ASSUME ProgramsAreDisciplined, NEW m \in Mappings, NEW e \in Workers,
         NEW q, Left(m, e, q), q # <<>>
  PROVE  Due(m, e, Head(q)) /\ Left(m, e, Tail(q))
<1>1. CASE e = Saver
  <2>1. q \in Seq({InlineSave(p) : p \in Points(Output)})
    BY <1>1 DEF Left
  <2>2. Head(q) \in {InlineSave(p) : p \in Points(Output)} /\ Tail(q) \in Seq({InlineSave(p) : p \in Points(Output)})
    BY <2>1, QueueParts
  <2> QED
    BY <1>1, <2>2 DEF Due, Left
<1>2. CASE e # Saver
  <2>1. e \in Engines
    BY <1>2 DEF Workers
  <2>2. Remains(q, Program(m)[e]) /\ Len(Program(m)[e]) \in Nat
    BY <1>2, <2>1, ProgramIs DEF Left
  <2>3. Len(q) \in Nat \ {0} /\ Head(q) = q[1]
    BY <2>2, QueueParts DEF Remains
  <2>4. Known(m, e, q[1]) /\ Shaped(q[1])
    BY <2>1, <2>2, <2>3, RemainsKnown
  <2>5. Remains(Tail(q), Program(m)[e])
    BY <2>2, TailRemains
  <2> QED
    BY <1>2, <2>3, <2>4, <2>5, Zenon DEF Due, Left
<1> QED
  BY <1>1, <1>2

-----------------------------------------------------------------------------
(* An access of the front action *)

Current(e) == Head(queue[e])
Source(e) == Current(e).srcs[done[e] + 1]
Destination(e) == Current(e).dsts[done[e] + 1 - Len(Current(e).srcs)]

\* Whether the next access is the last one of the action.
Finishes(e) == done[e] + 1 = Accesses(Current(e))

Advanced(e) ==
  /\ DOMAIN queue' = Workers /\ done' \in [Workers -> Nat]
  /\ \A f \in Workers : f # e => queue'[f] = queue[f] /\ done'[f] = done[f]
  /\ queue'[e] = IF Finishes(e) THEN Tail(queue[e]) ELSE queue[e]
  /\ done'[e] = IF Finishes(e) THEN 0 ELSE done[e] + 1

LEMMA AdvanceAdvances ==
  ASSUME TypeOK, NEW e \in Workers, Advance(e)
  PROVE  Advanced(e)
<1>1. DOMAIN queue = Workers /\ done \in [Workers -> Nat]
  BY DEF TypeOK
<1>2. CASE Finishes(e)
  <2>1. queue' = [queue EXCEPT ![e] = Tail(@)] /\ done' = [done EXCEPT ![e] = 0]
    BY <1>2 DEF Advance, Finishes, Current
  <2> QED
    BY <1>1, <1>2, <2>1 DEF Advanced
<1>3. CASE ~ Finishes(e)
  <2>1. queue' = queue /\ done' = [done EXCEPT ![e] = @ + 1]
    BY <1>3 DEF Advance, Finishes, Current
  <2> QED
    BY <1>1, <1>3, <2>1 DEF Advanced
<1> QED
  BY <1>2, <1>3

LEMMA AdvancedKeepsQueues ==
  ASSUME ProgramsAreDisciplined, TypeOK, QueuesLeft, NEW e \in Workers, queue[e] # <<>>,
         Advanced(e), mapping' = mapping
  PROVE  QueuesLeft'
<1>1. mapping \in Mappings
  BY DEF TypeOK
<1>2. ASSUME NEW f \in Workers PROVE Left(mapping, f, queue'[f])
  <2>1. Left(mapping, f, queue[f])
    BY DEF QueuesLeft
  <2>2. queue'[f] = queue[f] \/ (queue'[f] = Tail(queue[f]) /\ queue[f] # <<>>)
    <3>1. f # e => queue'[f] = queue[f]
      BY DEF Advanced
    <3>2. queue'[e] = queue[e] \/ queue'[e] = Tail(queue[e])
      BY DEF Advanced
    <3> QED
      BY <3>1, <3>2, queue[e] # <<>>
  <2> QED
    BY <1>1, <2>1, <2>2, FrontIsDue
<1> QED
  BY <1>2, mapping' = mapping DEF QueuesLeft

LEMMA AdvancedKeepsProgress ==
  ASSUME ProgramsAreDisciplined, TypeOK, QueuesLeft, FrontInProgress, NEW e \in Workers, queue[e] # <<>>,
         Advanced(e), QueuesLeft', TypeOK',
         \A f \in Workers : f # e => operands'[f] = operands[f],
         Finishes(e) => operands'[e] = <<>>,
         ~ Finishes(e) => LET after == done[e] + 1 IN
           Len(operands'[e]) = IF after < Len(Current(e).srcs) THEN after ELSE Len(Current(e).srcs)
  PROVE  FrontInProgress'
<1>1. ASSUME NEW f \in Workers PROVE InProgress(f)'
  <2>1. CASE f # e
    <3>1. queue'[f] = queue[f] /\ done'[f] = done[f] /\ operands'[f] = operands[f]
      BY <2>1 DEF Advanced
    <3>2. InProgress(f)
      BY DEF FrontInProgress
    <3> QED
      BY ONLY <3>1, <3>2 DEF InProgress
  <2>2. CASE f = e /\ Finishes(e)
    <3>1. operands'[f] = <<>> /\ done'[f] = 0
      BY <2>2 DEF Advanced
    <3>2. ASSUME queue'[f] # <<>>
          PROVE  /\ Accesses(Head(queue'[f])) \in Nat \ {0}
                 /\ Len(Head(queue'[f]).srcs) \in Nat
      <4>1. mapping' \in Mappings /\ Left(mapping', f, queue'[f])
        BY DEF TypeOK, QueuesLeft
      <4>2. Due(mapping', f, Head(queue'[f]))
        BY <3>2, <4>1, FrontIsDue
      <4> QED
        BY <4>2, DueIs
    <3> QED
      BY <3>1, <3>2 DEF InProgress
  <2>3. CASE f = e /\ ~ Finishes(e)
    <3>1. queue'[e] = queue[e] /\ done'[e] = done[e] + 1 /\ done[e] \in Nat
      BY <2>3 DEF Advanced, TypeOK
    <3>2. done[e] < Accesses(Current(e)) /\ done[e] + 1 # Accesses(Current(e))
      BY <2>3 DEF FrontInProgress, InProgress, Current, Finishes
    <3>3. Accesses(Current(e)) \in Nat
      <4>1. Due(mapping, e, Head(queue[e]))
        BY FrontIsDue DEF TypeOK, QueuesLeft
      <4> QED
        BY <4>1, DueIs DEF Current
    <3>4. done'[e] < Accesses(Current(e))
      BY ONLY <3>1, <3>2, <3>3
    <3> QED
      BY <2>3, <3>1, <3>4 DEF InProgress, Current
  <2> QED
    BY <2>1, <2>2, <2>3
<1> QED
  BY <1>1 DEF FrontInProgress

\* What an access does, by the entry it is made on.
Touches(n, was, becomes) ==
  /\ n \in AllEntries /\ state[n] = was
  /\ state' \in [AllEntries -> {"Empty", "Ready", "Locked"}]
  /\ state'[n] = becomes /\ \A k \in AllEntries : k # n => state'[k] = state[k]

Stays == mapping' = mapping /\ running' = running /\ phase' = phase

Reads(e, n) ==
  /\ queue[e] # <<>> /\ Advanced(e) /\ Stays
  /\ done[e] + 1 \in 1 .. Len(Current(e).srcs) /\ n = Source(e)
  /\ Len(operands[e]) = done[e]
  /\ Touches(n, "Ready", Leaves[SrcOperation(Current(e), done[e] + 1)])
  /\ content' = content
  /\ operands' \in [Workers -> Seq(Values)]
  /\ \A f \in Workers : f # e => operands'[f] = operands[f]
  /\ operands'[e] = IF Finishes(e) THEN <<>> ELSE Append(operands[e], content[n])

Writes(e, k) ==
  /\ queue[e] # <<>> /\ Advanced(e) /\ Stays
  /\ done[e] + 1 - Len(Current(e).srcs) \in 1 .. Len(Current(e).dsts) /\ k = Destination(e)
  /\ Len(operands[e]) = Len(Current(e).srcs)
  /\ Touches(k, Needs[DstOperation(Current(e))], "Ready")
  /\ content' = [content EXCEPT ![k] = Transform(Current(e), operands[e])]
  /\ content'[k] = Transform(Current(e), operands[e])
  /\ \A n \in AllEntries : n # k => content'[n] = content[n]
  /\ operands' \in [Workers -> Seq(Values)]
  /\ \A f \in Workers : f # e => operands'[f] = operands[f]
  /\ operands'[e] = IF Finishes(e) THEN <<>> ELSE operands[e]

LEMMA SourceOperations ==
  ASSUME NEW m, NEW e \in Workers, NEW a, Due(m, e, a), NEW i \in 1 .. Len(a.srcs)
  PROVE  /\ SrcOperation(a, i) \in {"read", "shrink", "read_iu", "drain"}
         /\ e = Saver => SrcOperation(a, i) = "read"
<1>1. CASE e = Saver
  <2>1. a.op = "READ" /\ a.iu = FALSE
    BY <1>1, SaveIs DEF Due
  <2> QED
    BY <2>1 DEF SrcOperation
<1>2. CASE e # Saver
  BY <1>2 DEF Due, Shaped, SourcesFit
<1> QED
  BY <1>1, <1>2

LEMMA AccessTouches ==
  ASSUME TypeOK, NEW n \in AllEntries, NEW operation \in DOMAIN Needs, Access(operation, n)
  PROVE  Touches(n, Needs[operation], Leaves[operation])
<1>1. Leaves[operation] \in {"Empty", "Ready", "Locked"}
  BY DEF Leaves, Needs
<1> DEFINE becomes == Leaves[operation]
           was == Needs[operation]
<1>2. state \in [AllEntries -> {"Empty", "Ready", "Locked"}] /\ state[n] = was
      /\ state' = [state EXCEPT ![n] = becomes]
  BY DEF TypeOK, Access
<1>3. becomes \in {"Empty", "Ready", "Locked"}
  BY <1>1
<1> HIDE DEF becomes, was
<1>4. Touches(n, was, becomes)
  BY <1>2, <1>3 DEF Touches
<1> QED
  BY <1>4 DEF becomes, was

LEMMA ReadSrcReads ==
  ASSUME ProgramsAreDisciplined, TypeOK, QueuesLeft, FrontInProgress, NEW e \in Workers, ReadSrc(e)
  PROVE  Reads(e, Source(e))
<1> DEFINE a == Current(e)
           i == done[e] + 1
           n == Source(e)
<1>1. queue[e] # <<>> /\ i <= Len(a.srcs) /\ Access(SrcOperation(a, i), n) /\ Advance(e) /\ content' = content
      /\ operands' = [operands EXCEPT ![e] = IF Accesses(a) = i THEN <<>> ELSE Append(@, content[n])]
  BY DEF ReadSrc, Busy, Current, Source
<1>2. Stays
  BY DEF ReadSrc, Stays
<1>3. Due(mapping, e, a)
  BY <1>1, FrontIsDue DEF TypeOK, QueuesLeft, Current
<1>4. a.srcs \in Seq(AllEntries) /\ Len(a.srcs) \in Nat /\ done[e] \in Nat
  BY <1>3, DueIs DEF TypeOK
<1>5. i \in 1 .. Len(a.srcs)
  BY <1>1, <1>4
<1>6. n = a.srcs[i] /\ n \in AllEntries
  BY <1>4, <1>5 DEF Source, Current
<1>7. SrcOperation(a, i) \in {"read", "shrink", "read_iu", "drain"}
  BY <1>3, <1>5, SourceOperations
<1>8. Len(operands[e]) = done[e]
  <2>1. done[e] < Len(a.srcs)
    BY ONLY <1>4, <1>5
  <2> QED
    BY <1>1, <2>1 DEF FrontInProgress, InProgress, Current
<1> DEFINE operation == SrcOperation(a, i)
<1>9. Touches(n, "Ready", Leaves[operation])
  <2>1. operation \in DOMAIN Needs /\ Needs[operation] = "Ready"
    BY <1>7 DEF Needs
  <2>2. Access(operation, n)
    BY <1>1
  <2> HIDE DEF operation, n
  <2>3. n \in AllEntries
    BY <1>6 DEF n
  <2>4. Touches(n, Needs[operation], Leaves[operation])
    BY <2>1, <2>2, <2>3, AccessTouches
  <2> QED
    BY <2>1, <2>4
<1>10. /\ operands' \in [Workers -> Seq(Values)]
       /\ \A f \in Workers : f # e => operands'[f] = operands[f]
       /\ operands'[e] = IF Finishes(e) THEN <<>> ELSE Append(operands[e], content[n])
  <2>1. operands \in [Workers -> Seq(Values)] /\ content[n] \in Values
    BY <1>6 DEF TypeOK
  <2>2. operands' = [operands EXCEPT ![e] = IF Finishes(e) THEN <<>> ELSE Append(@, content[n])]
    BY <1>1 DEF Finishes
  <2> HIDE DEF n
  <2> QED
    BY ONLY <2>1, <2>2, e \in Workers
<1>11. Advanced(e)
  BY <1>1, AdvanceAdvances
<1> QED
  BY <1>1, <1>2, <1>5, <1>8, <1>9, <1>10, <1>11 DEF Reads

LEMMA Counting ==
  ASSUME NEW d \in Nat, NEW x \in Nat, NEW y \in Nat
  PROVE  /\ d + 1 = x + y <=> d + 1 - x = y
         /\ d + 1 - x >= 1 => ~ (d < x)
         /\ d + 1 - x >= 1 /\ d < x + y => d + 1 - x \in 1 .. y
  OBVIOUS

LEMMA WriteDstWrites ==
  ASSUME ProgramsAreDisciplined, TypeOK, QueuesLeft, FrontInProgress, NEW e \in Workers, WriteDst(e)
  PROVE  Writes(e, Destination(e))
<1> DEFINE a == Current(e)
           i == done[e] + 1 - Len(a.srcs)
           k == Destination(e)
<1>1. /\ queue[e] # <<>> /\ i >= 1 /\ Access(DstOperation(a), k) /\ Advance(e)
      /\ content' = [content EXCEPT ![k] = Transform(a, operands[e])]
      /\ operands' = IF i = Len(a.dsts) THEN [operands EXCEPT ![e] = <<>>] ELSE operands
  BY DEF WriteDst, Busy, Current, Destination
<1>2. Stays
  BY DEF WriteDst, Stays
<1>3. Due(mapping, e, a)
  BY <1>1, FrontIsDue DEF TypeOK, QueuesLeft, Current
<1>4. /\ a.dsts \in Seq(AllEntries) /\ Len(a.dsts) \in Nat /\ Len(a.srcs) \in Nat /\ done[e] \in Nat
      /\ Accesses(a) = Len(a.srcs) + Len(a.dsts)
  BY <1>3, DueIs DEF TypeOK, Accesses
<1>5. done[e] < Accesses(a)
  BY <1>1 DEF FrontInProgress, InProgress, Current
<1>6. i \in 1 .. Len(a.dsts) /\ (Finishes(e) <=> i = Len(a.dsts)) /\ ~ done[e] < Len(a.srcs)
  <2>1. Finishes(e) <=> done[e] + 1 = Accesses(a)
    BY DEF Finishes
  <2>2. i >= 1
    BY <1>1
  <2>3. done[e] < Len(a.srcs) + Len(a.dsts)
    BY <1>4, <1>5
  <2> HIDE DEF a
  <2>4. done[e] \in Nat /\ Len(a.srcs) \in Nat /\ Len(a.dsts) \in Nat
    BY <1>4
  <2>5. i \in 1 .. Len(a.dsts)
    BY <2>2, <2>3, <2>4, Counting, Zenon
  <2>6. ~ (done[e] < Len(a.srcs))
    BY <2>2, <2>4, Counting, Zenon
  <2>7. done[e] + 1 = Len(a.srcs) + Len(a.dsts) <=> i = Len(a.dsts)
    BY <2>4, Counting, Zenon
  <2> QED
    BY <1>4, <2>1, <2>5, <2>6, <2>7
<1>7. k = a.dsts[i] /\ k \in AllEntries
  BY <1>4, <1>6 DEF Destination, Current
<1>8. Len(operands[e]) = Len(a.srcs)
  BY <1>1, <1>6 DEF FrontInProgress, InProgress, Current
<1> DEFINE operation == DstOperation(a)
<1>9. Touches(k, Needs[operation], "Ready")
  <2>1. operation \in DOMAIN Needs /\ Leaves[operation] = "Ready"
    BY DEF Needs, Leaves, DstOperation
  <2>2. Access(operation, k)
    BY <1>1
  <2> HIDE DEF operation, k
  <2>3. k \in AllEntries
    BY <1>7 DEF k
  <2>4. Touches(k, Needs[operation], Leaves[operation])
    BY <2>1, <2>2, <2>3, AccessTouches
  <2> QED
    BY <2>1, <2>4
<1> DEFINE v == Transform(a, operands[e])
<1>10. /\ content' = [content EXCEPT ![k] = v] /\ content'[k] = v
       /\ \A n \in AllEntries : n # k => content'[n] = content[n]
  <2>1. DOMAIN content = AllEntries /\ content' = [content EXCEPT ![k] = v]
    BY <1>1 DEF TypeOK
  <2> HIDE DEF v, k
  <2> QED
    BY <1>7, <2>1 DEF k
<1>11. /\ operands' \in [Workers -> Seq(Values)]
       /\ \A f \in Workers : f # e => operands'[f] = operands[f]
       /\ operands'[e] = IF Finishes(e) THEN <<>> ELSE operands[e]
  <2>1. operands \in [Workers -> Seq(Values)]
    BY DEF TypeOK
  <2>2. CASE Finishes(e)
    <3>1. operands' = [operands EXCEPT ![e] = <<>>]
      BY <1>1, <1>6, <2>2
    <3> QED
      BY ONLY <2>1, <2>2, <3>1, e \in Workers
  <2>3. CASE ~ Finishes(e)
    <3>1. operands' = operands
      BY <1>1, <1>6, <2>3
    <3> QED
      BY ONLY <2>1, <2>3, <3>1, e \in Workers
  <2> QED
    BY <2>2, <2>3
<1>12. Advanced(e)
  BY <1>1, AdvanceAdvances
<1> QED
  BY <1>1, <1>2, <1>6, <1>8, <1>9, <1>10, <1>11, <1>12 DEF Writes

-----------------------------------------------------------------------------
(* The values that actions make *)

LEMMA PointValue ==
  ASSUME NEW n \in Entries, n.ds \in Inputs
  PROVE  {<<n.ds, n.p>>} \in Values
<1>1. n.p \in AllPoints
  BY DEF Entries, Entry, AllPoints
<1> QED
  BY <1>1 DEF Values

LEMMA LastOf ==
  ASSUME NEW S, NEW s \in Seq(S), Len(s) >= 1
  PROVE  /\ Last(s) = s[Len(s)] /\ Last(s) \in S /\ s # <<>>
         /\ Len(Front(s)) = Len(s) - 1 /\ DOMAIN Front(s) = 1 .. Len(s) - 1
         /\ \A i \in 1 .. Len(s) - 1 : Front(s)[i] = s[i]
  BY DEF Last, Front

\* The values of sources that are inputs.
ValuesFit(values, a) ==
  /\ values \in Seq(Values) /\ Len(values) = Len(a.srcs)
  /\ \A i \in 1 .. Len(values) :
       a.srcs[i].ds \in Inputs => values[i] = {<<a.srcs[i].ds, a.srcs[i].p>>}

LEMMA ComputedValue ==
  ASSUME NEW m \in Mappings, NEW o \in Ops, NEW a, a = Compute(o, m[o].s),
         NEW values, ValuesFit(values, a)
  PROVE  /\ Len(values) >= 1
         /\ Transform(a, values) = Last(values) \cup {Product[o]}
         /\ Transform(a, values) \in Values
<1> DEFINE k == Cardinality(Inputs)
           list == SetToSeq(Inputs)
           at(i) == Projection[list[i]][o]
<1>1. /\ a.op = "COMPUTE" /\ k \in Nat /\ Len(a.srcs) = k + 1
      /\ \A i \in 1 .. k : a.srcs[i] \in EntriesOf(list[i], at(i))
  BY ComputeIs, Zenon
<1>2. list \in [1 .. k -> Inputs] /\ \A ds \in Inputs : \E i \in 1 .. k : list[i] = ds
  BY InputsListed, Zenon
<1>3. values \in Seq(Values) /\ Len(values) = k + 1
  BY <1>1 DEF ValuesFit
<1>4. ASSUME NEW i \in 1 .. k PROVE values[i] = {<<list[i], at(i)>>}
  <2>1. a.srcs[i].ds = list[i] /\ a.srcs[i].p = at(i) /\ list[i] \in Inputs
    BY <1>1, <1>2 DEF EntriesOf
  <2>2. i \in 1 .. Len(values)
    BY <1>1, <1>3
  <2> QED
    BY <2>1, <2>2 DEF ValuesFit
<1> HIDE DEF k, list
<1>5. /\ Len(values) >= 1 /\ Last(values) \in Values
      /\ DOMAIN Front(values) = 1 .. k /\ \A i \in 1 .. k : Front(values)[i] = values[i]
  <2>1. Len(values) >= 1 /\ Len(values) - 1 = k
    BY <1>1, <1>3
  <2> QED
    BY <1>3, <2>1, LastOf
<1>6. Range(Front(values)) = {values[i] : i \in 1 .. k}
  BY <1>5 DEF Range
<1>7. Product[o] = UNION {{<<ds, Projection[ds][o]>>} : ds \in Inputs}
  BY DEF Product
<1>8. UNION {values[i] : i \in 1 .. k} = UNION {{<<ds, Projection[ds][o]>>} : ds \in Inputs}
  <2>1. {values[i] : i \in 1 .. k} = {{<<list[i], at(i)>>} : i \in 1 .. k}
    BY <1>4
  <2>2. {{<<list[i], at(i)>>} : i \in 1 .. k} = {{<<ds, Projection[ds][o]>>} : ds \in Inputs}
    BY <1>2
  <2> QED
    BY <2>1, <2>2
<1>9. Transform(a, values) = Last(values) \cup {Product[o]}
  BY <1>1, <1>6, <1>7, <1>8 DEF Transform
<1>10. Last(values) \cup {Product[o]} \in Values
  BY <1>5 DEF Values
<1> QED
  BY <1>5, <1>9, <1>10

LEMMA CopiedValue ==
  ASSUME NEW a, a.op \notin {"INIT", "COMPUTE"}, NEW values, ValuesFit(values, a), Len(a.srcs) = 1
  PROVE  Transform(a, values) = values[1] /\ Transform(a, values) = Last(values) /\ Transform(a, values) \in Values
<1>1. values \in Seq(Values) /\ Len(values) = 1
  BY DEF ValuesFit
<1>2. Last(values) = values[1] /\ Last(values) \in Values
  <2>1. Len(values) >= 1
    BY <1>1
  <2>2. Last(values) = values[Len(values)] /\ Last(values) \in Values
    BY <1>1, <2>1, LastOf, Zenon
  <2> QED
    BY <1>1, <2>2, Zenon
<1> QED
  BY <1>2 DEF Transform

LEMMA InputWritten ==
  ASSUME NEW a, Shaped(a), NEW i \in 1 .. Len(a.dsts), a.dsts[i].ds \in Inputs,
         NEW values, ValuesFit(values, a)
  PROVE  Transform(a, values) = {<<a.dsts[i].ds, a.dsts[i].p>>} /\ Transform(a, values) \in Values
<1>1. /\ \A j \in 1 .. Len(a.srcs) : j = 1 /\ a.srcs[j].ds = a.dsts[i].ds /\ a.srcs[j].p = a.dsts[i].p
      /\ IF a.op = "INIT" THEN Len(a.srcs) = 0 ELSE a.op # "COMPUTE" /\ Len(a.srcs) = 1
      /\ a.dsts[i].ds = a.dsts[1].ds /\ a.dsts[i].p = a.dsts[1].p
  BY OutputIsNoInput DEF Shaped, DestinationsFit
<1>2. a.dsts[i] \in Entries
  BY DEF Shaped
<1>3. {<<a.dsts[i].ds, a.dsts[i].p>>} \in Values
  BY <1>2, PointValue
<1>4. CASE a.op = "INIT"
  BY <1>1, <1>3, <1>4, OutputIsNoInput DEF Transform
<1>5. CASE a.op # "INIT"
  <2>0. Len(a.srcs) = 1 /\ a.op \notin {"INIT", "COMPUTE"}
    BY <1>1, <1>5
  <2>1. Len(a.srcs) = 1 /\ a.op \notin {"INIT", "COMPUTE"} /\ 1 \in 1 .. Len(a.srcs) /\ 1 \in 1 .. Len(values)
    BY <2>0 DEF ValuesFit
  <2>2. Transform(a, values) = values[1]
    BY <2>1, CopiedValue
  <2>3. values[1] = {<<a.srcs[1].ds, a.srcs[1].p>>}
    BY <1>1, <2>1 DEF ValuesFit
  <2> QED
    BY <1>1, <1>3, <2>1, <2>2, <2>3
<1> QED
  BY <1>4, <1>5

\* The output is filled with no product, an operation adds one, and a move
\* changes nothing.
LEMMA OutputWritten ==
  ASSUME NEW m \in Mappings, NEW e, NEW a, Known(m, e, a), Shaped(a),
         NEW i \in 1 .. Len(a.dsts), a.dsts[i].ds = Output, NEW values, ValuesFit(values, a)
  PROVE  /\ Transform(a, values) \in Values
         /\ \/ a = InitAction(Output, a.dsts[i].p) /\ Transform(a, values) = {}
            \/ /\ Len(values) >= 1
               /\ \/ a.op # "COMPUTE" /\ Transform(a, values) = Last(values)
                  \/ \E o \in Ops : /\ e = UnitEngine(m[o].s) /\ a = Compute(o, m[o].s)
                                    /\ Transform(a, values) = Last(values) \cup {Product[o]}
<1>0. {} \in Values
  BY DEF Values
<1>1. CASE InputAction(a)
  <2>1. \A j \in 1 .. Len(a.dsts) : a.dsts[j].ds \in Inputs
    BY <1>1 DEF InputAction, EntriesOf
  <2> QED
    BY <2>1, OutputIsNoInput
<1>2. ASSUME NEW p \in Points(Output), MoveAction(a, p)
      PROVE  /\ Len(values) >= 1 /\ Transform(a, values) \in Values
             /\ a.op # "COMPUTE" /\ Transform(a, values) = Last(values)
  <2>1. a.op \in {"READ", "UPDATE"} /\ Len(a.srcs) = 1
    BY <1>2, MoveShaped
  <2> QED
    BY <2>1, CopiedValue DEF ValuesFit
<1>3. ASSUME NEW p \in Points(Output), a = InitAction(Output, p)
      PROVE  a = InitAction(Output, a.dsts[i].p) /\ Transform(a, values) = {}
  <2>1. a.op = "INIT" /\ a.dsts[1].ds = Output /\ a.dsts[1].p = p
    BY <1>3, FillShaped
  <2>2. i = 1
    BY OutputIsNoInput DEF Shaped, DestinationsFit
  <2> QED
    BY <1>3, <2>1, <2>2 DEF Transform
<1>4. ASSUME NEW o \in Ops, a = Compute(o, m[o].s)
      PROVE  /\ Len(values) >= 1 /\ Transform(a, values) \in Values
             /\ Transform(a, values) = Last(values) \cup {Product[o]}
  BY <1>4, ComputedValue
<1> QED
  BY <1>0, <1>1, <1>2, <1>3, <1>4, Zenon DEF Known

-----------------------------------------------------------------------------
(* Accesses keep the queues in order and the copies of inputs right *)

LEMMA CurrentIsDue ==
  ASSUME ProgramsAreDisciplined, TypeOK, QueuesLeft, NEW e \in Workers, queue[e] # <<>>
  PROVE  /\ Due(mapping, e, Current(e))
         /\ Current(e).srcs \in Seq(AllEntries) /\ Len(Current(e).srcs) \in Nat
         /\ Current(e).dsts \in Seq(AllEntries) /\ Len(Current(e).dsts) \in Nat
         /\ Accesses(Current(e)) = Len(Current(e).srcs) + Len(Current(e).dsts)
<1>1. Due(mapping, e, Current(e))
  BY FrontIsDue DEF TypeOK, QueuesLeft, Current
<1> QED
  BY <1>1, DueIs DEF Accesses

LEMMA OperandsFit ==
  ASSUME TypeOK, InputsAreRight, NEW e \in Engines, Len(operands[e]) = Len(Current(e).srcs)
  PROVE  ValuesFit(operands[e], Current(e))
<1>1. operands[e] \in Seq(Values)
  BY DEF TypeOK, Workers
<1> QED
  BY <1>1 DEF ValuesFit, InputsAreRight, Current

LEMMA ReadsTyped ==
  ASSUME TypeOK, NEW e \in Workers, NEW n, Reads(e, n)
  PROVE  TypeOK'
<1>1. Advanced(e) /\ Stays /\ state' \in [AllEntries -> {"Empty", "Ready", "Locked"}]
      /\ content' = content /\ operands' \in [Workers -> Seq(Values)]
  BY DEF Reads, Touches
<1>2. mapping' = mapping /\ phase' = phase /\ running' = running
      /\ DOMAIN queue' = Workers /\ done' \in [Workers -> Nat]
  BY <1>1 DEF Advanced, Stays
<1> QED
  BY <1>1, <1>2 DEF TypeOK

LEMMA ReadsKeepProgress ==
  ASSUME ProgramsAreDisciplined, TypeOK, QueuesLeft, FrontInProgress,
         NEW e \in Workers, NEW n, Reads(e, n)
  PROVE  QueuesLeft' /\ FrontInProgress'
<1> DEFINE k == Len(Current(e).srcs)
<1>1. queue[e] # <<>> /\ Advanced(e) /\ mapping' = mapping
  BY DEF Reads, Stays
<1>2. QueuesLeft' /\ TypeOK'
  BY <1>1, AdvancedKeepsQueues, ReadsTyped
<1>3. ASSUME ~ Finishes(e)
      PROVE  Len(operands'[e]) = IF done[e] + 1 < k THEN done[e] + 1 ELSE k
  <2>1. operands'[e] = Append(operands[e], content[n]) /\ Len(operands[e]) = done[e] /\ done[e] + 1 \in 1 .. k
    BY <1>3 DEF Reads
  <2>2. operands[e] \in Seq(Values) /\ done[e] \in Nat /\ k \in Nat
    BY <1>1, CurrentIsDue DEF TypeOK
  <2> HIDE DEF k
  <2>3. Len(operands'[e]) = done[e] + 1
    BY <2>1, <2>2
  <2> QED
    BY ONLY <2>1, <2>2, <2>3
<1>4. /\ \A f \in Workers : f # e => operands'[f] = operands[f]
      /\ Finishes(e) => operands'[e] = <<>>
  BY DEF Reads
<1> QED
  BY <1>1, <1>2, <1>3, <1>4, AdvancedKeepsProgress

LEMMA ReadsKeepInputs ==
  ASSUME ProgramsAreDisciplined, Working, NEW e \in Workers, NEW n, Reads(e, n)
  PROVE  InputsAreRight'
<1> USE DEF Working
<1>1. ASSUME NEW k \in Entries, k.ds \in Inputs, state'[k] = "Ready" PROVE content'[k] = {<<k.ds, k.p>>}
  <2>1. state[k] = "Ready" /\ content' = content
    <3>1. k \in AllEntries
      BY EntriesApart
    <3> QED
      BY <1>1, <3>1 DEF Reads, Touches
  <2> QED
    BY <1>1, <2>1 DEF InputsAreRight
<1>2. ASSUME NEW f \in Engines, NEW i \in 1 .. Len(operands'[f]), Head(queue'[f]).srcs[i].ds \in Inputs
      PROVE  operands'[f][i] = {<<Head(queue'[f]).srcs[i].ds, Head(queue'[f]).srcs[i].p>>}
  <2>0. f \in Workers
    BY DEF Workers
  <2>1. CASE f # e
    <3>1. queue'[f] = queue[f] /\ operands'[f] = operands[f]
      BY <2>0, <2>1 DEF Reads, Advanced
    <3> QED
      BY <1>2, <3>1 DEF InputsAreRight
  <2>2. CASE f = e /\ Finishes(e)
    <3>1. operands'[f] = <<>>
      BY <2>2 DEF Reads
    <3> QED
      BY <3>1
  <2>3. CASE f = e /\ ~ Finishes(e)
    <3>1. /\ queue'[e] = queue[e] /\ operands'[e] = Append(operands[e], content[n])
          /\ Len(operands[e]) = done[e] /\ n = Current(e).srcs[done[e] + 1] /\ state[n] = "Ready"
      BY <2>3 DEF Reads, Advanced, Touches, Source
    <3>2. operands[e] \in Seq(Values) /\ done[e] \in Nat
      BY DEF TypeOK
    <3>3. i \in 1 .. done[e] + 1 /\ operands'[e][i] = IF i = done[e] + 1 THEN content[n] ELSE operands[e][i]
      BY <2>3, <3>1, <3>2
    <3>4. CASE i = done[e] + 1
      <4>1. n.ds \in Inputs
        BY <1>2, <2>3, <3>1, <3>4 DEF Current
      <4>2. n \in Entries
        <5>1. Current(e).srcs \in Seq(Entries)
          BY <2>3, CurrentIsDue, SaverApart DEF Due, Shaped, Reads
        <5>2. done[e] + 1 \in 1 .. Len(Current(e).srcs)
          BY DEF Reads
        <5> QED
          BY <3>1, <5>1, <5>2
      <4>3. content[n] = {<<n.ds, n.p>>}
        BY <3>1, <4>1, <4>2 DEF InputsAreRight
      <4> QED
        BY <2>3, <3>1, <3>3, <3>4, <4>3 DEF Current
    <3>5. CASE i # done[e] + 1
      <4>1. i \in 1 .. Len(operands[e])
        BY <3>1, <3>2, <3>3, <3>5
      <4> QED
        BY <1>2, <2>3, <3>1, <3>3, <3>5, <4>1 DEF InputsAreRight
    <3> QED
      BY <3>4, <3>5
  <2> QED
    BY <2>1, <2>2, <2>3
<1> QED
  BY <1>1, <1>2 DEF InputsAreRight

\* What an engine writes: the value of an input point, an output point that is
\* filled, or one that it took out and puts down.
Fills(e, k) ==
  Current(e) = InitAction(Output, k.p) /\ content'[k] = {}

Carries(e, k) ==
  /\ Len(operands[e]) >= 1 /\ Len(operands[e]) = Len(Current(e).srcs)
  /\ Last(Current(e).srcs).ds = Output /\ Last(Current(e).srcs).p = k.p
  /\ \/ Current(e).op # "COMPUTE" /\ content'[k] = Last(operands[e])
     \/ \E o \in Ops : /\ e = UnitEngine(mapping[o].s) /\ Current(e) = Compute(o, mapping[o].s)
                       /\ content'[k] = Last(operands[e]) \cup {Product[o]}

LEMMA EngineWrites ==
  ASSUME ProgramsAreDisciplined, Working, NEW e \in Engines, NEW k, Writes(e, k)
  PROVE  /\ k \in Entries /\ content'[k] \in Values
         /\ \/ k.ds \in Inputs /\ content'[k] = {<<k.ds, k.p>>}
            \/ /\ k.ds = Output /\ k.p \in Points(Output) /\ Finishes(e)
               /\ Fills(e, k) \/ Carries(e, k)
<1> USE DEF Working
<1> DEFINE a == Current(e)
           i == done[e] + 1 - Len(a.srcs)
           values == operands[e]
<1>1. /\ i \in 1 .. Len(a.dsts) /\ k = a.dsts[i] /\ content'[k] = Transform(a, values)
      /\ Len(values) = Len(a.srcs) /\ queue[e] # <<>>
  BY DEF Writes, Destination
<1>2. e \in Workers /\ e # Saver /\ mapping \in Mappings
  BY SaverApart DEF Workers, TypeOK
<1>3. /\ Known(mapping, e, a) /\ Shaped(a) /\ Len(a.srcs) \in Nat /\ Len(a.dsts) \in Nat
      /\ Accesses(a) = Len(a.srcs) + Len(a.dsts)
  BY <1>1, <1>2, CurrentIsDue DEF Due
<1>4. ValuesFit(values, a)
  BY <1>1, OperandsFit
<1>5. k \in Entries
  BY <1>1, <1>3 DEF Shaped
<1> HIDE DEF a, values, i
<1>6. CASE k.ds \in Inputs
  <2>1. a.dsts[i].ds \in Inputs
    BY <1>1, <1>6
  <2>2. Transform(a, values) = {<<a.dsts[i].ds, a.dsts[i].p>>} /\ Transform(a, values) \in Values
    BY <1>1, <1>3, <1>4, <2>1, InputWritten
  <2> QED
    BY <1>1, <1>5, <1>6, <2>2
<1>7. CASE k.ds \notin Inputs
  <2>1. /\ k.ds = Output /\ k.p \in Points(Output) /\ Len(a.dsts) = 1
        /\ \/ Len(a.srcs) = 0
           \/ a.op # "INIT" /\ Len(a.srcs) >= 1
              /\ a.srcs[Len(a.srcs)].ds = Output /\ a.srcs[Len(a.srcs)].p = a.dsts[1].p
    BY <1>1, <1>3, <1>7 DEF Shaped, DestinationsFit
  <2>2. i = 1
    BY <1>1, <2>1
  <2>3. Finishes(e)
    <3>1. done[e] + 1 - Len(a.srcs) = 1 /\ done[e] \in Nat
      BY <1>2, <2>2 DEF i, TypeOK
    <3>2. done[e] + 1 = Len(a.srcs) + 1
      BY ONLY <1>3, <3>1
    <3> QED
      BY <1>3, <2>1, <3>2 DEF Finishes, a
  <2>4. /\ Transform(a, values) \in Values
        /\ \/ a = InitAction(Output, k.p) /\ Transform(a, values) = {}
           \/ /\ Len(values) >= 1
              /\ \/ a.op # "COMPUTE" /\ Transform(a, values) = Last(values)
                 \/ \E o \in Ops : /\ e = UnitEngine(mapping[o].s) /\ a = Compute(o, mapping[o].s)
                                   /\ Transform(a, values) = Last(values) \cup {Product[o]}
    <3>1. a.dsts[i].ds = Output
      BY <1>1, <2>1
    <3>2. /\ Transform(a, values) \in Values
          /\ \/ a = InitAction(Output, a.dsts[i].p) /\ Transform(a, values) = {}
             \/ /\ Len(values) >= 1
                /\ \/ a.op # "COMPUTE" /\ Transform(a, values) = Last(values)
                   \/ \E o \in Ops : /\ e = UnitEngine(mapping[o].s) /\ a = Compute(o, mapping[o].s)
                                     /\ Transform(a, values) = Last(values) \cup {Product[o]}
      BY <1>1, <1>2, <1>3, <1>4, <3>1, OutputWritten
    <3>3. a.dsts[i].p = k.p
      BY <1>1
    <3> QED
      BY <3>2, <3>3, Zenon
  <2>5. ASSUME Len(values) >= 1
        PROVE  Last(a.srcs).ds = Output /\ Last(a.srcs).p = k.p
    <3>1. Len(a.srcs) >= 1 /\ a.srcs \in Seq(Entries)
      BY <1>1, <1>3, <2>5 DEF Shaped
    <3>2. Last(a.srcs) = a.srcs[Len(a.srcs)]
      BY <3>1, LastOf, Zenon
    <3>3. a.srcs[Len(a.srcs)].ds = Output /\ a.srcs[Len(a.srcs)].p = a.dsts[1].p
      BY <2>1, <3>1
    <3> QED
      BY <1>1, <2>2, <3>2, <3>3
  <2>6. Fills(e, k) \/ Carries(e, k)
    BY <1>1, <2>4, <2>5, Zenon DEF Fills, Carries, a, values
  <2> QED
    BY <1>1, <1>5, <2>1, <2>3, <2>4, <2>6
<1> QED
  BY <1>6, <1>7

LEMMA WritesTyped ==
  ASSUME ProgramsAreDisciplined, Working, NEW e \in Workers, NEW k, Writes(e, k)
  PROVE  TypeOK'
<1> USE DEF Working
<1>1. content'[k] \in Values
  <2>1. CASE e \in Engines
    BY <2>1, EngineWrites
  <2>2. CASE e = Saver
    <3>1. queue[e] # <<>> /\ content'[k] = Transform(Current(e), operands[e])
          /\ Len(operands[e]) = Len(Current(e).srcs)
      BY DEF Writes
    <3>2. Due(mapping, e, Current(e))
      BY <3>1, CurrentIsDue
    <3>3. PICK p \in Points(Output) : Current(e) = InlineSave(p)
      BY <2>2, <3>2 DEF Due
    <3>4. Current(e).op = "READ" /\ Len(Current(e).srcs) = 1 /\ Current(e).srcs[1] = Entry(Output, Depth, 0, p)
      BY <3>3, SaveIs
    <3>5. Current(e).srcs[1].ds \notin Inputs
      BY <3>4, OutputIsNoInput DEF Entry
    <3>6. ValuesFit(operands[e], Current(e))
      BY <3>1, <3>4, <3>5 DEF ValuesFit, TypeOK
    <3> QED
      BY <3>1, <3>4, <3>6, CopiedValue
  <2> QED
    BY <2>1, <2>2 DEF Workers
<1>2. content' \in [AllEntries -> Values]
  <2>1. /\ content' = [content EXCEPT ![k] = Transform(Current(e), operands[e])]
        /\ content'[k] = Transform(Current(e), operands[e])
    BY DEF Writes
  <2>2. content' = [content EXCEPT ![k] = content'[k]]
    BY <2>1, Zenon
  <2>3. content \in [AllEntries -> Values]
    BY DEF TypeOK
  <2> QED
    BY ONLY <1>1, <2>2, <2>3
<1>3. Advanced(e) /\ Stays /\ state' \in [AllEntries -> {"Empty", "Ready", "Locked"}]
      /\ operands' \in [Workers -> Seq(Values)]
  BY DEF Writes, Touches
<1>4. mapping' = mapping /\ phase' = phase /\ running' = running
      /\ DOMAIN queue' = Workers /\ done' \in [Workers -> Nat]
  BY <1>3 DEF Advanced, Stays
<1> QED
  BY <1>2, <1>3, <1>4 DEF TypeOK

LEMMA WritesKeepProgress ==
  ASSUME ProgramsAreDisciplined, Working, NEW e \in Workers, NEW k, Writes(e, k)
  PROVE  QueuesLeft' /\ FrontInProgress'
<1> USE DEF Working
<1> DEFINE l == Len(Current(e).srcs)
<1>1. queue[e] # <<>> /\ Advanced(e) /\ mapping' = mapping
  BY DEF Writes, Stays
<1>2. QueuesLeft' /\ TypeOK'
  BY <1>1, AdvancedKeepsQueues, WritesTyped
<1>3. ASSUME ~ Finishes(e)
      PROVE  Len(operands'[e]) = IF done[e] + 1 < l THEN done[e] + 1 ELSE l
  <2>1. operands'[e] = operands[e] /\ Len(operands[e]) = l /\ done[e] + 1 - l >= 1
    BY <1>3 DEF Writes
  <2>2. done[e] \in Nat /\ l \in Nat
    BY <1>1, CurrentIsDue DEF TypeOK
  <2> HIDE DEF l
  <2>3. ~ (done[e] + 1 < l)
    BY ONLY <2>1, <2>2
  <2> QED
    BY ONLY <2>1, <2>3
<1>4. /\ \A f \in Workers : f # e => operands'[f] = operands[f]
      /\ Finishes(e) => operands'[e] = <<>>
  BY DEF Writes
<1> QED
  BY <1>1, <1>2, <1>3, <1>4, AdvancedKeepsProgress

LEMMA WritesKeepInputs ==
  ASSUME ProgramsAreDisciplined, Working, NEW e \in Workers, NEW k, Writes(e, k)
  PROVE  InputsAreRight'
<1> USE DEF Working
<1>1. ASSUME NEW n \in Entries, n.ds \in Inputs, state'[n] = "Ready" PROVE content'[n] = {<<n.ds, n.p>>}
  <2>0. n \in AllEntries
    BY EntriesApart
  <2>1. CASE n # k
    <3>1. state[n] = "Ready" /\ content'[n] = content[n]
      BY <1>1, <2>0, <2>1 DEF Writes, Touches
    <3> QED
      BY <1>1, <3>1 DEF InputsAreRight
  <2>2. CASE n = k
    <3>1. e \in Engines
      <4>1. ASSUME e = Saver PROVE FALSE
        <5>1. queue[e] # <<>> /\ k = Destination(e) /\ done[e] + 1 - Len(Current(e).srcs) \in 1 .. Len(Current(e).dsts)
          BY DEF Writes
        <5>2. PICK p \in Points(Output) : Current(e) = InlineSave(p)
          BY <4>1, <5>1, CurrentIsDue DEF Due
        <5>3. Len(Current(e).dsts) = 1 /\ Current(e).dsts[1] = Saved(p)
          BY <5>2, SaveIs
        <5>4. k = Saved(p)
          BY <5>1, <5>3 DEF Destination
        <5> QED
          BY <2>2, <5>4, EntriesApart
      <4> QED
        BY <4>1 DEF Workers
    <3> QED
      BY <1>1, <2>2, <3>1, EngineWrites, OutputIsNoInput
  <2> QED
    BY <2>1, <2>2
<1>2. ASSUME NEW f \in Engines, NEW i \in 1 .. Len(operands'[f]), Head(queue'[f]).srcs[i].ds \in Inputs
      PROVE  operands'[f][i] = {<<Head(queue'[f]).srcs[i].ds, Head(queue'[f]).srcs[i].p>>}
  <2>0. f \in Workers
    BY DEF Workers
  <2>1. CASE f = e /\ Finishes(e)
    <3>1. operands'[f] = <<>>
      BY <2>1 DEF Writes
    <3> QED
      BY <3>1
  <2>2. CASE f # e \/ ~ Finishes(e)
    <3>1. queue'[f] = queue[f] /\ operands'[f] = operands[f]
      BY <2>0, <2>2 DEF Writes, Advanced
    <3> QED
      BY <1>2, <3>1 DEF InputsAreRight
  <2> QED
    BY <2>1, <2>2
<1> QED
  BY <1>1, <1>2 DEF InputsAreRight

-----------------------------------------------------------------------------
(* What an access does to the copies of an output point *)

NoNewFill(p) ==
  \A f \in Engines : Occurs(InitAction(Output, p), queue'[f]) => Occurs(InitAction(Output, p), queue[f])

OthersStay(p, n) ==
  \A k \in EntriesOf(Output, p) : k # n => state'[k] = state[k] /\ content'[k] = content[k]

Unmoved(p) ==
  /\ NoNewFill(p) /\ Carriers(p)' = Carriers(p)
  /\ \A f \in Carriers(p) : operands'[f] = operands[f]
  /\ \A k \in EntriesOf(Output, p) : state'[k] = state[k] /\ content'[k] = content[k]

Taken(p, e, n) ==
  /\ NoNewFill(p) /\ Carriers(p)' = Carriers(p) \cup {e} /\ e \in Engines
  /\ \A f \in Carriers(p) : operands'[f] = operands[f]
  /\ Last(operands'[e]) = content[n]
  /\ n \in EntriesOf(Output, p) /\ state[n] = "Ready" /\ state'[n] \in {"Empty", "Locked"}
  /\ content'[n] = content[n] /\ OthersStay(p, n)

PutDown(p, e, k) ==
  /\ NoNewFill(p) /\ e \in Carriers(p) /\ Carriers(p)' = Carriers(p) \ {e}
  /\ \A f \in Carriers(p) : f # e => operands'[f] = operands[f]
  /\ k \in EntriesOf(Output, p) /\ state'[k] = "Ready"
  /\ Last(operands[e]) \subseteq content'[k] /\ OthersStay(p, k)

Filled(p, e, k) ==
  /\ e \in Engines /\ Occurs(InitAction(Output, p), queue[e]) /\ Carriers(p)' = Carriers(p)
  /\ \A f \in Engines : ~ Occurs(InitAction(Output, p), queue'[f])
  /\ k \in EntriesOf(Output, p) /\ state'[k] = "Ready" /\ content'[k] = {} /\ OthersStay(p, k)

Carrying(left, values, p) ==
  /\ left # <<>> /\ Len(values) = Len(Head(left).srcs) /\ values # <<>>
  /\ Last(Head(left).srcs).ds = Output /\ Last(Head(left).srcs).p = p

LEMMA CarriersAre ==
  ASSUME NEW p
  PROVE  /\ Carriers(p) = {e \in Engines : Carrying(queue[e], operands[e], p)}
         /\ Carriers(p)' = {e \in Engines : Carrying(queue'[e], operands'[e], p)}
<1>1. Carriers(p) = {e \in Engines : Carrying(queue[e], operands[e], p)}
  BY DEF Carriers, Carrying
<1>2. Carriers(p)' = {e \in Engines : Carrying(queue'[e], operands'[e], p)}
  BY DEF Carriers, Carrying
<1> QED
  BY <1>1, <1>2

LEMMA AdvancedFillsNoMore ==
  ASSUME ProgramsAreDisciplined, TypeOK, QueuesLeft, NEW e \in Workers, queue[e] # <<>>, Advanced(e),
         NEW a, NEW f \in Engines, Occurs(a, queue'[f])
  PROVE  Occurs(a, queue[f])
<1>1. f \in Workers
  BY DEF Workers
<1>2. CASE f = e /\ Finishes(e)
  <2>1. queue'[f] = Tail(queue[f])
    BY <1>2 DEF Advanced
  <2>2. queue[f] \in Seq(Range(Program(mapping)[f]))
    BY <1>1, SaverApart DEF QueuesLeft, Left, Remains
  <2>3. PICK i \in 1 .. Len(queue'[f]) : queue'[f][i] = a
    BY DEF Occurs
  <2>4. Len(queue[f]) \in Nat /\ Len(Tail(queue[f])) = Len(queue[f]) - 1
        /\ \A j \in 1 .. Len(queue[f]) - 1 : Tail(queue[f])[j] = queue[f][j + 1]
    BY <1>2, <2>2, QueueParts
  <2>5. i \in 1 .. Len(queue[f]) - 1 /\ queue[f][i + 1] = a /\ i + 1 \in 1 .. Len(queue[f])
    BY <2>1, <2>3, <2>4
  <2> QED
    BY <2>5 DEF Occurs
<1>3. CASE f # e \/ ~ Finishes(e)
  <2>1. queue'[f] = queue[f]
    BY <1>1, <1>3 DEF Advanced
  <2> QED
    BY <2>1
<1> QED
  BY <1>2, <1>3

\* Entries of the output, and the other ones.
LEMMA OutputEntries ==
  ASSUME NEW n \in Entries, n.ds = Output
  PROVE  n \in EntriesOf(Output, n.p)
  BY DEF EntriesOf

LEMMA TouchesOthers ==
  ASSUME NEW p, NEW n, NEW was, NEW becomes, Touches(n, was, becomes),
         \A k \in AllEntries : k # n => content'[k] = content[k]
  PROVE  OthersStay(p, n)
<1>1. EntriesOf(Output, p) \subseteq AllEntries
  BY EntriesApart DEF EntriesOf
<1> QED
  BY <1>1 DEF OthersStay, Touches

LEMMA SaverMovesNothing ==
  ASSUME ProgramsAreDisciplined, Working, NEW n, Reads(Saver, n) \/ Writes(Saver, n),
         NEW p \in Points(Output)
  PROVE  Unmoved(p)
<1> USE DEF Working
<1>1. Saver \in Workers /\ queue[Saver] # <<>> /\ Advanced(Saver)
  BY DEF Workers, Reads, Writes
<1>2. PICK q \in Points(Output) : Current(Saver) = InlineSave(q)
  BY <1>1, CurrentIsDue DEF Due
<1>3. NoNewFill(p)
  BY <1>1, AdvancedFillsNoMore DEF NoNewFill
<1>4. ASSUME NEW f \in Engines PROVE queue'[f] = queue[f] /\ operands'[f] = operands[f]
  BY SaverApart DEF Reads, Writes, Advanced, Workers
<1>5. Carriers(p)' = Carriers(p) /\ \A f \in Carriers(p) : operands'[f] = operands[f]
  BY <1>4, CarriersAre
<1>6. ASSUME NEW k \in EntriesOf(Output, p) PROVE state'[k] = state[k] /\ content'[k] = content[k]
  <2>1. k \in Entries /\ k \in AllEntries
    BY EntriesApart DEF EntriesOf
  <2>2. CASE Reads(Saver, n)
    <3>1. done[Saver] + 1 \in 1 .. Len(Current(Saver).srcs)
      BY <2>2 DEF Reads
    <3>2. SrcOperation(Current(Saver), done[Saver] + 1) = "read"
      BY <1>1, <3>1, CurrentIsDue, SourceOperations
    <3>3. Touches(n, "Ready", "Ready") /\ content' = content
      BY <2>2, <3>2 DEF Reads, Leaves
    <3> QED
      BY <2>1, <3>3 DEF Touches
  <2>3. CASE Writes(Saver, n)
    <3>1. Len(Current(Saver).dsts) = 1 /\ Current(Saver).dsts[1] = Saved(q)
      BY <1>2, SaveIs
    <3>2. n = Saved(q)
      BY <2>3, <3>1 DEF Writes, Destination
    <3>3. n # k
      BY <2>1, <3>2, EntriesApart
    <3> QED
      BY <2>1, <2>3, <3>3 DEF Writes, Touches
  <2> QED
    BY <2>2, <2>3
<1> QED
  BY <1>3, <1>5, <1>6 DEF Unmoved

LEMMA EngineReadsEffect ==
  ASSUME ProgramsAreDisciplined, Working, NEW e \in Engines, NEW n, Reads(e, n),
         NEW p \in Points(Output)
  PROVE  Unmoved(p) \/ Taken(p, e, n)
<1> USE DEF Working
<1> DEFINE a == Current(e)
           i == done[e] + 1
<1>1. e \in Workers /\ e # Saver /\ queue[e] # <<>> /\ Advanced(e)
  BY SaverApart DEF Workers, Reads
<1>2. /\ i \in 1 .. Len(a.srcs) /\ n = a.srcs[i] /\ Len(operands[e]) = done[e]
      /\ Touches(n, "Ready", Leaves[SrcOperation(a, i)]) /\ content' = content
      /\ operands'[e] = IF Finishes(e) THEN <<>> ELSE Append(operands[e], content[n])
  BY DEF Reads, Source
<1>3. /\ Shaped(a) /\ Len(a.srcs) \in Nat /\ Len(a.dsts) \in Nat
      /\ Accesses(a) = Len(a.srcs) + Len(a.dsts)
  BY <1>1, CurrentIsDue DEF Due
<1>4. a.srcs \in Seq(Entries) /\ n \in Entries /\ done[e] \in Nat /\ operands[e] \in Seq(Values)
  BY <1>1, <1>2, <1>3 DEF Shaped, TypeOK
<1>5. NoNewFill(p)
  BY <1>1, AdvancedFillsNoMore DEF NoNewFill
<1>6. ASSUME NEW f \in Engines, f # e PROVE queue'[f] = queue[f] /\ operands'[f] = operands[f]
  BY <1>6 DEF Reads, Advanced, Workers
<1>7. OthersStay(p, n)
  BY <1>2, TouchesOthers
<1> HIDE DEF a, i
<1>8. e \notin Carriers(p)
  <2>1. Len(operands[e]) # Len(a.srcs)
    BY <1>2, <1>3, <1>4 DEF i
  <2> QED
    BY <2>1, CarriersAre DEF Carrying, a, Current
<1>9. \A f \in Carriers(p) : operands'[f] = operands[f]
  BY <1>6, <1>8 DEF Carriers
<1>10. ASSUME ~ Finishes(e)
       PROVE  queue'[e] = queue[e] /\ Len(operands'[e]) = i /\ Last(operands'[e]) = content[n] /\ operands'[e] # <<>>
  <2>1. queue'[e] = queue[e] /\ operands'[e] = Append(operands[e], content[n])
    BY <1>1, <1>2, <1>10 DEF Advanced
  <2>2. content[n] \in Values
    BY <1>4, EntriesApart DEF TypeOK
  <2>3. /\ Append(operands[e], content[n]) \in Seq(Values)
        /\ Len(Append(operands[e], content[n])) = Len(operands[e]) + 1
        /\ Append(operands[e], content[n])[Len(operands[e]) + 1] = content[n]
    BY <1>4, <2>2
  <2>4. operands'[e] \in Seq(Values) /\ Len(operands'[e]) = i /\ operands'[e][i] = content[n] /\ i >= 1
    BY <1>2, <1>4, <2>1, <2>3 DEF i
  <2>5. Last(operands'[e]) = operands'[e][Len(operands'[e])] /\ operands'[e] # <<>>
    BY <2>4, LastOf
  <2> QED
    BY <2>1, <2>4, <2>5
<1>11. CASE n.ds = Output
  <2>1. i = Len(a.srcs) /\ Len(a.dsts) = 1 /\ SrcOperation(a, i) \in {"read_iu", "drain"}
    BY <1>2, <1>3, <1>11, OutputIsNoInput DEF Shaped, SourcesFit
  <2>2. ~ Finishes(e)
    BY <1>3, <1>4, <2>1 DEF Finishes, a, i
  <2>3. Last(a.srcs) = n
    <3>1. Len(a.srcs) >= 1
      BY <1>2, <1>3
    <3> QED
      BY <1>2, <1>4, <2>1, <3>1, LastOf
  <2>4. e \in Carriers(p)' <=> n.p = p
    <3>1. e \in Carriers(p)' <=> Carrying(queue'[e], operands'[e], p)
      BY CarriersAre
    <3>2. queue'[e] # <<>> /\ Head(queue'[e]) = a /\ operands'[e] # <<>> /\ Len(operands'[e]) = Len(a.srcs)
      BY <1>1, <1>10, <2>1, <2>2 DEF a, Current
    <3> QED
      BY <1>11, <2>3, <3>1, <3>2 DEF Carrying
  <2>5. state[n] = "Ready" /\ state'[n] \in {"Empty", "Locked"} /\ content'[n] = content[n]
    BY <1>2, <2>1 DEF Touches, Leaves
  <2>6. n \in EntriesOf(Output, n.p)
    BY <1>4, <1>11, OutputEntries
  <2>7. CASE n.p = p
    <3>1. Carriers(p)' = Carriers(p) \cup {e}
      BY <1>6, <1>8, <2>4, <2>7, CarriersAre
    <3> QED
      BY <1>5, <1>7, <1>9, <1>10, <2>2, <2>5, <2>6, <2>7, <3>1 DEF Taken
  <2>8. CASE n.p # p
    <3>1. Carriers(p)' = Carriers(p)
      BY <1>6, <1>8, <2>4, <2>8, CarriersAre
    <3>2. n \notin EntriesOf(Output, p)
      BY <2>8 DEF EntriesOf
    <3> QED
      BY <1>5, <1>7, <1>9, <3>1, <3>2 DEF Unmoved, OthersStay
  <2> QED
    BY <2>7, <2>8
<1>12. CASE n.ds # Output
  <2>1. e \notin Carriers(p)'
    <3>1. CASE Finishes(e)
      BY <1>2, <3>1, CarriersAre DEF Carrying
    <3>2. CASE ~ Finishes(e)
      <4>1. ASSUME i = Len(a.srcs) PROVE Last(a.srcs) = n
        <5>1. Len(a.srcs) >= 1
          BY <1>2, <1>3
        <5> QED
          BY <1>2, <1>4, <4>1, <5>1, LastOf
      <4> QED
        BY <1>10, <1>12, <3>2, <4>1, CarriersAre DEF Carrying, a, Current
    <3> QED
      BY <3>1, <3>2
  <2>2. Carriers(p)' = Carriers(p)
    BY <1>6, <1>8, <2>1, CarriersAre
  <2>3. n \notin EntriesOf(Output, p)
    BY <1>12 DEF EntriesOf
  <2> QED
    BY <1>5, <1>7, <1>9, <2>2, <2>3 DEF Unmoved, OthersStay
<1> QED
  BY <1>11, <1>12

LEMMA RemainsAt ==
  ASSUME NEW q, NEW actions, Remains(q, actions), Len(actions) \in Nat, NEW i \in 1 .. Len(q)
  PROVE  /\ Len(actions) - Len(q) + i \in 1 .. Len(actions)
         /\ actions[Len(actions) - Len(q) + i] = q[i]
<1>1. Len(q) \in Nat /\ Len(q) <= Len(actions) /\ q[i] = actions[Len(actions) - Len(q) + i]
  BY DEF Remains
<1>2. Len(actions) - Len(q) + i \in 1 .. Len(actions)
  BY ONLY <1>1, i \in 1 .. Len(q), Len(actions) \in Nat
<1> QED
  BY <1>1, <1>2

\* A point is filled by one action only.
LEMMA FillLeaves ==
  ASSUME ProgramsAreDisciplined, TypeOK, QueuesLeft, NEW e \in Engines, queue[e] # <<>>, Advanced(e),
         Finishes(e), NEW p \in Points(Output), Current(e) = InitAction(Output, p), NEW f \in Engines
  PROVE  ~ Occurs(InitAction(Output, p), queue'[f])
<1> SUFFICES ASSUME Occurs(InitAction(Output, p), queue'[f]) PROVE FALSE
  OBVIOUS
<1> DEFINE a == InitAction(Output, p)
           mine == Program(mapping)[e]
           other == Program(mapping)[f]
<1>1. e \in Workers /\ f \in Workers /\ e # Saver /\ f # Saver /\ mapping \in Mappings
  BY SaverApart DEF Workers, TypeOK
<1>2. Remains(queue[e], mine) /\ Remains(queue[f], other) /\ Len(mine) \in Nat /\ Len(other) \in Nat
  BY <1>1, ProgramIs DEF QueuesLeft, Left
<1>3. \A i \in 1 .. Len(mine), j \in 1 .. Len(other) : mine[i] = a /\ other[j] = a => e = f /\ i = j
  BY <1>1 DEF ProgramsAreDisciplined, Disciplined, FillsOnce
<1> HIDE DEF a, mine, other
<1>4. queue[e] \in Seq(Range(mine)) /\ queue[f] \in Seq(Range(other))
  BY <1>2 DEF Remains
<1>5. Len(queue[e]) \in Nat \ {0} /\ queue[e][1] = a /\ Len(queue[f]) \in Nat
  BY <1>4, QueueParts DEF Current, a
<1>6. mine[Len(mine) - Len(queue[e]) + 1] = a /\ Len(mine) - Len(queue[e]) + 1 \in 1 .. Len(mine)
  <2>1. 1 \in 1 .. Len(queue[e])
    BY <1>5
  <2> QED
    BY <1>2, <1>5, <2>1, RemainsAt
<1>7. Occurs(a, queue[f])
  BY <1>1, AdvancedFillsNoMore DEF a
<1>8. PICK j \in 1 .. Len(queue[f]) : queue[f][j] = a
  BY <1>7 DEF Occurs
<1>9. other[Len(other) - Len(queue[f]) + j] = a /\ Len(other) - Len(queue[f]) + j \in 1 .. Len(other)
  BY <1>2, <1>8, RemainsAt
<1>10. e = f
  BY <1>3, <1>6, <1>9
<1>11. queue'[e] = Tail(queue[e]) /\ Len(Tail(queue[e])) = Len(queue[e]) - 1
       /\ \A i \in 1 .. Len(queue[e]) - 1 : Tail(queue[e])[i] = queue[e][i + 1]
  <2>1. queue'[e] = Tail(queue[e])
    BY <1>1 DEF Advanced
  <2> QED
    BY <1>4, <2>1, QueueParts
<1>12. PICK l \in 1 .. Len(Tail(queue[e])) : Tail(queue[e])[l] = a
  BY <1>10, <1>11 DEF Occurs, a
<1>13. l + 1 \in 1 .. Len(queue[e]) /\ l \in Nat \ {0} /\ queue[e][l + 1] = a
  BY <1>5, <1>11, <1>12
<1>14. mine[Len(mine) - Len(queue[e]) + (l + 1)] = a /\ Len(mine) - Len(queue[e]) + (l + 1) \in 1 .. Len(mine)
  <2> DEFINE i == l + 1
  <2>1. i \in 1 .. Len(queue[e]) /\ queue[e][i] = a
    BY <1>13
  <2> HIDE DEF i
  <2>2. mine[Len(mine) - Len(queue[e]) + i] = a /\ Len(mine) - Len(queue[e]) + i \in 1 .. Len(mine)
    BY <1>2, <2>1, RemainsAt
  <2> QED
    BY <2>2, Zenon DEF i
<1>15. mine = other
  BY <1>10 DEF mine, other
<1>16. Len(mine) - Len(queue[e]) + 1 = Len(mine) - Len(queue[e]) + (l + 1)
  BY <1>3, <1>6, <1>14, <1>15
<1> QED
  BY ONLY <1>2, <1>5, <1>13, <1>16

LEMMA EngineWritesEffect ==
  ASSUME ProgramsAreDisciplined, Working, NEW e \in Engines, NEW k, Writes(e, k),
         NEW p \in Points(Output)
  PROVE  Unmoved(p) \/ PutDown(p, e, k) \/ Filled(p, e, k)
<1> USE DEF Working
<1> DEFINE a == Current(e)
<1>1. e \in Workers /\ e # Saver /\ queue[e] # <<>> /\ Advanced(e)
  BY SaverApart DEF Workers, Writes
<1>2. /\ Touches(k, Needs[DstOperation(a)], "Ready") /\ Len(operands[e]) = Len(a.srcs)
      /\ \A n \in AllEntries : n # k => content'[n] = content[n]
      /\ operands'[e] = IF Finishes(e) THEN <<>> ELSE operands[e]
  BY DEF Writes
<1>3. Shaped(a)
  BY <1>1, CurrentIsDue DEF Due
<1>4. NoNewFill(p)
  BY <1>1, AdvancedFillsNoMore DEF NoNewFill
<1>5. ASSUME NEW f \in Engines, f # e PROVE queue'[f] = queue[f] /\ operands'[f] = operands[f]
  BY <1>5 DEF Writes, Advanced, Workers
<1>6. OthersStay(p, k) /\ state'[k] = "Ready"
  BY <1>2, TouchesOthers DEF Touches
<1>7. k \in Entries
  BY EngineWrites
<1>8. e \in Carriers(p) <=> Carrying(queue[e], operands[e], p)
  BY CarriersAre
<1>9. Finishes(e) => e \notin Carriers(p)'
  BY <1>2, CarriersAre DEF Carrying
<1> HIDE DEF a
<1>10. ASSUME e \notin Carriers(p), e \notin Carriers(p)'
       PROVE  Carriers(p)' = Carriers(p) /\ \A f \in Carriers(p) : operands'[f] = operands[f]
  BY <1>5, <1>10, CarriersAre
<1>11. CASE k.ds \in Inputs
  <2>1. k \notin EntriesOf(Output, p)
    BY <1>11, OutputIsNoInput DEF EntriesOf
  <2>2. CASE Finishes(e) /\ e \in Carriers(p)
    <3>1. Len(a.srcs) >= 1 /\ a.srcs[Len(a.srcs)].ds = Output
      <4>1. Len(operands[e]) >= 1
        <5>1. operands[e] \in Seq(Values) /\ operands[e] # <<>>
          BY <1>1, <1>8, <2>2 DEF Carrying, TypeOK
        <5> QED
          BY <5>1
      <4>2. a.srcs \in Seq(Entries) /\ Last(a.srcs).ds = Output
        BY <1>3, <1>8, <2>2 DEF Carrying, Shaped, a, Current
      <4>3. Len(a.srcs) >= 1
        BY <1>2, <4>1
      <4> QED
        BY <4>2, <4>3, LastOf
    <3>2. PICK i \in 1 .. Len(a.dsts) : k = a.dsts[i]
      BY DEF Writes, Destination, a
    <3>3. \A j \in 1 .. Len(a.srcs) : a.srcs[j].ds = k.ds
      BY <1>3, <1>11, <3>2, OutputIsNoInput DEF Shaped, DestinationsFit
    <3>4. Len(a.srcs) \in 1 .. Len(a.srcs)
      <4>1. Len(a.srcs) \in Nat
        BY <1>3 DEF Shaped
      <4> QED
        BY <3>1, <4>1
    <3> QED
      BY <1>11, <3>1, <3>3, <3>4, OutputIsNoInput
  <2>3. CASE Finishes(e) /\ e \notin Carriers(p)
    BY <1>4, <1>6, <1>9, <1>10, <2>1, <2>3 DEF Unmoved, OthersStay
  <2>4. CASE ~ Finishes(e)
    <3>1. queue'[e] = queue[e] /\ operands'[e] = operands[e]
      BY <1>1, <1>2, <2>4 DEF Advanced
    <3>2. Carriers(p)' = Carriers(p) /\ \A f \in Carriers(p) : operands'[f] = operands[f]
      BY <1>5, <3>1, CarriersAre
    <3> QED
      BY <1>4, <1>6, <2>1, <3>2 DEF Unmoved, OthersStay
  <2> QED
    BY <2>2, <2>3, <2>4
<1>12. CASE k.ds = Output /\ k.p \in Points(Output) /\ Finishes(e) /\ Fills(e, k)
  <2>1. a = InitAction(Output, k.p) /\ content'[k] = {}
    BY <1>12 DEF Fills, a
  <2>2. Len(operands[e]) = 0
    BY <1>2, <1>12, <2>1, FillShaped
  <2>3. e \notin Carriers(p)
    <3>1. operands[e] = <<>>
      BY <1>1, <2>2 DEF TypeOK
    <3> QED
      BY <1>8, <3>1 DEF Carrying
  <2>4. Carriers(p)' = Carriers(p) /\ \A f \in Carriers(p) : operands'[f] = operands[f]
    BY <1>9, <1>10, <1>12, <2>3
  <2>5. CASE k.p = p
    <3>1. k \in EntriesOf(Output, p)
      BY <1>7, <1>12, <2>5, OutputEntries
    <3>2. \A f \in Engines : ~ Occurs(InitAction(Output, p), queue'[f])
      BY <1>1, <1>12, <2>1, <2>5, FillLeaves DEF a
    <3>3. Occurs(InitAction(Output, p), queue[e])
      <4>1. Remains(queue[e], Program(mapping)[e])
        BY <1>1 DEF QueuesLeft, Left
      <4>2. Len(queue[e]) \in Nat \ {0} /\ queue[e][1] = InitAction(Output, p)
        BY <1>1, <2>1, <2>5, <4>1, QueueParts DEF Remains, a, Current
      <4>3. 1 \in 1 .. Len(queue[e])
        BY <4>2
      <4> QED
        BY <4>2, <4>3 DEF Occurs
    <3> QED
      BY <1>6, <2>1, <2>4, <3>1, <3>2, <3>3 DEF Filled
  <2>6. CASE k.p # p
    <3>1. k \notin EntriesOf(Output, p)
      BY <2>6 DEF EntriesOf
    <3> QED
      BY <1>4, <1>6, <2>4, <3>1 DEF Unmoved, OthersStay
  <2> QED
    BY <2>5, <2>6
<1>13. CASE k.ds = Output /\ k.p \in Points(Output) /\ Finishes(e) /\ Carries(e, k)
  <2>1. /\ Len(operands[e]) >= 1 /\ Last(a.srcs).ds = Output /\ Last(a.srcs).p = k.p
        /\ Last(operands[e]) \subseteq content'[k]
    BY <1>13 DEF Carries, a
  <2>2. operands[e] # <<>>
    BY <2>1
  <2>3. e \in Carriers(p) <=> k.p = p
    BY <1>1, <1>2, <1>8, <2>1, <2>2 DEF Carrying, a, Current
  <2>4. CASE k.p = p
    <3>1. k \in EntriesOf(Output, p)
      BY <1>7, <1>13, <2>4, OutputEntries
    <3>2. Carriers(p)' = Carriers(p) \ {e}
      BY <1>5, <1>9, <1>13, CarriersAre
    <3>3. \A f \in Carriers(p) : f # e => operands'[f] = operands[f]
      BY <1>5 DEF Carriers
    <3> QED
      BY <1>4, <1>6, <2>1, <2>3, <2>4, <3>1, <3>2, <3>3 DEF PutDown
  <2>5. CASE k.p # p
    <3>1. k \notin EntriesOf(Output, p)
      BY <2>5 DEF EntriesOf
    <3>2. Carriers(p)' = Carriers(p) /\ \A f \in Carriers(p) : operands'[f] = operands[f]
      BY <1>9, <1>10, <1>13, <2>3, <2>5
    <3> QED
      BY <1>4, <1>6, <3>1, <3>2 DEF Unmoved, OthersStay
  <2> QED
    BY <2>4, <2>5
<1> QED
  BY <1>11, <1>12, <1>13, EngineWrites

-----------------------------------------------------------------------------
(* The token *)

LEMMA CopiesAre ==
  ASSUME NEW p
  PROVE  /\ \A n : n \in InUse(p) <=> n \in EntriesOf(Output, p) /\ state[n] # "Empty"
         /\ \A n : n \in Writable(p) <=> n \in EntriesOf(Output, p) /\ state[n] = "Ready"
         /\ \A n : n \in InUse(p)' <=> n \in EntriesOf(Output, p) /\ state'[n] # "Empty"
         /\ \A n : n \in Writable(p)' <=> n \in EntriesOf(Output, p) /\ state'[n] = "Ready"
<1>1. \A n : n \in InUse(p) <=> n \in EntriesOf(Output, p) /\ state[n] # "Empty"
  BY DEF InUse, EntriesOf
<1>2. \A n : n \in Writable(p) <=> n \in EntriesOf(Output, p) /\ state[n] = "Ready"
  BY DEF InUse, Writable, EntriesOf
<1>3. \A n : n \in InUse(p)' <=> n \in EntriesOf(Output, p) /\ state'[n] # "Empty"
  BY DEF InUse, EntriesOf
<1>4. \A n : n \in Writable(p)' <=> n \in EntriesOf(Output, p) /\ state'[n] = "Ready"
  BY DEF InUse, Writable, EntriesOf
<1> QED
  BY <1>1, <1>2, <1>3, <1>4

LEMMA UnmovedKeepsToken ==
  ASSUME NEW p, Token(p), Unmoved(p)
  PROVE  Token(p)'
<1>1. InUse(p)' = InUse(p) /\ Writable(p)' = Writable(p) /\ Carriers(p)' = Carriers(p)
  BY CopiesAre DEF Unmoved
<1>2. \A n \in InUse(p) : content'[n] = content[n]
  BY CopiesAre DEF Unmoved
<1>3. Writable(p) \subseteq InUse(p)
  BY DEF Writable
<1>4. OneToken(p)'
  BY <1>1 DEF Token, OneToken, Unmoved, NoNewFill
<1>5. TokenIsLatest(p)'
  BY <1>1, <1>2, <1>3 DEF Token, TokenIsLatest, Unmoved
<1> QED
  BY <1>4, <1>5 DEF Token

LEMMA TakenKeepsToken ==
  ASSUME NEW p, NEW e, NEW n, Token(p), Taken(p, e, n)
  PROVE  Token(p)'
<1>1. n \in Writable(p) /\ n \in InUse(p)
  BY CopiesAre DEF Taken
<1>2. Carriers(p) = {} /\ Carriers(p)' = {e}
  BY <1>1 DEF Token, OneToken, Taken
<1>3. Writable(p)' = {}
  <2>1. \A k \in Writable(p) : k = n
    BY <1>1 DEF Token, OneToken
  <2>2. n \notin Writable(p)'
    BY CopiesAre DEF Taken
  <2>3. ASSUME NEW k \in Writable(p)', k # n PROVE k \in Writable(p)
    BY <2>3, CopiesAre DEF Taken, OthersStay
  <2> QED
    BY <2>1, <2>2, <2>3
<1>4. ASSUME NEW k \in InUse(p)' PROVE k \in InUse(p) /\ content'[k] = content[k]
  <2>1. CASE k = n
    BY <1>1, <2>1 DEF Taken
  <2>2. CASE k # n
    BY <2>2, CopiesAre DEF Taken, OthersStay
  <2> QED
    BY <2>1, <2>2
<1>5. \A f \in Engines : ~ Occurs(InitAction(Output, p), queue'[f])
  <2>1. \A f \in Engines : ~ Occurs(InitAction(Output, p), queue[f])
    BY <1>1 DEF Token, OneToken
  <2> QED
    BY <2>1 DEF Taken, NoNewFill
<1>6. OneToken(p)'
  BY <1>2, <1>3, <1>5 DEF OneToken
<1>7. TokenIsLatest(p)'
  <2>1. \A k \in InUse(p) : content[k] \subseteq content[n]
    BY <1>1 DEF Token, TokenIsLatest
  <2>2. Last(operands'[e]) = content[n]
    BY DEF Taken
  <2> QED
    BY <1>2, <1>3, <1>4, <2>1, <2>2 DEF TokenIsLatest
<1> QED
  BY <1>6, <1>7 DEF Token

LEMMA PutDownKeepsToken ==
  ASSUME NEW p, NEW e, NEW k, Token(p), PutDown(p, e, k)
  PROVE  Token(p)'
<1>1. e \in Carriers(p) /\ Carriers(p)' = {} /\ Writable(p) = {} /\ k \in EntriesOf(Output, p)
  BY DEF PutDown, Token, OneToken
<1>2. \A n : n \in Writable(p)' <=> n = k
  <2>1. k \in Writable(p)'
    BY CopiesAre DEF PutDown
  <2>2. ASSUME NEW n \in Writable(p)', n # k PROVE n \in Writable(p)
    BY <2>2, CopiesAre DEF PutDown, OthersStay
  <2> QED
    BY <1>1, <2>1, <2>2
<1>3. \A f \in Engines : ~ Occurs(InitAction(Output, p), queue'[f])
  <2>1. \A f \in Engines : ~ Occurs(InitAction(Output, p), queue[f])
    BY <1>1 DEF Token, OneToken
  <2> QED
    BY <2>1 DEF PutDown, NoNewFill
<1>4. ASSUME NEW n \in InUse(p)' PROVE content'[n] \subseteq content'[k]
  <2>1. CASE n # k
    <3>1. n \in InUse(p) /\ content'[n] = content[n]
      BY <2>1, CopiesAre DEF PutDown, OthersStay
    <3>2. content[n] \subseteq Last(operands[e]) /\ Last(operands[e]) \subseteq content'[k]
      BY <1>1, <3>1 DEF Token, TokenIsLatest, PutDown
    <3> QED
      BY <3>1, <3>2
  <2> QED
    BY <2>1
<1>5. OneToken(p)'
  BY <1>1, <1>2, <1>3 DEF OneToken
<1>6. TokenIsLatest(p)'
  BY <1>1, <1>2, <1>4 DEF TokenIsLatest
<1> QED
  BY <1>5, <1>6 DEF Token

LEMMA FilledKeepsToken ==
  ASSUME NEW p, NEW e, NEW k, Token(p), Filled(p, e, k)
  PROVE  Token(p)' /\ InUse(p) = {} /\ Carriers(p) = {}
<1>1. InUse(p) = {} /\ Carriers(p) = {} /\ Carriers(p)' = {} /\ k \in EntriesOf(Output, p)
  BY DEF Filled, Token, OneToken
<1>2. ASSUME NEW n \in InUse(p)', n # k PROVE FALSE
  <2>1. n \in InUse(p)
    BY <1>2, CopiesAre DEF Filled, OthersStay
  <2> QED
    BY <1>1, <2>1
<1>3. InUse(p)' \subseteq {k} /\ Writable(p)' \subseteq {k}
  BY <1>2 DEF Writable
<1>4. OneToken(p)'
  BY <1>1, <1>3 DEF OneToken, Filled
<1>5. TokenIsLatest(p)'
  BY <1>1, <1>3 DEF TokenIsLatest
<1> QED
  BY <1>1, <1>4, <1>5 DEF Token

LEMMA AccessKeepsToken ==
  ASSUME ProgramsAreDisciplined, Working, NEW e \in Workers, NEW n, Reads(e, n) \/ Writes(e, n),
         NEW p \in Points(Output), Token(p)
  PROVE  Token(p)'
<1>1. Unmoved(p) \/ Taken(p, e, n) \/ PutDown(p, e, n) \/ Filled(p, e, n)
  BY SaverMovesNothing, EngineReadsEffect, EngineWritesEffect DEF Workers
<1> QED
  BY <1>1, UnmovedKeepsToken, TakenKeepsToken, PutDownKeepsToken, FilledKeepsToken

-----------------------------------------------------------------------------
(* The inductive invariant *)

LEMMA InitIInv == Init => IInv
<1> SUFFICES ASSUME Init PROVE TypeOK /\ NothingYet
  BY DEF Init, IInv
<1>1. {} \in Values
  BY DEF Values
<1>2. /\ mapping \in Mappings /\ phase = "Optimizations" /\ running = {}
      /\ queue = [e \in Engines \cup {Saver} |-> IF e = Saver THEN <<>> ELSE GenerateCode(mapping)[e]]
      /\ done = [e \in Workers |-> 0] /\ operands = [e \in Workers |-> <<>>]
      /\ state = [n \in AllEntries |-> "Empty"] /\ content = [n \in AllEntries |-> {}]
  BY DEF Init, Workers
<1>3. DOMAIN queue = Workers /\ queue[Saver] = <<>>
  BY <1>2 DEF Workers
<1>4. \A e \in Engines : queue[e] = GenerateCode(mapping)[e]
  BY <1>2, SaverApart
<1>5. TypeOK
  BY <1>1, <1>2, <1>3 DEF TypeOK
<1>6. NothingYet
  BY <1>2, <1>3, <1>4 DEF NothingYet
<1> QED
  BY <1>5, <1>6

LEMMA NothingCopied ==
  ASSUME NothingYet, NEW p
  PROVE  InUse(p) = {} /\ Carriers(p) = {}
<1>1. InUse(p) = {}
  BY EntriesApart DEF NothingYet, InUse
<1>2. Carriers(p) = {}
  BY DEF NothingYet, Carriers, Workers
<1> QED
  BY <1>1, <1>2

LEMMA OptimizationsKeeps ==
  ASSUME ProgramsAreDisciplined, IInv, Optimizations
  PROVE  IInv'
<1>1. /\ TypeOK /\ NothingYet /\ phase' = "Run"
      /\ queue' = [e \in DOMAIN queue |->
                     IF e = Saver THEN queue[e] ELSE MergeActionsIntoMulticast(queue[e])]
      /\ UNCHANGED <<mapping, done, operands, state, content, running>>
  BY DEF Optimizations, IInv
<1>2. DOMAIN queue = Workers /\ mapping \in Mappings
  BY <1>1 DEF TypeOK
<1>3. DOMAIN queue' = Workers /\ queue'[Saver] = <<>>
  BY <1>1, <1>2 DEF Workers, NothingYet
<1>4. \A e \in Engines : queue'[e] = Program(mapping)[e]
  BY <1>1, <1>2, SaverApart DEF Workers, NothingYet, Program
<1>5. TypeOK'
  BY <1>1, <1>3 DEF TypeOK
<1>6. ASSUME NEW e \in Workers PROVE Left(mapping, e, queue'[e])
  <2>1. CASE e = Saver
    BY <1>3, <2>1 DEF Left
  <2>2. CASE e # Saver
    <3>1. e \in Engines
      BY <2>2 DEF Workers
    <3> DEFINE actions == Program(mapping)[e]
    <3>2. queue'[e] = actions /\ actions \in Seq(Range(actions)) /\ Len(actions) \in Nat
      BY <1>2, <1>4, <3>1, ProgramIs
    <3> HIDE DEF actions
    <3>3. \A i \in 1 .. Len(actions) : Len(actions) - Len(actions) + i = i
      BY ONLY <3>2
    <3>4. Remains(actions, actions)
      BY <3>2, <3>3 DEF Remains
    <3> QED
      BY <2>2, <3>2, <3>4 DEF Left, actions
  <2> QED
    BY <2>1, <2>2
<1>7. QueuesLeft'
  BY <1>1, <1>6 DEF QueuesLeft
<1>8. FrontInProgress'
  <2> SUFFICES ASSUME NEW e \in Workers PROVE InProgress(e)'
    BY DEF FrontInProgress
  <2>1. done'[e] = 0 /\ operands'[e] = <<>>
    BY <1>1 DEF NothingYet
  <2>2. ASSUME queue'[e] # <<>>
        PROVE  Accesses(Head(queue'[e])) \in Nat \ {0} /\ Len(Head(queue'[e]).srcs) \in Nat
    <3>1. Due(mapping, e, Head(queue'[e]))
      BY <1>2, <1>6, <2>2, FrontIsDue
    <3> QED
      BY <3>1, DueIs
  <2> QED
    BY <2>1, <2>2 DEF InProgress
<1>9. /\ \A n \in AllEntries : state'[n] = "Empty"
      /\ \A e \in Workers : operands'[e] = <<>>
  BY <1>1 DEF NothingYet
<1>10. InputsAreRight'
  BY <1>9, EntriesApart DEF InputsAreRight, Workers
<1>11. ASSUME NEW p \in Points(Output) PROVE Token(p)'
  <2>1. InUse(p)' = {}
    BY <1>9, EntriesApart DEF InUse
  <2>2. Carriers(p)' = {}
    BY <1>9 DEF Carriers, Workers
  <2>3. Writable(p)' = {}
    BY <2>1 DEF Writable
  <2> QED
    BY <2>1, <2>2, <2>3 DEF Token, OneToken, TokenIsLatest
<1> QED
  BY <1>1, <1>3, <1>5, <1>7, <1>8, <1>10, <1>11 DEF IInv, Working, SavesLast

\* Steps of main that leave the engines and the entries alone.
MainMoves ==
  /\ \A f \in Engines : queue'[f] = queue[f]
  /\ operands' = operands /\ state' = state /\ content' = content

LEMMA MainMovesNothing ==
  ASSUME MainMoves, NEW p
  PROVE  Unmoved(p)
<1>1. Carriers(p)' = Carriers(p)
  BY CarriersAre DEF MainMoves
<1> QED
  BY <1>1 DEF MainMoves, Unmoved, NoNewFill

LEMMA MainKeepsInputs ==
  ASSUME MainMoves, InputsAreRight
  PROVE  InputsAreRight'
  BY DEF MainMoves, InputsAreRight

LEMMA RunKeeps ==
  ASSUME ProgramsAreDisciplined, IInv, NEW e \in Engines, Run(e)
  PROVE  IInv' /\ MainMoves
<1>1. /\ phase = "Run" /\ running' = running \cup {e} /\ phase' \in {"Run", "Wait"}
      /\ UNCHANGED <<mapping, queue, done, operands, state, content>>
  BY DEF Run
<1>2. TypeOK'
  BY <1>1 DEF TypeOK, IInv, Working
<1>3. QueuesLeft' /\ FrontInProgress'
  BY <1>1 DEF IInv, Working, QueuesLeft, FrontInProgress, InProgress
<1>4. MainMoves
  BY <1>1 DEF MainMoves
<1>5. InputsAreRight'
  BY <1>1, <1>4, MainKeepsInputs DEF IInv, Working
<1>6. \A p \in Points(Output) : Token(p)'
  BY <1>1, <1>4, MainMovesNothing, UnmovedKeepsToken DEF IInv
<1> QED
  BY <1>1, <1>2, <1>3, <1>4, <1>5, <1>6 DEF IInv, Working, SavesLast

LEMMA WaitKeeps ==
  ASSUME ProgramsAreDisciplined, IInv, Wait
  PROVE  IInv' /\ MainMoves
<1>1. /\ phase = "Wait" /\ phase' = "Save" /\ queue' = [queue EXCEPT ![Saver] = Saves]
      /\ UNCHANGED <<mapping, done, operands, state, content, running>>
  BY DEF Wait, Saves
<1>2. Working /\ SavesLast /\ \A p \in Points(Output) : Token(p)
  BY <1>1 DEF IInv
<1>3. DOMAIN queue = Workers /\ Saver \in Workers
  BY <1>2 DEF Working, TypeOK, Workers
<1>4. /\ DOMAIN queue' = Workers /\ queue'[Saver] = Saves
      /\ \A f \in Workers : f # Saver => queue'[f] = queue[f]
  BY <1>1, <1>3
<1>5. TypeOK'
  BY <1>1, <1>2, <1>4 DEF Working, TypeOK
<1>6. QueuesLeft'
  BY <1>1, <1>2, <1>4 DEF Working, QueuesLeft, Left, ProgramsAreDisciplined
<1>7. ASSUME NEW e \in Workers PROVE InProgress(e)'
  <2>1. CASE e = Saver
    <3>1. done'[e] = 0 /\ operands'[e] = <<>>
      BY <1>1, <1>2, <2>1 DEF Working, FrontInProgress, InProgress, SavesLast
    <3>2. ASSUME queue'[e] # <<>>
          PROVE  Accesses(Head(queue'[e])) \in Nat \ {0} /\ Len(Head(queue'[e]).srcs) \in Nat
      <4>1. mapping' \in Mappings /\ Left(mapping', e, queue'[e])
        BY <1>5, <1>6 DEF TypeOK, QueuesLeft
      <4>2. Due(mapping', e, Head(queue'[e]))
        BY <3>2, <4>1, FrontIsDue
      <4> QED
        BY <4>2, DueIs
    <3> QED
      BY <3>1, <3>2 DEF InProgress
  <2>2. CASE e # Saver
    <3>1. queue'[e] = queue[e] /\ done'[e] = done[e] /\ operands'[e] = operands[e]
      BY <1>1, <1>4, <2>2
    <3>2. InProgress(e)
      BY <1>2 DEF Working, FrontInProgress
    <3> QED
      BY ONLY <3>1, <3>2 DEF InProgress
  <2> QED
    BY <2>1, <2>2
<1>8. MainMoves
  BY <1>1, <1>4, SaverApart DEF MainMoves, Workers
<1>9. InputsAreRight'
  BY <1>2, <1>8, MainKeepsInputs DEF Working
<1>10. \A p \in Points(Output) : Token(p)'
  BY <1>2, <1>8, MainMovesNothing, UnmovedKeepsToken
<1> QED
  BY <1>1, <1>5, <1>6, <1>7, <1>8, <1>9, <1>10 DEF IInv, Working, FrontInProgress, SavesLast

LEMMA CompleteKeeps ==
  ASSUME IInv, Complete \/ UNCHANGED vars
  PROVE  IInv' /\ MainMoves
<1>1. /\ UNCHANGED <<mapping, queue, done, operands, state, content, running>>
      /\ phase' = phase \/ (phase = "Save" /\ phase' = "Complete")
  BY DEF Complete, vars
<1>2. MainMoves
  BY <1>1 DEF MainMoves
<1>3. TypeOK => TypeOK'
  BY <1>1 DEF TypeOK
<1>4. NothingYet => NothingYet'
  BY <1>1 DEF NothingYet
<1>5. Working => Working'
  <2>1. QueuesLeft => QueuesLeft'
    BY <1>1 DEF QueuesLeft
  <2>2. FrontInProgress => FrontInProgress'
    BY <1>1 DEF FrontInProgress, InProgress
  <2> QED
    BY <1>2, <1>3, <2>1, <2>2, MainKeepsInputs DEF Working
<1>6. \A p \in Points(Output) : Token(p) => Token(p)'
  BY <1>2, MainMovesNothing, UnmovedKeepsToken
<1>7. SavesLast => SavesLast'
  BY <1>1 DEF SavesLast
<1> QED
  BY <1>1, <1>2, <1>3, <1>4, <1>5, <1>6, <1>7 DEF IInv

\* An access is a step of the engines at work, and not before.
LEMMA ProcessIs ==
  ASSUME ProgramsAreDisciplined, IInv, NEW e \in Workers, ProcessAction(e)
  PROVE  /\ phase # "Optimizations" /\ Working
         /\ \E n : Reads(e, n) \/ Writes(e, n)
<1>1. queue[e] # <<>> /\ (e \in running \/ e = Saver)
  BY DEF ProcessAction, ReadSrc, WriteDst, Busy
<1>2. phase # "Optimizations"
  <2>1. ASSUME NothingYet PROVE FALSE
    BY <1>1, <2>1 DEF NothingYet
  <2> QED
    BY <2>1 DEF IInv
<1>3. Working
  BY <1>2 DEF IInv
<1> QED
  BY <1>2, <1>3, ReadSrcReads, WriteDstWrites DEF ProcessAction, Working

LEMMA ProcessKeeps ==
  ASSUME ProgramsAreDisciplined, IInv, NEW e \in Workers, ProcessAction(e)
  PROVE  IInv'
<1>1. phase # "Optimizations" /\ Working
  BY ProcessIs
<1>2. PICK n : Reads(e, n) \/ Writes(e, n)
  BY ProcessIs
<1>3. TypeOK' /\ QueuesLeft' /\ FrontInProgress' /\ InputsAreRight'
  <2>1. ASSUME Reads(e, n) PROVE TypeOK' /\ QueuesLeft' /\ FrontInProgress' /\ InputsAreRight'
    BY <1>1, <2>1, ReadsTyped, ReadsKeepProgress, ReadsKeepInputs DEF Working
  <2>2. ASSUME Writes(e, n) PROVE TypeOK' /\ QueuesLeft' /\ FrontInProgress' /\ InputsAreRight'
    BY <1>1, <2>2, WritesTyped, WritesKeepProgress, WritesKeepInputs
  <2> QED
    BY <1>2, <2>1, <2>2
<1>4. SavesLast /\ \A p \in Points(Output) : Token(p)
  BY <1>1 DEF IInv
<1>5. \A p \in Points(Output) : Token(p)'
  BY <1>1, <1>2, <1>4, AccessKeepsToken
<1>6. queue[e] # <<>> /\ Advanced(e) /\ phase' = phase
  BY <1>2 DEF Reads, Writes, Stays
<1>7. SavesLast'
  <2> SUFFICES ASSUME phase \notin {"Save", "Complete"} PROVE queue'[Saver] = <<>>
    BY <1>6 DEF SavesLast
  <2>1. queue[Saver] = <<>> /\ e # Saver /\ Saver \in Workers
    BY <1>4, <1>6 DEF SavesLast, Workers
  <2> QED
    BY <1>6, <2>1 DEF Advanced
<1> QED
  BY <1>1, <1>3, <1>5, <1>6, <1>7 DEF IInv, Working

LEMMA NextIInv ==
  ASSUME ProgramsAreDisciplined, IInv, [Next]_vars
  PROVE  IInv'
<1>1. ASSUME NEW e \in Engines, Run(e) PROVE IInv'
  BY <1>1, RunKeeps
<1>2. ASSUME NEW e \in Engines \cup {Saver}, ProcessAction(e) PROVE IInv'
  BY <1>2, ProcessKeeps DEF Workers
<1>3. ASSUME Terminating PROVE UNCHANGED vars
  BY <1>3 DEF Terminating
<1> QED
  BY <1>1, <1>2, <1>3, OptimizationsKeeps, WaitKeeps, CompleteKeeps DEF Next

THEOREM EmulatorInvariant == ASSUME ProgramsAreDisciplined PROVE Spec => []IInv
  BY InitIInv, NextIInv, PTL DEF Spec

-----------------------------------------------------------------------------

LEMMA AtMostOne ==
  ASSUME NEW S, \A x, y \in S : x = y
  PROVE  Cardinality(S) = (IF S = {} THEN 0 ELSE 1)
<1>1. CASE S = {}
  BY <1>1, FS_EmptySet
<1>2. CASE S # {}
  <2>1. PICK x \in S : TRUE
    BY <1>2
  <2>2. S = {x}
    BY <2>1
  <2> QED
    BY <1>2, <2>2, FS_Singleton
<1> QED
  BY <1>1, <1>2

\* OneWritableCopy, for any number of engines.
THEOREM OneCopyWritable == ASSUME ProgramsAreDisciplined PROVE Spec => []OneWritableCopy
<1>1. ASSUME IInv, NEW p \in Points(Output)
      PROVE  Cardinality({n \in InUse(p) : state[n] = "Ready"}) + Cardinality(Carriers(p)) <= 1
  <2>1. /\ \A n, k \in Writable(p) : n = k
        /\ \A e, f \in Carriers(p) : e = f
        /\ Writable(p) = {} \/ Carriers(p) = {}
    BY <1>1, NothingCopied DEF IInv, Token, OneToken, Writable
  <2>2. Cardinality(Writable(p)) = (IF Writable(p) = {} THEN 0 ELSE 1)
    BY <2>1, AtMostOne
  <2>3. Cardinality(Carriers(p)) = (IF Carriers(p) = {} THEN 0 ELSE 1)
    BY <2>1, AtMostOne
  <2>4. Cardinality(Writable(p)) + Cardinality(Carriers(p)) <= 1
    BY <2>1, <2>2, <2>3
  <2> QED
    BY <2>4 DEF Writable
<1>2. IInv => OneWritableCopy
  BY <1>1 DEF OneWritableCopy
<1> QED
  BY <1>2, EmulatorInvariant, PTL

-----------------------------------------------------------------------------
(* The emulation implements the reference program *)

\* What is accumulated in a point, by its entry and by its carrier.
Sum(p) == UNION ({content[n] : n \in InUse(p)} \cup {Last(operands[e]) : e \in Carriers(p)})

LEMMA SumIs ==
  ASSUME NEW p
  PROVE  /\ \A v : v \in Sum(p) <=> \/ \E n \in InUse(p) : v \in content[n]
                                   \/ \E e \in Carriers(p) : v \in Last(operands[e])
         /\ \A v : v \in Sum(p)' <=> \/ \E n \in InUse(p)' : v \in content'[n]
                                    \/ \E e \in Carriers(p)' : v \in Last(operands'[e])
<1>1. \A v : v \in Sum(p) <=> \/ \E n \in InUse(p) : v \in content[n]
                             \/ \E e \in Carriers(p) : v \in Last(operands[e])
  BY DEF Sum
<1>2. \A v : v \in Sum(p)' <=> \/ \E n \in InUse(p)' : v \in content'[n]
                              \/ \E e \in Carriers(p)' : v \in Last(operands'[e])
  BY DEF Sum
<1> QED
  BY <1>1, <1>2

LEMMA UnmovedKeepsSum ==
  ASSUME NEW p, Unmoved(p)
  PROVE  Sum(p)' = Sum(p)
<1>1. InUse(p)' = InUse(p) /\ \A n \in InUse(p) : content'[n] = content[n]
  BY CopiesAre DEF Unmoved
<1>2. Carriers(p)' = Carriers(p) /\ \A e \in Carriers(p) : operands'[e] = operands[e]
  BY DEF Unmoved
<1> QED
  BY <1>1, <1>2 DEF Sum

LEMMA TakenKeepsSum ==
  ASSUME NEW p, NEW e, NEW n, Token(p), Taken(p, e, n)
  PROVE  Sum(p)' = Sum(p)
<1>1. n \in Writable(p) /\ n \in InUse(p)
  BY CopiesAre DEF Taken
<1>2. Carriers(p) = {} /\ Carriers(p)' = {e} /\ Last(operands'[e]) = content[n]
  BY <1>1 DEF Token, OneToken, Taken
<1>3. \A k \in InUse(p)' : k \in InUse(p) /\ content'[k] = content[k]
  BY <1>1, CopiesAre DEF Taken, OthersStay
<1>4. \A k \in InUse(p) : content[k] \subseteq content[n]
  BY <1>1 DEF Token, TokenIsLatest
<1>5. ASSUME NEW v PROVE v \in Sum(p) <=> v \in content[n]
  BY <1>1, <1>2, <1>4, SumIs
<1>6. ASSUME NEW v PROVE v \in Sum(p)' <=> v \in content[n]
  BY <1>2, <1>3, <1>4, SumIs
<1> QED
  BY <1>5, <1>6

LEMMA PutDownSum ==
  ASSUME NEW p, NEW e, NEW k, Token(p), PutDown(p, e, k)
  PROVE  Sum(p) = Last(operands[e]) /\ Sum(p)' = content'[k]
<1>1. e \in Carriers(p) /\ (\A f \in Carriers(p) : f = e) /\ Carriers(p)' = {} /\ Last(operands[e]) \subseteq content'[k]
  BY DEF PutDown, Token, OneToken
<1>2. \A n \in InUse(p) : content[n] \subseteq Last(operands[e])
  BY <1>1 DEF Token, TokenIsLatest
<1>3. k \in InUse(p)' /\ \A n \in InUse(p)' : n # k => n \in InUse(p) /\ content'[n] = content[n]
  BY CopiesAre DEF PutDown, OthersStay
<1>4. ASSUME NEW v PROVE v \in Sum(p) <=> v \in Last(operands[e])
  BY <1>1, <1>2, SumIs
<1>5. ASSUME NEW v PROVE v \in Sum(p)' <=> v \in content'[k]
  BY <1>1, <1>2, <1>3, SumIs
<1> QED
  BY <1>4, <1>5

LEMMA FilledKeepsSum ==
  ASSUME NEW p, NEW e, NEW k, Token(p), Filled(p, e, k)
  PROVE  Sum(p)' = Sum(p)
<1>1. InUse(p) = {} /\ Carriers(p) = {} /\ Carriers(p)' = {} /\ content'[k] = {}
  BY FilledKeepsToken DEF Filled
<1>2. \A n \in InUse(p)' : n = k
  BY <1>1, CopiesAre DEF Filled, OthersStay
<1> QED
  BY <1>1, <1>2, SumIs

\* An operation is performed when its computation leaves the queue.
LEMMA OccursAfter ==
  ASSUME ProgramsAreDisciplined, TypeOK, QueuesLeft, NEW e \in Workers, queue[e] # <<>>, Advanced(e),
         NEW u \in Engines, NEW a
  PROVE  IF u = e /\ Finishes(e) /\ a = Current(e)
         THEN Occurs(a, queue[u])
         ELSE Occurs(a, queue'[u]) <=> Occurs(a, queue[u])
<1>1. Occurs(a, queue'[u]) => Occurs(a, queue[u])
  BY AdvancedFillsNoMore
<1>2. u \in Workers
  BY DEF Workers
<1>3. CASE u # e \/ ~ Finishes(e)
  <2>1. queue'[u] = queue[u]
    BY <1>2, <1>3 DEF Advanced
  <2> QED
    BY <1>3, <2>1
<1>4. CASE u = e /\ Finishes(e)
  <2>1. queue'[u] = Tail(queue[u])
    BY <1>4 DEF Advanced
  <2>2. queue[u] \in Seq(Range(Program(mapping)[u]))
    BY <1>2, SaverApart DEF QueuesLeft, Left, Remains
  <2>3. /\ Len(queue[u]) \in Nat \ {0} /\ queue[u][1] = Current(e)
        /\ Len(Tail(queue[u])) = Len(queue[u]) - 1
        /\ \A j \in 1 .. Len(queue[u]) - 1 : Tail(queue[u])[j] = queue[u][j + 1]
    BY <1>4, <2>2, QueueParts DEF Current
  <2>4. CASE a = Current(e)
    <3>1. 1 \in 1 .. Len(queue[u])
      BY <2>3
    <3> QED
      BY <1>4, <2>3, <2>4, <3>1 DEF Occurs
  <2>5. CASE a # Current(e)
    <3>1. ASSUME NEW i \in 1 .. Len(queue[u]), queue[u][i] = a
          PROVE  Occurs(a, queue'[u])
      <4>1. i # 1
        BY <2>3, <2>5, <3>1
      <4> DEFINE j == i - 1
      <4>2. j \in 1 .. Len(queue[u]) - 1 /\ j + 1 = i
        BY <2>3, <4>1
      <4> HIDE DEF j
      <4>3. Tail(queue[u])[j] = a /\ j \in 1 .. Len(Tail(queue[u]))
        BY <2>3, <3>1, <4>2
      <4> QED
        BY <2>1, <4>3 DEF Occurs
    <3> QED
      BY <1>1, <2>5, <3>1 DEF Occurs
  <2> QED
    BY <2>4, <2>5
<1> QED
  BY <1>3, <1>4

LEMMA PerformedIs ==
  /\ Performed = {o \in Ops : ~ Occurs(Compute(o, mapping[o].s), queue[UnitEngine(mapping[o].s)])}
  /\ Performed' = {o \in Ops : ~ Occurs(Compute(o, mapping'[o].s), queue'[UnitEngine(mapping'[o].s)])}
<1>1. Performed = {o \in Ops : ~ Occurs(Compute(o, mapping[o].s), queue[UnitEngine(mapping[o].s)])}
  BY DEF Performed, Occurs
<1>2. Performed' = {o \in Ops : ~ Occurs(Compute(o, mapping'[o].s), queue'[UnitEngine(mapping'[o].s)])}
  BY DEF Performed, Occurs
<1> QED
  BY <1>1, <1>2

LEMMA PerformedKept ==
  ASSUME ProgramsAreDisciplined, TypeOK, QueuesLeft, NEW e \in Workers, queue[e] # <<>>, Advanced(e),
         mapping' = mapping,
         \A o \in Ops : e = UnitEngine(mapping[o].s) /\ Current(e) = Compute(o, mapping[o].s) => ~ Finishes(e)
  PROVE  Performed' = Performed
<1>1. ASSUME NEW o \in Ops
      PROVE  LET a == Compute(o, mapping[o].s)
                 u == UnitEngine(mapping[o].s)
             IN  Occurs(a, queue'[u]) <=> Occurs(a, queue[u])
  <2>1. UnitEngine(mapping[o].s) \in Engines
    BY UnitIsEngine DEF TypeOK
  <2> QED
    BY <2>1, OccursAfter
<1> QED
  BY <1>1, PerformedIs

LEMMA PerformedOne ==
  ASSUME ProgramsAreDisciplined, TypeOK, QueuesLeft, NEW e \in Engines, queue[e] # <<>>, Advanced(e),
         mapping' = mapping, Finishes(e),
         NEW o \in Ops, e = UnitEngine(mapping[o].s), Current(e) = Compute(o, mapping[o].s)
  PROVE  o \notin Performed /\ Performed' = Performed \cup {o}
<1> DEFINE a(q) == Compute(q, mapping[q].s)
           u(q) == UnitEngine(mapping[q].s)
           actions == Program(mapping)[e]
<1>1. e \in Workers /\ e # Saver /\ mapping \in Mappings
  BY SaverApart DEF Workers, TypeOK
<1>2. Remains(queue[e], actions) /\ Len(actions) \in Nat
  BY <1>1, ProgramIs DEF QueuesLeft, Left
<1>3. /\ Len(queue[e]) \in Nat \ {0} /\ queue[e][1] = a(o) /\ queue'[e] = Tail(queue[e])
      /\ Len(Tail(queue[e])) = Len(queue[e]) - 1
      /\ \A j \in 1 .. Len(queue[e]) - 1 : Tail(queue[e])[j] = queue[e][j + 1]
  <2>1. queue'[e] = Tail(queue[e])
    BY <1>1 DEF Advanced
  <2> QED
    BY <1>2, <2>1, QueueParts DEF Remains, Current
<1>4. \A q \in Ops : mapping[o].s = mapping[q].s =>
        \A i, j \in 1 .. Len(actions) : actions[i] = a(o) /\ actions[j] = a(q) => (i = j <=> o = q)
  BY <1>1 DEF ProgramsAreDisciplined, Disciplined, ComputesOnce
<1> HIDE DEF a, actions
<1>5. 1 \in 1 .. Len(queue[e])
  BY <1>3
<1> DEFINE first == Len(actions) - Len(queue[e]) + 1
<1>6. first \in 1 .. Len(actions) /\ actions[first] = a(o)
  <2>1. /\ Len(actions) - Len(queue[e]) + 1 \in 1 .. Len(actions)
        /\ actions[Len(actions) - Len(queue[e]) + 1] = queue[e][1]
    BY <1>2, <1>5, RemainsAt
  <2> QED
    BY <1>3, <2>1, Zenon
<1>7. Occurs(a(o), queue[e])
  BY <1>3, <1>5 DEF Occurs
<1>8. ~ Occurs(a(o), queue'[e])
  <2> SUFFICES ASSUME Occurs(a(o), queue'[e]) PROVE FALSE
    OBVIOUS
  <2>1. PICK j \in 1 .. Len(queue'[e]) : queue'[e][j] = a(o)
    BY DEF Occurs
  <2> DEFINE i == j + 1
  <2>2. i \in 1 .. Len(queue[e]) /\ queue[e][i] = a(o) /\ i > 1
    BY <1>3, <2>1
  <2> HIDE DEF i
  <2>3. Len(actions) - Len(queue[e]) + i \in 1 .. Len(actions) /\ actions[Len(actions) - Len(queue[e]) + i] = a(o)
    BY <1>2, <2>2, RemainsAt
  <2>4. first = Len(actions) - Len(queue[e]) + i
    BY <1>4, <1>6, <2>3
  <2> QED
    BY ONLY <1>2, <1>3, <2>2, <2>4
<1>9. ASSUME NEW q \in Ops, q # o
      PROVE  Occurs(a(q), queue'[u(q)]) <=> Occurs(a(q), queue[u(q)])
  <2>1. u(q) \in Engines
    BY <1>1, UnitIsEngine
  <2>2. ASSUME u(q) = e PROVE a(q) # a(o)
    <3>1. mapping[o].s = mapping[q].s
      <4>1. UnitEngine(mapping[o].s)[3] = UnitEngine(mapping[q].s)[3]
        BY <2>2
      <4> QED
        BY <4>1 DEF UnitEngine
    <3> QED
      BY <1>4, <1>6, <1>9, <3>1
  <2>3. a(o) = Current(e)
    BY DEF a
  <2> HIDE DEF u
  <2> QED
    BY <1>1, <2>1, <2>2, <2>3, OccursAfter
<1>10. o \notin Performed
  BY <1>7, PerformedIs DEF a
<1>11. ASSUME NEW q \in Ops PROVE q \in Performed' <=> q \in Performed \/ q = o
  <2>1. CASE q = o
    BY <1>8, <2>1, PerformedIs DEF a
  <2>2. CASE q # o
    BY <1>9, <2>2, PerformedIs DEF a
  <2> QED
    BY <2>1, <2>2
<1> QED
  BY <1>10, <1>11, PerformedIs

LEMMA ResultIs ==
  /\ Accumulated = [p \in Points(Output) |-> Sum(p)]
  /\ Accumulated' = [p \in Points(Output) |-> Sum(p)']
<1>1. Accumulated = [p \in Points(Output) |-> Sum(p)]
  BY DEF Accumulated, Sum
<1>2. Accumulated' = [p \in Points(Output) |-> Sum(p)']
  BY DEF Accumulated, Sum
<1> QED
  BY <1>1, <1>2

\* A step that the reference does not see.
Unseen == Performed' = Performed /\ \A p \in Points(Output) : Sum(p)' = Sum(p)

\* A step of the reference.
Performs(o) ==
  /\ o \notin Performed /\ Performed' = Performed \cup {o}
  /\ \A p \in Points(Output) :
       Sum(p)' = IF p = Projection[Output][o] THEN Sum(p) \cup {Product[o]} ELSE Sum(p)

LEMMA ReadsUnseen ==
  ASSUME ProgramsAreDisciplined, Working, \A p \in Points(Output) : Token(p),
         NEW e \in Workers, NEW n, Reads(e, n)
  PROVE  Unseen
<1> USE DEF Working
<1>1. queue[e] # <<>> /\ Advanced(e) /\ mapping' = mapping
  BY DEF Reads, Stays
<1>2. ASSUME NEW o \in Ops, Current(e) = Compute(o, mapping[o].s) PROVE ~ Finishes(e)
  <2>1. Len(Current(e).dsts) = 1
    BY <1>2, ComputeIs DEF TypeOK
  <2>2. /\ Accesses(Current(e)) = Len(Current(e).srcs) + Len(Current(e).dsts)
        /\ Len(Current(e).srcs) \in Nat
    BY <1>1, CurrentIsDue
  <2>3. done[e] + 1 \in 1 .. Len(Current(e).srcs)
    BY DEF Reads
  <2> QED
    BY <2>1, <2>2, <2>3 DEF Finishes
<1>3. Performed' = Performed
  BY <1>1, <1>2, PerformedKept
<1>4. \A p \in Points(Output) : Unmoved(p) \/ Taken(p, e, n)
  BY SaverMovesNothing, EngineReadsEffect DEF Workers
<1> QED
  BY <1>3, <1>4, UnmovedKeepsSum, TakenKeepsSum DEF Unseen

LEMMA SaverWritesUnseen ==
  ASSUME ProgramsAreDisciplined, Working, NEW k, Writes(Saver, k)
  PROVE  Unseen
<1> USE DEF Working
<1>1. Saver \in Workers /\ queue[Saver] # <<>> /\ Advanced(Saver) /\ mapping' = mapping
  BY DEF Writes, Stays, Workers
<1>2. \A o \in Ops : Saver # UnitEngine(mapping[o].s)
  BY SaverApart, UnitIsEngine DEF TypeOK
<1>3. Performed' = Performed
  BY <1>1, <1>2, PerformedKept
<1> QED
  BY <1>3, SaverMovesNothing, UnmovedKeepsSum DEF Unseen

LEMMA ComputeWrites ==
  ASSUME NEW m \in Mappings, NEW o \in Ops, NEW a, a = Compute(o, m[o].s)
  PROVE  Len(a.dsts) = 1 /\ a.dsts[1] \in EntriesOf(Output, Projection[Output][o])
<1> DEFINE k == Cardinality(Inputs)
<1>1. Len(a.dsts) = 1 /\ a.srcs[k + 1] \in EntriesOf(Output, Projection[Output][o]) /\ a.dsts[1] = a.srcs[k + 1]
  BY ComputeIs, Zenon
<1> QED
  BY <1>1, Zenon

LEMMA EngineWritesSeen ==
  ASSUME ProgramsAreDisciplined, Working, \A p \in Points(Output) : Token(p),
         NEW e \in Engines, NEW k, Writes(e, k)
  PROVE  Unseen \/ \E o \in Ops : Performs(o)
<1> USE DEF Working
<1>1. e \in Workers /\ queue[e] # <<>> /\ Advanced(e) /\ mapping' = mapping
  BY DEF Writes, Stays, Workers
<1>2. \A p \in Points(Output) : Unmoved(p) \/ PutDown(p, e, k) \/ Filled(p, e, k)
  BY EngineWritesEffect
<1>3. \A p \in Points(Output) : p # k.p => Unmoved(p)
  BY <1>2 DEF PutDown, Filled, EntriesOf
<1>4. mapping \in Mappings
  BY DEF TypeOK
<1>5. CASE k.ds \in Inputs
  <2>1. ASSUME NEW o \in Ops, Current(e) = Compute(o, mapping[o].s) PROVE FALSE
    <3>1. Len(Current(e).dsts) = 1 /\ Current(e).dsts[1] \in EntriesOf(Output, Projection[Output][o])
      BY <1>4, <2>1, ComputeWrites, Zenon
    <3>2. k = Current(e).dsts[1]
      BY <3>1 DEF Writes, Destination
    <3> QED
      BY <1>5, <3>1, <3>2, OutputIsNoInput DEF EntriesOf
  <2>2. Performed' = Performed
    BY <1>1, <2>1, PerformedKept
  <2>3. \A p \in Points(Output) : Unmoved(p)
    BY <1>2, <1>5, OutputIsNoInput DEF PutDown, Filled, EntriesOf
  <2> QED
    BY <2>2, <2>3, UnmovedKeepsSum DEF Unseen
<1>6. CASE \/ Fills(e, k)
           \/ Carries(e, k) /\ Current(e).op # "COMPUTE"
  <2>1. Current(e).op # "COMPUTE"
    BY <1>6 DEF Fills, InitAction
  <2>2. ASSUME NEW o \in Ops PROVE Current(e) # Compute(o, mapping[o].s)
    BY <2>1 DEF Compute
  <2>3. Performed' = Performed
    BY <1>1, <2>2, PerformedKept
  <2>4. ASSUME NEW p \in Points(Output), PutDown(p, e, k) PROVE Sum(p)' = Sum(p)
    <3>1. Sum(p) = Last(operands[e]) /\ Sum(p)' = content'[k] /\ Last(operands[e]) \subseteq content'[k]
      BY <2>4, PutDownSum DEF PutDown
    <3>2. content'[k] = {} \/ content'[k] = Last(operands[e])
      BY <1>6, <2>1, <2>2 DEF Fills, Carries
    <3> QED
      BY <3>1, <3>2
  <2> QED
    BY <1>2, <2>3, <2>4, UnmovedKeepsSum, FilledKeepsSum DEF Unseen
<1>7. ASSUME k.ds = Output, k.p \in Points(Output), Finishes(e), Carries(e, k),
             NEW o \in Ops, e = UnitEngine(mapping[o].s), Current(e) = Compute(o, mapping[o].s),
             content'[k] = Last(operands[e]) \cup {Product[o]}
      PROVE  Performs(o)
  <2>1. o \notin Performed /\ Performed' = Performed \cup {o}
    BY <1>1, <1>7, PerformedOne
  <2>2. k.p = Projection[Output][o]
    <3>1. Len(Current(e).dsts) = 1 /\ Current(e).dsts[1] \in EntriesOf(Output, Projection[Output][o])
      BY <1>4, <1>7, ComputeWrites, Zenon
    <3>2. k = Current(e).dsts[1]
      BY <3>1 DEF Writes, Destination
    <3> QED
      BY <3>1, <3>2 DEF EntriesOf
  <2>3. e \in Carriers(k.p)
    BY <1>1, <1>7, CarriersAre DEF Carries, Carrying, Current
  <2>4. e \notin Carriers(k.p)'
    <3>1. operands'[e] = <<>>
      BY <1>7 DEF Writes
    <3> QED
      BY <3>1, CarriersAre DEF Carrying
  <2>5. PutDown(k.p, e, k)
    BY <1>2, <1>7, <2>3, <2>4 DEF Unmoved, Filled
  <2>6. Sum(k.p)' = Sum(k.p) \cup {Product[o]}
    <3> DEFINE q == k.p
    <3>1. PutDown(q, e, k) /\ Token(q)
      BY <1>7, <2>5
    <3> HIDE DEF q
    <3>2. Sum(q) = Last(operands[e]) /\ Sum(q)' = content'[k]
      BY <3>1, PutDownSum
    <3>3. Sum(q)' = Sum(q) \cup {Product[o]}
      BY <1>7, <3>2
    <3> QED
      BY <3>3 DEF q
  <2>7. \A p \in Points(Output) : p # k.p => Sum(p)' = Sum(p)
    BY <1>3, UnmovedKeepsSum
  <2> QED
    BY <2>1, <2>2, <2>6, <2>7 DEF Performs
<1> QED
  BY <1>5, <1>6, <1>7, EngineWrites DEF Carries

LEMMA MainUnseen ==
  ASSUME MainMoves, TypeOK, mapping' = mapping
  PROVE  Unseen
<1>1. \A o \in Ops : UnitEngine(mapping[o].s) \in Engines
  BY UnitIsEngine DEF TypeOK
<1>2. Performed' = Performed
  BY <1>1, PerformedIs DEF MainMoves
<1> QED
  BY <1>2, MainMovesNothing, UnmovedKeepsSum DEF Unseen

LEMMA NothingPerformed ==
  ASSUME ProgramsAreDisciplined, NEW m \in Mappings, NEW o \in Ops
  PROVE  LET e == UnitEngine(m[o].s) IN
         /\ Occurs(Compute(o, m[o].s), GenerateCode(m)[e])
         /\ Occurs(Compute(o, m[o].s), Program(m)[e])
  BY DEF ProgramsAreDisciplined, Disciplined, ComputesOnce

LEMMA OptimizationsUnseen ==
  ASSUME ProgramsAreDisciplined, IInv, Optimizations
  PROVE  Unseen
<1>1. /\ TypeOK /\ NothingYet /\ mapping' = mapping
      /\ queue' = [e \in DOMAIN queue |->
                     IF e = Saver THEN queue[e] ELSE MergeActionsIntoMulticast(queue[e])]
      /\ operands' = operands /\ state' = state
  BY DEF Optimizations, IInv
<1>2. mapping \in Mappings /\ \A e \in Engines : queue[e] = GenerateCode(mapping)[e]
  BY <1>1 DEF TypeOK, NothingYet
<1>3. \A e \in Engines : queue'[e] = Program(mapping)[e]
  BY <1>1, SaverApart DEF TypeOK, NothingYet, Workers, Program
<1>4. \A o \in Ops : UnitEngine(mapping[o].s) \in Engines
  BY <1>2, UnitIsEngine
<1>5. Performed = {} /\ Performed' = {}
  BY <1>1, <1>2, <1>3, <1>4, NothingPerformed, PerformedIs
<1>6. ASSUME NEW p \in Points(Output) PROVE Sum(p)' = Sum(p)
  <2>1. InUse(p) = {} /\ Carriers(p) = {}
    BY <1>1, NothingCopied
  <2>2. InUse(p)' = {}
    BY <1>1, <2>1 DEF InUse
  <2>3. Carriers(p)' = {}
    BY <1>1 DEF NothingYet, Carriers, Workers
  <2> QED
    BY <2>1, <2>2, <2>3, SumIs
<1> QED
  BY <1>5, <1>6 DEF Unseen

LEMMA NextSeen ==
  ASSUME ProgramsAreDisciplined, IInv, [Next]_vars
  PROVE  Unseen \/ \E o \in Ops : Performs(o)
<1>1. TypeOK
  BY DEF IInv, Working
<1>2. ASSUME NEW e \in Engines, Run(e) PROVE Unseen
  BY <1>1, <1>2, RunKeeps, MainUnseen DEF Run
<1>3. ASSUME Wait PROVE Unseen
  BY <1>1, <1>3, WaitKeeps, MainUnseen DEF Wait
<1>4. ASSUME Complete \/ UNCHANGED vars PROVE Unseen
  <2>1. mapping' = mapping
    BY <1>4 DEF Complete, vars
  <2> QED
    BY <1>1, <1>4, <2>1, CompleteKeeps, MainUnseen
<1>5. ASSUME NEW e \in Workers, ProcessAction(e) PROVE Unseen \/ \E o \in Ops : Performs(o)
  <2>1. phase # "Optimizations" /\ Working
    BY <1>5, ProcessIs
  <2>2. PICK n : Reads(e, n) \/ Writes(e, n)
    BY <1>5, ProcessIs
  <2>3. \A p \in Points(Output) : Token(p)
    BY <2>1 DEF IInv
  <2> QED
    BY <2>1, <2>2, <2>3, ReadsUnseen, SaverWritesUnseen, EngineWritesSeen DEF Workers
<1>6. Terminating => UNCHANGED vars
  BY DEF Terminating
<1> QED
  BY <1>2, <1>3, <1>4, <1>5, <1>6, OptimizationsUnseen DEF Next, Workers

\* RunsAsReference, for any einsum and any number of engines.
THEOREM EmulationRefines == ASSUME ProgramsAreDisciplined PROVE Spec => RunsAsReference
<1>1. Init => Reference!InitReference
  <2> SUFFICES ASSUME Init PROVE Accumulated = [p \in Points(Output) |-> {}] /\ Performed = {}
    BY DEF Reference!InitReference
  <2>1. TypeOK /\ NothingYet
    BY InitIInv DEF IInv, Init
  <2>2. mapping \in Mappings /\ \A e \in Engines : queue[e] = GenerateCode(mapping)[e]
    BY <2>1 DEF TypeOK, NothingYet
  <2>3. \A o \in Ops : UnitEngine(mapping[o].s) \in Engines
    BY <2>2, UnitIsEngine
  <2>4. Performed = {}
    BY <2>2, <2>3, NothingPerformed, PerformedIs
  <2>5. \A p \in Points(Output) : Sum(p) = {}
    BY <2>1, NothingCopied, SumIs
  <2> QED
    BY <2>4, <2>5, ResultIs
<1>2. ASSUME IInv, [Next]_vars
      PROVE  [Reference!NextReference]_<<Accumulated, Performed>>
  <2>1. CASE Unseen
    <3>1. Accumulated' = Accumulated /\ Performed' = Performed
      BY <2>1, ResultIs DEF Unseen
    <3> QED
      BY <3>1
  <2>2. ASSUME NEW o \in Ops, Performs(o)
        PROVE  Reference!NextReference
    <3> DEFINE t == Projection[Output][o]
    <3>1. t \in Points(Output)
      BY DEF Points
    <3>2. Accumulated' = [Accumulated EXCEPT ![t] = @ \cup {Product[o]}]
      <4>1. /\ Accumulated = [p \in Points(Output) |-> Sum(p)]
            /\ Accumulated' = [p \in Points(Output) |-> Sum(p)']
        BY ResultIs
      <4>2. \A p \in Points(Output) : Sum(p)' = IF p = t THEN Sum(p) \cup {Product[o]} ELSE Sum(p)
        BY <2>2 DEF Performs
      <4> QED
        BY <3>1, <4>1, <4>2
    <3>3. Reference!Perform(o)
      BY <2>2, <3>2 DEF Performs, Reference!Perform
    <3> QED
      BY <3>3 DEF Reference!NextReference
  <2> QED
    BY <1>2, <2>1, <2>2, NextSeen
<1> QED
  BY <1>1, <1>2, EmulatorInvariant, PTL DEF Spec, RunsAsReference, Reference!SpecReference
=============================================================================
