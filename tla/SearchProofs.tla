---------------------------- MODULE SearchProofs ----------------------------
(***************************************************************************)
(* Proofs about the searches a factory constructs, for every number of     *)
(* factorizations, every pruned size and every number of bypass schemes.   *)
(*                                                                         *)
(* The linear search comes first.  Its invariants lean on each other in    *)
(* this order: the iterator stays in the space the mapspace is pruned for; *)
(* hence every step moves it forward and nothing ahead of it has been      *)
(* reported; hence eval_fail_count counts evaluation failures of the       *)
(* iterator's own LP and S only, and the two fast-forwards skip only what  *)
(* the reports rule out.  The hybrid and random_pruned searches walk parts *)
(* of the space by the same steps, so the same lemmas say what each of     *)
(* their walks has reported; random turns on its generator of schemes; the *)
(* exhaustive search takes the linear search's steps on an array.          *)
(***************************************************************************)
EXTENDS SearchFactory, FiniteSetTheorems, TLAPS

USE SizesAssumption DEF SizesAssumption

-----------------------------------------------------------------------------
\* Facts about IDs and their order.

LEMMA IdsMembers ==
  \A id : id \in Ids <=>
    /\ id \in [fac : Factorizations, perm : Nat, split : Nat, bypass : 0 .. DBSize - 1]
    /\ id.perm < LPSize[id.fac]
    /\ id.split < SSize[id.fac]
<1> TAKE id
<1>1. ASSUME id \in Ids
      PROVE  /\ id \in [fac : Factorizations, perm : Nat, split : Nat, bypass : 0 .. DBSize - 1]
             /\ id.perm < LPSize[id.fac]
             /\ id.split < SSize[id.fac]
  <2>1. PICK f \in Factorizations :
          id \in [fac : {f}, perm : 0 .. LPSize[f] - 1, split : 0 .. SSize[f] - 1,
                  bypass : 0 .. DBSize - 1]
    BY <1>1 DEF Ids
  <2> QED BY <2>1
<1>2. ASSUME id \in [fac : Factorizations, perm : Nat, split : Nat, bypass : 0 .. DBSize - 1],
             id.perm < LPSize[id.fac],
             id.split < SSize[id.fac]
      PROVE  id \in Ids
  <2> DEFINE f == id.fac
  <2>1. f \in Factorizations
    BY <1>2
  <2>2. id \in [fac : {f}, perm : 0 .. LPSize[f] - 1, split : 0 .. SSize[f] - 1,
                bypass : 0 .. DBSize - 1]
    BY <1>2, <2>1
  <2> QED BY <2>1, <2>2 DEF Ids
<1> QED BY <1>1, <1>2

LEMMA IdFields ==
  ASSUME NEW id \in Ids
  PROVE  /\ id = [fac |-> id.fac, perm |-> id.perm, split |-> id.split, bypass |-> id.bypass]
         /\ id.fac \in Int /\ 0 <= id.fac /\ id.fac < IFSize
         /\ id.perm \in Int /\ 0 <= id.perm /\ id.perm < LPSize[id.fac]
         /\ id.split \in Int /\ 0 <= id.split /\ id.split < SSize[id.fac]
         /\ id.bypass \in Int /\ 0 <= id.bypass /\ id.bypass < DBSize
         /\ LPSize[id.fac] \in Int /\ SSize[id.fac] \in Int
<1>1. /\ id \in [fac : Factorizations, perm : Nat, split : Nat, bypass : 0 .. DBSize - 1]
      /\ id.perm < LPSize[id.fac]
      /\ id.split < SSize[id.fac]
  BY IdsMembers
<1>2. id = [fac |-> id.fac, perm |-> id.perm, split |-> id.split, bypass |-> id.bypass]
  BY <1>1
<1>3. /\ id.fac \in 0 .. IFSize - 1
      /\ id.perm \in Nat /\ id.split \in Nat /\ id.bypass \in 0 .. DBSize - 1
  BY <1>1 DEF Factorizations
<1>4. LPSize[id.fac] \in Nat /\ SSize[id.fac] \in Nat
  BY <1>3 DEF Factorizations
<1> QED BY <1>1, <1>2, <1>3, <1>4

LEMMA BeforeTransitive ==
  ASSUME NEW a \in Ids, NEW b \in Ids, NEW c \in Ids, Before(a, b), Before(b, c)
  PROVE  Before(a, c)
BY IdFields DEF Before

LEMMA BeforeTotal ==
  ASSUME NEW a \in Ids, NEW b \in Ids
  PROVE  /\ a # b => Before(a, b) \/ Before(b, a)
         /\ ~Before(a, a)
<1> /\ a = [fac |-> a.fac, perm |-> a.perm, split |-> a.split, bypass |-> a.bypass]
    /\ b = [fac |-> b.fac, perm |-> b.perm, split |-> b.split, bypass |-> b.bypass]
    /\ a.fac \in Int /\ a.perm \in Int /\ a.split \in Int /\ a.bypass \in Int
    /\ b.fac \in Int /\ b.perm \in Int /\ b.split \in Int /\ b.bypass \in Int
  BY IdFields
<1> QED BY DEF Before

LEMMA IdBuild ==
  ASSUME NEW f \in Int, NEW p \in Int, NEW s \in Int, NEW b \in Int,
         0 <= f, f < IFSize, 0 <= p, p < LPSize[f], 0 <= s, s < SSize[f], 0 <= b, b < DBSize
  PROVE  [fac |-> f, perm |-> p, split |-> s, bypass |-> b] \in Ids
<1> DEFINE id == [fac |-> f, perm |-> p, split |-> s, bypass |-> b]
<1>1. f \in Factorizations /\ b \in 0 .. DBSize - 1 /\ p \in Nat /\ s \in Nat
  BY DEF Factorizations
<1>2. id \in [fac : Factorizations, perm : Nat, split : Nat, bypass : 0 .. DBSize - 1]
  BY <1>1
<1>3. id.perm < LPSize[id.fac] /\ id.split < SSize[id.fac]
  OBVIOUS
<1> HIDE DEF id
<1>4. id \in Ids
  BY <1>2, <1>3, IdsMembers
<1> QED BY <1>4 DEF id

\* Stepping from an ID of the current pruning either ends the search at the
\* last ID or moves to the ID that follows in the order, pruned for its IF.
LEMMA IncrementIsSuccessor ==
  ASSUME NEW it \in Ids, pruned = it.fac, IncrementRecursive(it)
  PROVE  /\ state' \in {"Ready", "Terminated"}
         /\ iterator' \in [fac : Nat, perm : Nat, split : Nat, bypass : Nat]
         /\ pruned' \in Nat
         /\ state' = "Ready" =>
              /\ iterator' \in Ids
              /\ pruned' = iterator'.fac
              /\ Before(it, iterator')
              /\ \A id \in Ids : Before(it, id) => ~Before(id, iterator')
         /\ state' = "Terminated" => \A id \in Ids : ~Before(it, id)
<1> DEFINE f == it.fac  p == it.perm  s == it.split  b == it.bypass
<1>1. /\ it = [fac |-> f, perm |-> p, split |-> s, bypass |-> b]
      /\ f \in Int /\ 0 <= f /\ f < IFSize
      /\ p \in Int /\ 0 <= p /\ p < LPSize[f]
      /\ s \in Int /\ 0 <= s /\ s < SSize[f]
      /\ b \in Int /\ 0 <= b /\ b < DBSize
      /\ LPSize[f] \in Int /\ SSize[f] \in Int
  BY IdFields
<1>2. CASE MoveBypass(it)
  <2>1. iterator' = [fac |-> f, perm |-> p, split |-> s, bypass |-> b + 1]
    BY <1>1, <1>2 DEF MoveBypass
  <2>2. iterator' \in Ids
    BY <1>1, <1>2, <2>1, IdBuild DEF MoveBypass
  <2>3. Before(it, iterator') /\ \A id \in Ids : Before(it, id) => ~Before(id, iterator')
    BY <1>1, <2>1, IdFields DEF Before
  <2> QED BY <1>1, <1>2, <2>1, <2>2, <2>3 DEF MoveBypass
<1>3. CASE MoveSplit(it)
  <2>1. iterator' = [fac |-> f, perm |-> p, split |-> s + 1, bypass |-> 0]
    BY <1>1, <1>3 DEF MoveSplit
  <2>2. iterator' \in Ids
    <3>1. s + 1 \in Int /\ 0 <= s + 1 /\ s + 1 < SSize[f] /\ 0 \in Int /\ 0 < DBSize
      BY <1>1, <1>3 DEF MoveSplit
    <3>2. [fac |-> f, perm |-> p, split |-> s + 1, bypass |-> 0] \in Ids
      BY ONLY <1>1, <3>1, IdBuild
    <3> QED BY <2>1, <3>2
  <2>3. b + 1 = DBSize
    BY <1>1, <1>3 DEF MoveSplit
  <2>4. Before(it, iterator') /\ \A id \in Ids : Before(it, id) => ~Before(id, iterator')
    BY <1>1, <2>1, <2>3, IdFields DEF Before
  <2> QED BY <1>1, <1>3, <2>1, <2>2, <2>4 DEF MoveSplit
<1>4. CASE MovePerm(it)
  <2>1. iterator' = [fac |-> f, perm |-> p + 1, split |-> 0, bypass |-> 0]
    BY <1>1, <1>4 DEF MovePerm
  <2>2. iterator' \in Ids
    <3>1. p + 1 \in Int /\ 0 <= p + 1 /\ p + 1 < LPSize[f] /\ 0 \in Int /\ 0 < DBSize /\ 0 < SSize[f]
      BY <1>1, <1>4 DEF MovePerm
    <3>2. [fac |-> f, perm |-> p + 1, split |-> 0, bypass |-> 0] \in Ids
      BY ONLY <1>1, <3>1, IdBuild
    <3> QED BY <2>1, <3>2
  <2>3. b + 1 = DBSize /\ s + 1 = SSize[f]
    BY <1>1, <1>4 DEF MovePerm
  <2>4. Before(it, iterator') /\ \A id \in Ids : Before(it, id) => ~Before(id, iterator')
    BY <1>1, <2>1, <2>3, IdFields DEF Before
  <2> QED BY <1>1, <1>4, <2>1, <2>2, <2>4 DEF MovePerm
<1>5. CASE MoveFac(it)
  <2>1. iterator' = [fac |-> f + 1, perm |-> 0, split |-> 0, bypass |-> 0]
    BY <1>5 DEF MoveFac
  <2>2. LPSize[f + 1] \in Nat \ {0} /\ SSize[f + 1] \in Nat \ {0}
    BY <1>1, <1>5 DEF MoveFac, Factorizations
  <2>3. iterator' \in Ids
    BY <1>1, <1>5, <2>1, <2>2, IdBuild DEF MoveFac
  <2>4. b + 1 = DBSize /\ s + 1 = SSize[f] /\ p + 1 = LPSize[f]
    BY <1>1, <1>5 DEF MoveFac, Carries
  <2>5. Before(it, iterator') /\ \A id \in Ids : Before(it, id) => ~Before(id, iterator')
    BY <1>1, <2>1, <2>4, IdFields DEF Before
  <2> QED BY <1>1, <1>5, <2>1, <2>3, <2>5 DEF MoveFac
<1>6. CASE Overflow(it)
  <2>1. iterator' = [fac |-> f, perm |-> 0, split |-> 0, bypass |-> 0]
    BY <1>1, <1>6 DEF Overflow
  <2>2. b + 1 = DBSize /\ s + 1 = SSize[f] /\ p + 1 = LPSize[f] /\ f + 1 = IFSize
    BY <1>1, <1>6 DEF Overflow, Carries
  <2>3. \A id \in Ids : ~Before(it, id)
    BY <1>1, <2>2, IdFields DEF Before
  <2> QED BY <1>1, <1>6, <2>1, <2>3 DEF Overflow
<1> QED BY <1>2, <1>3, <1>4, <1>5, <1>6 DEF IncrementRecursive

SkipsFactorization(status) == AtLastBypass /\ EvalFails(status) = DBSize

\* The four coordinates a fast-forward leads to.
LEMMA FastForwardFields ==
  ASSUME iterator \in Ids, NEW status
  PROVE  /\ FastForward(status).fac = iterator.fac
         /\ FastForward(status).perm =
              IF SkipsFactorization(status) THEN LPSize[pruned] - 1 ELSE iterator.perm
         /\ FastForward(status).split =
              IF SkipsFactorization(status) THEN SSize[pruned] - 1 ELSE iterator.split
         /\ FastForward(status).bypass =
              IF status = "MappingConstructionFailure" THEN DBSize - 1 ELSE iterator.bypass
         /\ FastForward(status) =
              [fac |-> FastForward(status).fac, perm |-> FastForward(status).perm,
               split |-> FastForward(status).split, bypass |-> FastForward(status).bypass]
<1> DEFINE p2 == IF SkipsFactorization(status) THEN LPSize[pruned] - 1 ELSE iterator.perm
           s2 == IF SkipsFactorization(status) THEN SSize[pruned] - 1 ELSE iterator.split
           b2 == IF status = "MappingConstructionFailure" THEN DBSize - 1 ELSE iterator.bypass
<1>1. FastForward(status) = [iterator EXCEPT !.perm = p2, !.split = s2, !.bypass = b2]
  BY DEF FastForward, SkipsFactorization
<1>2. iterator \in [fac : Int, perm : Int, split : Int, bypass : Int]
  BY IdFields
<1> HIDE DEF p2, s2, b2
<1>3. FastForward(status) = [fac |-> iterator.fac, perm |-> p2, split |-> s2, bypass |-> b2]
  BY <1>1, <1>2
<1> QED BY <1>3 DEF p2, s2, b2

\* A fast-forward stays inside the factorization and never moves back.
LEMMA FastForwardInSpace ==
  ASSUME iterator \in Ids, pruned = iterator.fac, NEW status \in Status
  PROVE  /\ FastForward(status) \in Ids
         /\ FastForward(status).fac = iterator.fac
         /\ FastForward(status) = iterator \/ Before(iterator, FastForward(status))
<1> DEFINE f == iterator.fac  p == iterator.perm  s == iterator.split  b == iterator.bypass
           p2 == FastForward(status).perm
           s2 == FastForward(status).split
           b2 == FastForward(status).bypass
<1>1. /\ iterator = [fac |-> f, perm |-> p, split |-> s, bypass |-> b]
      /\ f \in Int /\ 0 <= f /\ f < IFSize
      /\ p \in Int /\ 0 <= p /\ p < LPSize[f]
      /\ s \in Int /\ 0 <= s /\ s < SSize[f]
      /\ b \in Int /\ 0 <= b /\ b < DBSize
      /\ LPSize[f] \in Int /\ SSize[f] \in Int
  BY IdFields
<1>2. FastForward(status) = [fac |-> f, perm |-> p2, split |-> s2, bypass |-> b2]
  BY FastForwardFields
<1>3. /\ p2 \in Int /\ p <= p2 /\ p2 < LPSize[f]
      /\ s2 \in Int /\ s <= s2 /\ s2 < SSize[f]
      /\ b2 \in Int /\ b <= b2 /\ b2 < DBSize
  BY <1>1, FastForwardFields
<1> HIDE DEF p2, s2, b2
<1>4. FastForward(status) \in Ids
  <2>1. 0 <= p2 /\ 0 <= s2 /\ 0 <= b2
    BY <1>1, <1>3
  <2>2. [fac |-> f, perm |-> p2, split |-> s2, bypass |-> b2] \in Ids
    BY ONLY <1>1, <1>3, <2>1, IdBuild
  <2> QED BY <1>2, <2>2
<1>5. /\ FastForward(status).fac = f /\ FastForward(status).perm = p2
      /\ FastForward(status).split = s2 /\ FastForward(status).bypass = b2
  BY <1>2
<1>6. FastForward(status) = iterator \/ Before(iterator, FastForward(status))
  <2>1. CASE p2 = p /\ s2 = s /\ b2 = b
    BY <1>1, <1>2, <2>1
  <2>2. CASE ~(p2 = p /\ s2 = s /\ b2 = b)
    BY <1>1, <1>3, <1>5, <2>2 DEF Before
  <2> QED BY <2>1, <2>2
<1> QED BY <1>4, <1>5, <1>6

-----------------------------------------------------------------------------
\* Typing, and the iterator's place in the pruned space.

InSpace == TypeOK /\ IteratorInPrunedSpace

LEMMA InitInSpace == Init => InSpace
<1> SUFFICES ASSUME Init PROVE InSpace
  OBVIOUS
<1>1. TypeOK
  BY DEF Init, TypeOK
<1>2. ASSUME state # "Terminated" PROVE iterator \in Ids /\ pruned = iterator.fac
  <2>1. 0 < IFSize /\ IFSize \in Int /\ DBSize \in Int /\ 0 < DBSize
    BY <1>2 DEF Init
  <2>2. 0 < LPSize[0] /\ 0 < SSize[0]
    BY <2>1 DEF Factorizations
  <2>3. [fac |-> 0, perm |-> 0, split |-> 0, bypass |-> 0] \in Ids
    BY <2>1, <2>2, IdBuild
  <2> QED BY <2>3 DEF Init
<1> QED BY <1>1, <1>2 DEF InSpace, IteratorInPrunedSpace

\* One Report: the fast-forwarded iterator moves to its successor.
LEMMA ReportStep ==
  ASSUME InSpace, NEW status \in Status, Report(status)
  PROVE  /\ state = "WaitingForStatus" /\ iterator \in Ids /\ pruned = iterator.fac
         /\ FastForward(status) \in Ids /\ pruned = FastForward(status).fac
         /\ FastForward(status) = iterator \/ Before(iterator, FastForward(status))
         /\ IncrementRecursive(FastForward(status))
         /\ InSpace'
         /\ state' \in {"Ready", "Terminated"}
         /\ state' = "Ready" => Before(iterator, iterator')
<1>1. state = "WaitingForStatus" /\ iterator \in Ids /\ pruned = iterator.fac
  BY DEF Report, InSpace, IteratorInPrunedSpace
<1>2. /\ FastForward(status) \in Ids
      /\ pruned = FastForward(status).fac
      /\ FastForward(status) = iterator \/ Before(iterator, FastForward(status))
  BY <1>1, FastForwardInSpace
<1>3. IncrementRecursive(FastForward(status))
  BY DEF Report
<1>4. /\ state' \in {"Ready", "Terminated"}
      /\ iterator' \in [fac : Nat, perm : Nat, split : Nat, bypass : Nat]
      /\ pruned' \in Nat
      /\ state' = "Ready" =>
           iterator' \in Ids /\ pruned' = iterator'.fac /\ Before(FastForward(status), iterator')
  BY <1>2, <1>3, IncrementIsSuccessor
<1>5. eval_fail_count' \in Nat /\ reported' \in [Ids -> Status \cup {NotReported}]
  BY <1>1 DEF Report, InSpace, TypeOK, EvalFails
<1>6. InSpace'
  BY <1>4, <1>5 DEF InSpace, TypeOK, IteratorInPrunedSpace
<1>7. state' = "Ready" => Before(iterator, iterator')
  BY <1>1, <1>2, <1>4, BeforeTransitive
<1> QED BY <1>1, <1>2, <1>3, <1>4, <1>6, <1>7

LEMMA NextInSpace == InSpace /\ [Next]_vars => InSpace'
<1> SUFFICES ASSUME InSpace, [Next]_vars PROVE InSpace'
  OBVIOUS
<1>1. CASE NextId
  BY <1>1 DEF NextId, InSpace, TypeOK, IteratorInPrunedSpace
<1>2. ASSUME NEW status \in Status, Report(status) PROVE InSpace'
  BY <1>2, ReportStep
<1>3. CASE Done \/ UNCHANGED vars
  BY <1>3 DEF Done, vars, InSpace, TypeOK, IteratorInPrunedSpace
<1> QED BY <1>1, <1>2, <1>3 DEF Next

\* The search keeps its state well typed.
THEOREM TypeCorrect == Spec => []TypeOK
<1>1. Spec => []InSpace
  BY InitInSpace, NextInSpace, PTL DEF Spec
<1>2. InSpace => TypeOK
  BY DEF InSpace
<1> QED BY <1>1, <1>2, PTL

\* However large the pruned sub-mapspaces, a live search stands inside the
\* one the mapspace is pruned for (IncrementRecursive_ calls InitPruned with
\* every change of factorization, Report fast-forwards with current sizes).
THEOREM StaysInPrunedSpace == Spec => []IteratorInPrunedSpace
<1>1. Spec => []InSpace
  BY InitInSpace, NextInSpace, PTL DEF Spec
<1>2. InSpace => IteratorInPrunedSpace
  BY DEF InSpace
<1> QED BY <1>1, <1>2, PTL

-----------------------------------------------------------------------------
\* No mapping is handed out twice.

Forward == InSpace /\ NoRevisit

LEMMA NextForward == Forward /\ [Next]_vars => Forward'
<1> SUFFICES ASSUME Forward, [Next]_vars PROVE Forward'
  OBVIOUS
<1>0. InSpace'
  BY NextInSpace DEF Forward
<1>1. CASE NextId
  BY <1>0, <1>1 DEF NextId, Forward, NoRevisit, Before, InSpace, TypeOK
<1>2. ASSUME NEW status \in Status, Report(status) PROVE NoRevisit'
  <2> SUFFICES ASSUME state' # "Terminated", NEW id \in Ids, reported'[id] # NotReported
               PROVE  Before(id, iterator')
    BY DEF NoRevisit, Before
  <2>1. iterator \in Ids /\ Before(iterator, iterator') /\ iterator' \in Ids
        /\ state = "WaitingForStatus"
    BY <1>0, <1>2, ReportStep DEF Forward, InSpace, IteratorInPrunedSpace
  <2>2. CASE id = iterator
    BY <2>1, <2>2
  <2>3. CASE id # iterator
    <3>1. reported'[id] = reported[id]
      BY <1>2, <2>3 DEF Report, Forward, InSpace, TypeOK
    <3>2. Before(id, iterator)
      BY <2>1, <3>1 DEF Forward, NoRevisit
    <3> QED BY <2>1, <3>2, BeforeTransitive
  <2> QED BY <2>2, <2>3
<1>3. CASE Done \/ UNCHANGED vars
  BY <1>0, <1>3 DEF Done, vars, Forward, NoRevisit, Before
<1> QED BY <1>0, <1>1, <1>2, <1>3 DEF Next, Forward

\* Whatever statuses come back and whatever is skipped, every report is for
\* an ID strictly before the iterator: no mapping is evaluated twice.
THEOREM NeverRevisits == Spec => []NoRevisit
<1>1. Init => Forward
  BY InitInSpace DEF Init, Forward, NoRevisit
<1>2. Spec => []Forward
  BY <1>1, NextForward, PTL DEF Spec
<1>3. Forward => NoRevisit
  BY DEF Forward
<1> QED BY <1>2, <1>3, PTL

-----------------------------------------------------------------------------
\* What is skipped was ruled out.

Accounted == Forward /\ FailuresCounted /\ SkipsJustified

\* What Report does before it moves on, which the walks share.
Records(status) ==
  /\ state = "WaitingForStatus"
  /\ BypassBlind(status)
  /\ reported' = [reported EXCEPT ![iterator] = status]

\* The status reported is a construction failure only for bypass 0.
LEMMA ConstructionFailsFirst ==
  ASSUME Forward, FailuresCounted, Records("MappingConstructionFailure")
  PROVE  iterator.bypass = 0
<1>1. iterator \in Ids /\ state = "WaitingForStatus"
  BY DEF Records, Forward, InSpace, IteratorInPrunedSpace
<1> DEFINE first == [fac |-> iterator.fac, perm |-> iterator.perm,
                     split |-> iterator.split, bypass |-> 0]
<1>2. first \in Ids
  <2>1. /\ iterator.fac \in Int /\ 0 <= iterator.fac /\ iterator.fac < IFSize
        /\ iterator.perm \in Int /\ 0 <= iterator.perm /\ iterator.perm < LPSize[iterator.fac]
        /\ iterator.split \in Int /\ 0 <= iterator.split /\ iterator.split < SSize[iterator.fac]
        /\ 0 \in Int /\ 0 < DBSize
    BY <1>1, IdFields
  <2> QED BY ONLY <2>1, IdBuild
<1>3. SUFFICES ASSUME iterator.bypass # 0 PROVE FALSE
  OBVIOUS
<1>4. SameSpace(first, iterator) /\ first.bypass < iterator.bypass
  BY <1>1, <1>3, IdFields DEF SameSpace
<1>5. reported[first] \in {"Success", "EvalFailure"}
  BY <1>1, <1>2, <1>4 DEF FailuresCounted
<1>6. /\ first.fac = iterator.fac /\ first.perm = iterator.perm /\ first.split = iterator.split
      /\ reported[first] # NotReported
      /\ reported[first] # "MappingConstructionFailure"
  BY <1>5 DEF NotReported
<1>7. BypassBlind("MappingConstructionFailure")
  BY DEF Records
<1> HIDE DEF first
<1> QED BY <1>2, <1>6, <1>7 DEF BypassBlind

\* The history grows at the iterator only, which had no report yet.
LEMMA HistoryGrows ==
  ASSUME Forward, NEW status \in Status, Records(status)
  PROVE  /\ iterator \in Ids
         /\ reported[iterator] = NotReported
         /\ reported'[iterator] = status
         /\ \A id \in Ids : id # iterator => reported'[id] = reported[id]
         /\ \A id \in Ids : reported[id] # NotReported => reported'[id] = reported[id]
<1>1. iterator \in Ids /\ state = "WaitingForStatus"
  BY DEF Records, Forward, InSpace, IteratorInPrunedSpace
<1>2. reported[iterator] = NotReported
  BY <1>1, BeforeTotal DEF Forward, NoRevisit
<1> QED BY <1>1, <1>2 DEF Records, Forward, InSpace, TypeOK

\* Behind the last bypass scheme the count is 0.
LEMMA CountStartsAnew ==
  ASSUME Forward, FailuresCounted, NEW status \in Status, Records(status),
         FastForward(status).bypass + 1 >= DBSize
  PROVE  (IF AtLastBypass THEN 0 ELSE EvalFails(status)) = 0
<1>1. iterator \in Ids /\ eval_fail_count \in Nat /\ eval_fail_count <= iterator.bypass
  BY DEF Records, Forward, InSpace, TypeOK, IteratorInPrunedSpace, FailuresCounted
<1>2. CASE ~AtLastBypass
  <2>1. status = "MappingConstructionFailure"
    BY <1>1, <1>2, IdFields, FastForwardFields DEF AtLastBypass
  <2>2. iterator.bypass = 0
    BY <2>1, ConstructionFailsFirst
  <2> QED BY <1>1, <1>2, <2>1, <2>2 DEF EvalFails
<1> QED BY <1>2

LEMMA NextCounted ==
  ASSUME Forward, FailuresCounted, NEW status \in Status, Report(status)
  PROVE  FailuresCounted'
<1>0. Records(status)
  BY DEF Report, Records
<1>1. SUFFICES ASSUME state' # "Terminated" PROVE FailuresCounted'
  BY DEF FailuresCounted
<1>2. /\ state = "WaitingForStatus" /\ iterator \in Ids /\ pruned = iterator.fac
      /\ iterator' \in Ids
  BY <1>1, ReportStep DEF Forward, InSpace, IteratorInPrunedSpace
<1>3. /\ eval_fail_count \in Nat /\ eval_fail_count <= iterator.bypass
      /\ eval_fail_count' = IF AtLastBypass THEN 0 ELSE EvalFails(status)
  BY <1>2 DEF Report, FailuresCounted, Forward, InSpace, TypeOK
<1>4. /\ iterator.bypass \in Int /\ 0 <= iterator.bypass /\ iterator.bypass < DBSize
      /\ iterator'.bypass \in Int /\ 0 <= iterator'.bypass
  BY <1>2, IdFields
<1>5. CASE MoveBypass(FastForward(status))
  <2>1. ~AtLastBypass /\ status # "MappingConstructionFailure"
    <3>1. FastForward(status).bypass + 1 < DBSize
      BY <1>5 DEF MoveBypass
    <3>2. FastForward(status).bypass =
            IF status = "MappingConstructionFailure" THEN DBSize - 1 ELSE iterator.bypass
      BY <1>2, FastForwardFields
    <3> QED BY <3>1, <3>2, <1>4 DEF AtLastBypass
  <2>2. FastForward(status) = iterator
    BY <1>2, <2>1, IdFields, FastForwardFields DEF SkipsFactorization
  <2>3. iterator' = [iterator EXCEPT !.bypass = @ + 1]
    BY <1>5, <2>2 DEF MoveBypass
  <2>4. /\ iterator'.bypass = iterator.bypass + 1
        /\ iterator'.fac = iterator.fac /\ iterator'.perm = iterator.perm
        /\ iterator'.split = iterator.split
    BY <1>2, <2>3, IdFields
  <2>5. eval_fail_count' = EvalFails(status) /\ eval_fail_count' <= iterator'.bypass
    BY <1>3, <1>4, <2>1, <2>4 DEF EvalFails
  <2>6. ASSUME NEW id \in Ids, SameSpace(id, iterator'), id.bypass < iterator'.bypass
        PROVE  /\ reported'[id] \in {"Success", "EvalFailure"}
               /\ eval_fail_count' = iterator'.bypass => reported'[id] = "EvalFailure"
    <3>1. CASE id.bypass = iterator.bypass
      <4>1. id = iterator
        BY <1>2, <2>4, <2>6, <3>1, IdFields DEF SameSpace
      <4>2. reported'[id] = status
        BY <1>0, <4>1, HistoryGrows
      <4> QED BY <1>3, <1>4, <2>1, <2>4, <2>5, <4>2 DEF Status, EvalFails
    <3>2. CASE id.bypass # iterator.bypass
      <4>1. SameSpace(id, iterator) /\ id.bypass < iterator.bypass
        BY <1>4, <2>4, <2>6, <3>2, IdFields DEF SameSpace
      <4>2. /\ reported[id] \in {"Success", "EvalFailure"}
            /\ eval_fail_count = iterator.bypass => reported[id] = "EvalFailure"
        BY <1>2, <4>1 DEF FailuresCounted
      <4>3. reported'[id] = reported[id]
        BY <1>0, <4>2, HistoryGrows DEF NotReported
      <4> QED BY <1>3, <1>4, <2>4, <2>5, <4>2, <4>3 DEF EvalFails
    <3> QED BY <3>1, <3>2
  <2> QED BY <2>5, <2>6 DEF FailuresCounted, SameSpace
<1>6. CASE ~MoveBypass(FastForward(status))
  <2>1. IncrementRecursive(FastForward(status))
    BY ReportStep DEF Forward
  <2>2. iterator'.bypass = 0 /\ FastForward(status).bypass + 1 >= DBSize
    <3> DEFINE ff == FastForward(status)
    <3>1. ff \in Ids
      BY ReportStep DEF Forward
    <3>2. ff \in [fac : Int, perm : Int, split : Int, bypass : Int]
      BY <3>1, IdFields
    <3>3. MoveSplit(ff) \/ MovePerm(ff) \/ MoveFac(ff)
      BY <1>1, <1>6, <2>1 DEF IncrementRecursive, Overflow
    <3> HIDE DEF ff
    <3>4. iterator'.bypass = 0 /\ ff.bypass + 1 >= DBSize
      <4>1. CASE MoveSplit(ff)
        BY <3>2, <4>1 DEF MoveSplit
      <4>2. CASE MovePerm(ff)
        BY <3>2, <4>2 DEF MovePerm
      <4>3. CASE MoveFac(ff)
        BY <4>3 DEF MoveFac, Carries
      <4> QED BY <3>3, <4>1, <4>2, <4>3
    <3> QED BY <3>4 DEF ff
  <2>3. eval_fail_count' = 0
    BY <1>0, <1>3, <2>2, CountStartsAnew
  <2> QED BY <2>2, <2>3, IdFields DEF FailuresCounted
<1> QED BY <1>5, <1>6

\* A fast-forward passes only what the reports rule out.
LEMMA SkippedIsBad ==
  ASSUME Forward, FailuresCounted, NEW status \in Status, Records(status),
         NEW id \in Ids, Before(iterator, id), ~Before(FastForward(status), id)
  PROVE  ConstructionBad(id)' \/ FactorizationBad(id.fac)'
<1> DEFINE ff == FastForward(status)
<1>1. /\ state = "WaitingForStatus" /\ iterator \in Ids /\ pruned = iterator.fac
      /\ ff \in Ids
      /\ ff = iterator \/ Before(iterator, ff)
  BY FastForwardInSpace DEF Records, Forward, InSpace, IteratorInPrunedSpace
<1>2. CASE status = "MappingConstructionFailure"
  <2>1. iterator.bypass = 0
    BY <1>2, ConstructionFailsFirst
  <2>2. eval_fail_count = 0
    BY <1>1, <2>1 DEF FailuresCounted, Forward, InSpace, TypeOK
  <2>3. /\ ff.fac = iterator.fac /\ ff.perm = iterator.perm /\ ff.split = iterator.split
        /\ ff.bypass = DBSize - 1
    BY <1>1, <1>2, <2>2, FastForwardFields DEF SkipsFactorization, EvalFails
  <2>4. SameSpace(iterator, id)
    BY <1>1, <2>3, IdFields DEF SameSpace, Before
  <2>5. reported'[iterator] = "MappingConstructionFailure"
    BY <1>2, HistoryGrows
  <2> QED BY <1>1, <2>4, <2>5 DEF ConstructionBad, SameSpace
<1>3. CASE status # "MappingConstructionFailure"
  <2>1. AtLastBypass /\ EvalFails(status) = DBSize
    BY <1>1, <1>3, IdFields, FastForwardFields DEF SkipsFactorization
  <2>2. status = "EvalFailure" /\ eval_fail_count = iterator.bypass
    BY <1>1, <2>1, IdFields DEF EvalFails, AtLastBypass, FailuresCounted, Forward, InSpace, TypeOK
  <2>3. \A o \in Ids : SameSpace(o, iterator) => reported'[o] = "EvalFailure"
    <3> TAKE o \in Ids
    <3> HAVE SameSpace(o, iterator)
    <3>1. CASE o.bypass = iterator.bypass
      BY <1>1, <2>2, <3>1, IdFields, HistoryGrows DEF SameSpace
    <3>2. CASE o.bypass # iterator.bypass
      <4>1. o.bypass < iterator.bypass
        BY <1>1, <2>1, <3>2, IdFields DEF AtLastBypass
      <4>2. reported[o] = "EvalFailure"
        BY <1>1, <2>2, <4>1 DEF FailuresCounted
      <4> QED BY <4>2, HistoryGrows DEF NotReported
    <3> QED BY <3>1, <3>2
  <2>4. id.fac = iterator.fac
    <3>1. ff.fac = iterator.fac
      BY <1>1, FastForwardFields
    <3> QED BY <1>1, <3>1, IdFields DEF Before
  <2> QED BY <1>1, <2>3, <2>4 DEF FactorizationBad, SameSpace
<1> QED BY <1>2, <1>3

\* What is ruled out stays so.
LEMMA BadStaysBad ==
  ASSUME Forward, NEW status \in Status, Records(status), NEW id \in Ids,
         ConstructionBad(id) \/ FactorizationBad(id.fac)
  PROVE  ConstructionBad(id)' \/ FactorizationBad(id.fac)'
<1>1. ConstructionBad(id) => ConstructionBad(id)'
  BY HistoryGrows DEF ConstructionBad, SameSpace, NotReported
<1>2. FactorizationBad(id.fac) => FactorizationBad(id.fac)'
  BY HistoryGrows DEF FactorizationBad, SameSpace, NotReported
<1> QED BY <1>1, <1>2

LEMMA NextJustified ==
  ASSUME Accounted, NEW status \in Status, Report(status)
  PROVE  SkipsJustified'
<1> USE DEF Accounted
<1>0. Records(status)
  BY DEF Report, Records
<1>1. SUFFICES ASSUME NEW id \in Ids, Passed(id)', reported'[id] = NotReported
               PROVE  ConstructionBad(id)' \/ FactorizationBad(id.fac)'
  BY DEF SkipsJustified, Passed, ConstructionBad, FactorizationBad
<1>2. iterator \in Ids /\ state = "WaitingForStatus" /\ id # iterator /\ reported[id] = NotReported
  BY <1>0, <1>1, HistoryGrows DEF Status, NotReported, Records
<1>3. CASE Before(id, iterator)
  <2>1. ConstructionBad(id) \/ FactorizationBad(id.fac)
    BY <1>2, <1>3 DEF SkipsJustified, Passed
  <2> QED BY <1>0, <2>1, BadStaysBad
<1>4. CASE Before(iterator, id)
  <2>1. ~Before(FastForward(status), id)
    <3>1. /\ IncrementRecursive(FastForward(status))
          /\ FastForward(status) \in Ids /\ pruned = FastForward(status).fac
      BY ReportStep DEF Forward
    <3> QED BY <1>1, <3>1, IncrementIsSuccessor DEF Passed
  <2> QED BY <1>0, <1>4, <2>1, SkippedIsBad
<1> QED BY <1>2, <1>3, <1>4, BeforeTotal

LEMMA InitAccounted == Init => Accounted
<1> SUFFICES ASSUME Init PROVE Accounted
  OBVIOUS
<1>1. Forward
  BY InitInSpace DEF Init, Forward, NoRevisit
<1>2. FailuresCounted
  BY IdFields DEF Init, FailuresCounted
<1>3. SkipsJustified
  BY IdFields DEF Init, SkipsJustified, Passed, Before
<1> QED BY <1>1, <1>2, <1>3 DEF Accounted

LEMMA NextAccounted == Accounted /\ [Next]_vars => Accounted'
<1> SUFFICES ASSUME Accounted, [Next]_vars PROVE Accounted'
  OBVIOUS
<1>0. Forward'
  BY NextForward DEF Accounted
<1>1. CASE NextId
  BY <1>0, <1>1 DEF NextId, Accounted, FailuresCounted, SkipsJustified, Passed, Before,
                    ConstructionBad, FactorizationBad, SameSpace
<1>2. ASSUME NEW status \in Status, Report(status) PROVE Accounted'
  BY <1>0, <1>2, NextCounted, NextJustified DEF Accounted
<1>3. CASE Done \/ UNCHANGED vars
  BY <1>0, <1>3 DEF Done, vars, Accounted, FailuresCounted, SkipsJustified, Passed, Before,
                    ConstructionBad, FactorizationBad, SameSpace
<1> QED BY <1>1, <1>2, <1>3 DEF Next

\* eval_fail_count_ never carries failures from one LP, S into the next.
THEOREM CountsOwnFailures == Spec => []FailuresCounted
<1>1. Spec => []Accounted
  BY InitAccounted, NextAccounted, PTL DEF Spec
<1>2. Accounted => FailuresCounted
  BY DEF Accounted
<1> QED BY <1>1, <1>2, PTL

\* No legal mapping is lost: every ID passed over is a bypass variant of a
\* failed construction, or of a factorization some LP, S of which failed
\* evaluation under every bypass.
THEOREM SkipsAreJustified == Spec => []SkipsJustified
<1>1. Spec => []Accounted
  BY InitAccounted, NextAccounted, PTL DEF Spec
<1>2. Accounted => SkipsJustified
  BY DEF Accounted
<1> QED BY <1>1, <1>2, PTL

-----------------------------------------------------------------------------
\* The linear search implements the contract of SearchAlgorithm.

LEMMA StepKeepsContract == Forward /\ [Next]_vars => [Contract!Next]_(Contract!vars)
<1> SUFFICES ASSUME Forward, [Next]_vars PROVE [Contract!Next]_(Contract!vars)
  OBVIOUS
<1>1. CASE NextId
  <2>1. iterator \in Ids \ Visited
    BY <1>1, BeforeTotal DEF NextId, Forward, InSpace, IteratorInPrunedSpace, NoRevisit, Visited
  <2>2. Visited' = Visited \cup {iterator}
    BY <1>1 DEF NextId, Visited
  <2>3. Contract!NextId
    BY <1>1, <2>1, <2>2 DEF NextId, Contract!NextId
  <2> QED BY <2>3 DEF Contract!Next
<1>2. ASSUME NEW status \in Status, Report(status) PROVE Contract!Report
  <2>1. state = "WaitingForStatus" /\ state' \in {"Ready", "Terminated"} /\ iterator \in Ids
    BY <1>2, ReportStep DEF Forward
  <2>2. /\ reported'[iterator] # NotReported
        /\ \A id \in Ids : id # iterator => reported'[id] = reported[id]
    BY <1>2, HistoryGrows DEF Status, NotReported, Report, Records
  <2>3. Visited' = Visited
    BY <2>1, <2>2 DEF Visited
  <2> QED BY <2>1, <2>3 DEF Contract!Report
<1>3. CASE Done \/ UNCHANGED vars
  BY <1>3 DEF Done, vars, Visited, Contract!vars
<1> QED BY <1>1, <1>2, <1>3 DEF Next, Contract!Next

\* Next and Report alternate as the mapper thread expects, and every ID that
\* Next returns lies in the mapspace and is new.
THEOREM ImplementsContract == Spec => KeepsContract
<1>1. Init => Contract!Init
  BY DEF Init, Visited, Contract!Init, NotReported
<1>2. Init => Forward
  BY InitAccounted DEF Accounted
<1> QED BY <1>1, <1>2, NextForward, StepKeepsContract, PTL
        DEF Spec, KeepsContract, Contract!Spec

-----------------------------------------------------------------------------
(* The searches that draw: hybrid and random_pruned come back to a         *)
(* factorization, and the history of reports starts anew with each walk.   *)
(* What they owe is that no walk loses an ID.                              *)

Bad(id) == ConstructionBad(id) \/ FactorizationBad(id.fac)

\* The reports are those of a walk of the IDs in W, up to the iterator.
InWalk(W) ==
  /\ NoRevisit
  /\ \A id \in Ids : reported[id] # NotReported => id \in W
  /\ \A id \in Ids : id \in W /\ Before(id, iterator) /\ reported[id] = NotReported => Bad(id)

LEMMA WalkGoesOn ==
  ASSUME InSpace, FailuresCounted, NEW W, InWalk(W), iterator \in W,
         NEW status \in Status, Report(status), state' = "Ready"
  PROVE  /\ InSpace' /\ FailuresCounted' /\ InWalk(W)'
         /\ iterator \in Ids /\ iterator' \in Ids /\ Before(iterator, iterator')
<1>1. Forward /\ Records(status)
  BY DEF Forward, InWalk, Report, Records
<1>2. InSpace' /\ FailuresCounted' /\ NoRevisit'
  <2>1. [Next]_vars
    BY DEF Next
  <2> QED BY <1>1, <2>1, NextForward, NextCounted DEF Forward
<1>3. iterator \in Ids /\ iterator' \in Ids /\ Before(iterator, iterator')
  BY <1>2, ReportStep DEF InSpace, IteratorInPrunedSpace
<1>4. ASSUME NEW id \in Ids, reported'[id] # NotReported PROVE id \in W
  BY <1>1, <1>4, HistoryGrows DEF InWalk
<1>5. ASSUME NEW id \in Ids, id \in W, Before(id, iterator'), reported'[id] = NotReported
      PROVE  Bad(id)'
  <2>1. id # iterator /\ reported[id] = NotReported
    BY <1>1, <1>5, HistoryGrows DEF Status, NotReported
  <2>2. CASE Before(id, iterator)
    <3>1. Bad(id)
      BY <2>1, <2>2, <1>5 DEF InWalk
    <3> QED BY <1>1, <3>1, BadStaysBad DEF Bad
  <2>3. CASE Before(iterator, id)
    <3>1. ~Before(FastForward(status), id)
      <4>1. /\ IncrementRecursive(FastForward(status))
            /\ FastForward(status) \in Ids /\ pruned = FastForward(status).fac
        BY ReportStep
      <4> QED BY <1>5, <4>1, IncrementIsSuccessor
    <3> QED BY <1>1, <2>3, <3>1, SkippedIsBad DEF Bad
  <2> QED BY <1>3, <2>1, <2>2, <2>3, BeforeTotal
<1>6. InWalk(W)'
  BY <1>2, <1>4, <1>5 DEF InWalk
<1> QED BY <1>2, <1>3, <1>6

\* A walk that ends has reported each of its IDs, or ruled it out.
LEMMA WalkEnds ==
  ASSUME InSpace, FailuresCounted, NEW W, InWalk(W),
         NEW status \in Status, Records(status), iterator \in W,
         \A id \in Ids : id \in W => ~Before(FastForward(status), id)
  PROVE  \A id \in Ids : /\ reported'[id] # NotReported => id \in W
                         /\ id \in W /\ reported'[id] = NotReported => Bad(id)'
<1> TAKE id \in Ids
<1>1. Forward
  BY DEF Forward, InWalk
<1>2. reported'[id] # NotReported => id \in W
  BY <1>1, HistoryGrows DEF InWalk
<1>3. ASSUME id \in W, reported'[id] = NotReported PROVE Bad(id)'
  <2>1. iterator \in Ids /\ id # iterator /\ reported[id] = NotReported
    BY <1>1, <1>3, HistoryGrows DEF Status, NotReported
  <2>2. CASE Before(id, iterator)
    <3>1. Bad(id)
      BY <1>3, <2>1, <2>2 DEF InWalk
    <3> QED BY <1>1, <3>1, BadStaysBad DEF Bad
  <2>3. CASE Before(iterator, id)
    BY <1>1, <1>3, <2>3, SkippedIsBad DEF Bad
  <2> QED BY <2>1, <2>2, <2>3, BeforeTotal
<1> QED BY <1>2, <1>3

\* Where the walk of a factorization carries over, nothing of it lies ahead.
LEMMA CarriesAtLast ==
  ASSUME NEW it \in Ids, pruned = it.fac, Carries(it), NEW id \in Ids, id.fac = it.fac
  PROVE  ~Before(it, id)
BY IdFields DEF Carries, Before

LEMMA MovesInside ==
  ASSUME NEW it \in Ids, MoveBypass(it) \/ MoveSplit(it) \/ MovePerm(it)
  PROVE  /\ iterator'.fac = it.fac
         /\ MoveBypass(it) \/ MoveSplit(it) => iterator'.perm = it.perm
<1>1. it = [fac |-> it.fac, perm |-> it.perm, split |-> it.split, bypass |-> it.bypass]
  BY IdFields
<1> QED BY <1>1 DEF MoveBypass, MoveSplit, MovePerm

-----------------------------------------------------------------------------
(* search::HybridSearch *)

OfFactorization(f) == {id \in Ids : id.fac = f}

Walking == state = "WaitingForStatus" \/ (state = "Ready" /\ ~Hybrid!AtFirstPoint)

\* How often each factorization has been walked.
WalksCounted ==
  /\ visited \subseteq Factorizations
  /\ walks \in [Factorizations -> 0 .. 3]
  /\ \A f \in visited : walks[f] >= 1
  /\ filter_revisits =>
       \A f \in Factorizations :
         walks[f] <= (IF f = 0 THEN 1 ELSE 0) + (IF f \in visited THEN 1 ELSE 0)
  /\ IFSize > 0 /\ state = "Terminated" => filter_revisits /\ visited = Factorizations

HybridInv ==
  /\ InSpace /\ FailuresCounted
  /\ Walking => InWalk(OfFactorization(iterator.fac))
  /\ Hybrid!WalkComplete
  /\ filter_revisits \in BOOLEAN
  /\ WalksCounted

\* Report, in terms of the linear search: it takes a step of that search, or
\* draws a factorization, or ends.
LEMMA HybridReports ==
  ASSUME NEW status, Hybrid!HybridReport(status)
  PROVE  /\ Records(status)
         /\ eval_fail_count' = IF AtLastBypass THEN 0 ELSE EvalFails(status)
         /\ \/ /\ Report(status) /\ state' = "Ready" /\ UNCHANGED <<visited, walks>>
               /\ LET ff == FastForward(status)
                  IN  MoveBypass(ff) \/ MoveSplit(ff) \/ MovePerm(ff)
            \/ /\ Carries(FastForward(status)) /\ state' = "Ready"
               /\ \E f \in (IF filter_revisits THEN Factorizations \ visited ELSE Factorizations) :
                    /\ iterator' = [fac |-> f, perm |-> 0, split |-> 0, bypass |-> 0]
                    /\ pruned' = f
                    /\ visited' = (IF filter_revisits THEN visited \cup {f} ELSE visited)
                    /\ walks' = [walks EXCEPT ![f] = IF @ < 3 THEN @ + 1 ELSE @]
            \/ /\ Carries(FastForward(status)) /\ state' = "Terminated"
               /\ filter_revisits /\ visited = Factorizations
               /\ iterator' = [FastForward(status) EXCEPT !.perm = 0, !.split = 0, !.bypass = 0]
               /\ UNCHANGED <<pruned, visited, walks>>
<1> DEFINE ff == FastForward(status)
<1>1. Hybrid!FastForward(status) = ff
  BY DEF Hybrid!FastForward, FastForward, Hybrid!AtLastBypass, AtLastBypass, Hybrid!EvalFails, EvalFails
<1>2. Records(status)
  BY DEF Hybrid!HybridReport, Records, Hybrid!BypassBlind, BypassBlind, Hybrid!Ids, Ids,
         Hybrid!Factorizations, Factorizations, Hybrid!NotReported, NotReported
<1>3. eval_fail_count' = IF AtLastBypass THEN 0 ELSE EvalFails(status)
  BY DEF Hybrid!HybridReport, Hybrid!AtLastBypass, AtLastBypass, Hybrid!EvalFails, EvalFails
<1>4. Hybrid!StepWithin(ff) \/ Hybrid!DrawFac(ff) \/ Hybrid!Exhausted(ff)
  BY <1>1 DEF Hybrid!HybridReport
<1> HIDE DEF ff
<1>5. CASE Hybrid!StepWithin(ff)
  <2>1. MoveBypass(ff) \/ MoveSplit(ff) \/ MovePerm(ff)
    BY <1>5 DEF Hybrid!StepWithin, Hybrid!MoveBypass, MoveBypass, Hybrid!MoveSplit, MoveSplit,
                Hybrid!MovePerm, MovePerm
  <2>2. state' = "Ready" /\ UNCHANGED <<visited, walks>>
    BY <1>5 DEF Hybrid!StepWithin, Hybrid!MoveBypass, Hybrid!MoveSplit, Hybrid!MovePerm
  <2>3. Report(status)
    BY <1>2, <1>3, <2>1 DEF Report, Records, IncrementRecursive, ff
  <2> QED BY <1>2, <1>3, <2>1, <2>2, <2>3 DEF ff
<1>6. CASE Hybrid!DrawFac(ff)
  BY <1>2, <1>3, <1>6 DEF Hybrid!DrawFac, Hybrid!Carries, Carries, Hybrid!Drawable, Hybrid!Recorded,
       Hybrid!CountWalk, Hybrid!Factorizations, Factorizations, ff
<1>7. CASE Hybrid!Exhausted(ff)
  BY <1>2, <1>3, <1>7 DEF Hybrid!Exhausted, Hybrid!Carries, Carries, Hybrid!AllVisited,
       Hybrid!Factorizations, Factorizations, ff
<1> QED BY <1>4, <1>5, <1>6, <1>7

LEMMA HybridStands ==
  ASSUME HybridInv,
         UNCHANGED <<state, iterator, eval_fail_count, pruned, reported, filter_revisits, visited, walks>>
  PROVE  HybridInv'
<1>1. InSpace' /\ FailuresCounted' /\ WalksCounted' /\ filter_revisits' \in BOOLEAN
  BY DEF HybridInv, InSpace, TypeOK, IteratorInPrunedSpace, FailuresCounted, SameSpace, WalksCounted
<1>2. Hybrid!WalkComplete'
  BY DEF HybridInv, Hybrid!WalkComplete, Hybrid!AtFirstPoint, Hybrid!ConstructionBad,
         Hybrid!FactorizationBad, Hybrid!SameSpace
<1>3. Walking' => InWalk(OfFactorization(iterator.fac))'
  BY DEF HybridInv, Walking, Hybrid!AtFirstPoint, InWalk, OfFactorization, NoRevisit, Before, Bad,
         ConstructionBad, FactorizationBad, SameSpace
<1> QED BY <1>1, <1>2, <1>3 DEF HybridInv

LEMMA HybridStep == HybridInv /\ Hybrid!HybridNext => HybridInv'
<1> SUFFICES ASSUME HybridInv, Hybrid!HybridNext PROVE HybridInv'
  OBVIOUS
<1>0. /\ InSpace /\ FailuresCounted /\ WalksCounted
      /\ filter_revisits' = filter_revisits /\ filter_revisits \in BOOLEAN
  BY DEF HybridInv, Hybrid!HybridNext
<1>1. CASE Hybrid!HybridNextId
  <2>1. /\ state = "Ready" /\ state' = "WaitingForStatus"
        /\ UNCHANGED <<iterator, eval_fail_count, pruned, visited, walks>>
        /\ reported' = IF Hybrid!AtFirstPoint THEN [id \in Ids |-> NotReported] ELSE reported
    BY <1>1 DEF Hybrid!HybridNextId, Hybrid!Ids, Ids, Hybrid!Factorizations, Factorizations,
                Hybrid!NotReported, NotReported
  <2>2. InSpace'
    BY <1>0, <2>1 DEF InSpace, TypeOK, IteratorInPrunedSpace
  <2>3. Hybrid!WalkComplete' /\ WalksCounted'
    BY <1>0, <2>1 DEF Hybrid!WalkComplete, WalksCounted
  <2>4. iterator \in Ids
    BY <1>0, <2>1 DEF InSpace, IteratorInPrunedSpace
  <2>5. CASE Hybrid!AtFirstPoint
    <3>1. iterator.bypass = 0 /\ iterator.perm = 0 /\ iterator.split = 0
      BY <2>5 DEF Hybrid!AtFirstPoint
    <3>2. FailuresCounted'
      BY <1>0, <2>1, <2>4, <3>1, IdFields DEF FailuresCounted
    <3>3. InWalk(OfFactorization(iterator.fac))'
      <4>1. \A id \in Ids : id.fac = iterator.fac => ~Before(id, iterator)
        BY <2>4, <3>1, IdFields DEF Before
      <4>2. \A id \in Ids : reported'[id] = NotReported
        BY <2>1, <2>5
      <4> QED BY <2>1, <4>1, <4>2 DEF InWalk, OfFactorization, NoRevisit, Before
    <3> QED BY <1>0, <2>1, <2>2, <2>3, <3>2, <3>3 DEF HybridInv
  <2>6. CASE ~Hybrid!AtFirstPoint
    <3>1. InWalk(OfFactorization(iterator.fac))
      BY <2>1, <2>6 DEF HybridInv, Walking
    <3>2. InWalk(OfFactorization(iterator.fac))'
      BY <2>1, <2>6, <3>1 DEF InWalk, OfFactorization, NoRevisit, Before, Bad, ConstructionBad,
                              FactorizationBad, SameSpace
    <3>3. FailuresCounted'
      BY <1>0, <2>1, <2>6 DEF FailuresCounted, SameSpace
    <3> QED BY <1>0, <2>2, <2>3, <3>2, <3>3 DEF HybridInv
  <2> QED BY <2>5, <2>6
<1>2. ASSUME NEW status \in Status, Hybrid!HybridReport(status) PROVE HybridInv'
  <2> DEFINE ff == FastForward(status)
  <2>1. /\ Records(status) /\ state = "WaitingForStatus"
        /\ iterator \in Ids /\ pruned = iterator.fac
        /\ eval_fail_count' = IF AtLastBypass THEN 0 ELSE EvalFails(status)
    BY <1>0, <1>2, HybridReports DEF Records, InSpace, IteratorInPrunedSpace
  <2>2. ff \in Ids /\ ff.fac = iterator.fac
    BY <2>1, FastForwardInSpace
  <2>3. PICK W : W = OfFactorization(iterator.fac)
    OBVIOUS
  <2>4. InWalk(W) /\ iterator \in W /\ Forward
    BY <1>0, <2>1, <2>3 DEF HybridInv, Walking, OfFactorization, InWalk, Forward
  <2>5. CASE /\ Report(status) /\ state' = "Ready" /\ UNCHANGED <<visited, walks>>
             /\ MoveBypass(ff) \/ MoveSplit(ff) \/ MovePerm(ff)
    <3>1. /\ InSpace' /\ FailuresCounted' /\ InWalk(W)'
          /\ iterator' \in Ids /\ Before(iterator, iterator')
      BY <1>0, <2>4, <2>5, WalkGoesOn
    <3>2. iterator'.fac = iterator.fac
      <4> HIDE DEF ff
      <4> QED BY <2>2, <2>5, MovesInside
    <3>3. InWalk(OfFactorization(iterator.fac))'
      BY <2>3, <3>1, <3>2 DEF OfFactorization
    <3>4. ~Hybrid!AtFirstPoint'
      BY <2>1, <3>1, <3>2, IdFields DEF Hybrid!AtFirstPoint, Before
    <3>5. Hybrid!WalkComplete' /\ WalksCounted'
      BY <1>0, <2>1, <2>5, <3>4 DEF Hybrid!WalkComplete, WalksCounted
    <3> QED BY <1>0, <3>1, <3>3, <3>5 DEF HybridInv
  <2>6. CASE Carries(ff)
    <3>1. \A id \in Ids : id \in W => ~Before(ff, id)
      BY <2>1, <2>2, <2>3, <2>6, CarriesAtLast DEF OfFactorization
    <3>2. \A id \in Ids : /\ reported'[id] # NotReported => id \in W
                          /\ id \in W /\ reported'[id] = NotReported => Bad(id)'
      BY <1>0, <2>1, <2>4, <3>1, WalkEnds
    <3>3. Hybrid!WalkComplete'
      <4>1. ASSUME NEW id \in Ids, NEW other \in Ids, id.fac = other.fac,
                   reported'[other] # NotReported, reported'[id] = NotReported
            PROVE  ConstructionBad(id)' \/ FactorizationBad(id.fac)'
        BY <2>3, <3>2, <4>1 DEF OfFactorization, Bad
      <4> QED BY <4>1 DEF Hybrid!WalkComplete, Hybrid!Ids, Ids, Hybrid!Factorizations, Factorizations,
                   Hybrid!NotReported, NotReported, Hybrid!ConstructionBad, ConstructionBad,
                   Hybrid!FactorizationBad, FactorizationBad, Hybrid!SameSpace, SameSpace
    <3>4. eval_fail_count' = 0
      BY <1>0, <2>1, <2>4, <2>6, CountStartsAnew DEF Carries
    <3>5. reported' \in [Ids -> Status \cup {NotReported}]
      BY <1>0, <2>1 DEF Records, InSpace, TypeOK
    <3>6. CASE /\ state' = "Ready"
               /\ \E f \in (IF filter_revisits THEN Factorizations \ visited ELSE Factorizations) :
                    /\ iterator' = [fac |-> f, perm |-> 0, split |-> 0, bypass |-> 0]
                    /\ pruned' = f
                    /\ visited' = (IF filter_revisits THEN visited \cup {f} ELSE visited)
                    /\ walks' = [walks EXCEPT ![f] = IF @ < 3 THEN @ + 1 ELSE @]
      <4>1. PICK f \in Factorizations :
              /\ filter_revisits => f \notin visited
              /\ iterator' = [fac |-> f, perm |-> 0, split |-> 0, bypass |-> 0]
              /\ pruned' = f
              /\ visited' = (IF filter_revisits THEN visited \cup {f} ELSE visited)
              /\ walks' = [walks EXCEPT ![f] = IF @ < 3 THEN @ + 1 ELSE @]
        BY <3>6
      <4>2. iterator' \in Ids /\ iterator'.fac = f /\ iterator'.bypass = 0
        <5>1. f \in Int /\ 0 <= f /\ f < IFSize /\ 0 < LPSize[f] /\ 0 < SSize[f] /\ 0 < DBSize
          BY DEF Factorizations
        <5>2. [fac |-> f, perm |-> 0, split |-> 0, bypass |-> 0] \in Ids
          BY <5>1, IdBuild
        <5> QED BY <4>1, <5>2
      <4>3. InSpace'
        BY <3>4, <3>5, <3>6, <4>1, <4>2 DEF InSpace, TypeOK, IteratorInPrunedSpace, Factorizations
      <4>4. FailuresCounted'
        BY <3>4, <4>2, IdFields DEF FailuresCounted
      <4>5. ~Walking'
        BY <3>6, <4>1 DEF Walking, Hybrid!AtFirstPoint
      <4>6. WalksCounted'
        BY <1>0, <3>6, <4>1 DEF WalksCounted
      <4> QED BY <1>0, <3>3, <4>3, <4>4, <4>5, <4>6 DEF HybridInv
    <3>7. CASE /\ state' = "Terminated"
               /\ filter_revisits /\ visited = Factorizations
               /\ iterator' = [ff EXCEPT !.perm = 0, !.split = 0, !.bypass = 0]
               /\ UNCHANGED <<pruned, visited, walks>>
      <4>1. iterator' \in [fac : Nat, perm : Nat, split : Nat, bypass : Nat]
        <5> HIDE DEF ff
        <5>1. ff \in [fac : Nat, perm : Nat, split : Nat, bypass : Nat]
          BY <2>2, IdsMembers DEF Factorizations
        <5> QED BY <3>7, <5>1
      <4>2. InSpace' /\ FailuresCounted' /\ ~Walking'
        BY <1>0, <3>4, <3>5, <3>7, <4>1 DEF InSpace, TypeOK, IteratorInPrunedSpace, FailuresCounted, Walking
      <4>3. WalksCounted'
        BY <1>0, <3>7 DEF WalksCounted
      <4> QED BY <1>0, <3>3, <4>2, <4>3 DEF HybridInv
    <3> QED BY <1>2, <2>6, <3>6, <3>7, <2>5, HybridReports
  <2> QED BY <1>2, <2>5, <2>6, HybridReports
<1>3. CASE Hybrid!HybridDone
  BY <1>3, HybridStands DEF Hybrid!HybridDone, Hybrid!hybridVars, Hybrid!vars
<1> QED BY <1>1, <1>2, <1>3 DEF Hybrid!HybridNext, Hybrid!Status, Status

LEMMA HybridStart == Hybrid!HybridInit => HybridInv
<1> SUFFICES ASSUME Hybrid!HybridInit PROVE HybridInv
  OBVIOUS
<1>1. Init
  BY DEF Hybrid!HybridInit, Hybrid!Init, Init, Hybrid!Ids, Ids, Hybrid!Factorizations, Factorizations,
         Hybrid!NotReported, NotReported
<1>2. InSpace /\ FailuresCounted
  BY <1>1, InitAccounted DEF Accounted, Forward
<1>3. ~Walking
  BY <1>1 DEF Init, Walking, Hybrid!AtFirstPoint
<1>4. Hybrid!WalkComplete
  BY <1>1 DEF Init, Hybrid!WalkComplete, Hybrid!NotReported, NotReported, Hybrid!Ids, Ids,
              Hybrid!Factorizations, Factorizations
<1>5. filter_revisits \in BOOLEAN /\ WalksCounted
  BY <1>1 DEF Init, Hybrid!HybridInit, WalksCounted, Hybrid!Factorizations, Factorizations
<1> QED BY <1>2, <1>3, <1>4, <1>5 DEF HybridInv

LEMMA HybridWalks ==
  HybridInv => Hybrid!WalkComplete /\ Hybrid!EndsWhenAllWalked /\ Hybrid!RevisitsFiltered
<1> SUFFICES ASSUME HybridInv PROVE Hybrid!EndsWhenAllWalked /\ Hybrid!RevisitsFiltered
  BY DEF HybridInv
<1>1. Hybrid!EndsWhenAllWalked
  BY DEF HybridInv, WalksCounted, Hybrid!EndsWhenAllWalked, Hybrid!Factorizations, Factorizations
<1>2. ASSUME filter_revisits, NEW f \in Factorizations PROVE walks[f] <= IF f = 0 THEN 2 ELSE 1
  <2>1. /\ walks[f] \in 0 .. 3
        /\ walks[f] <= (IF f = 0 THEN 1 ELSE 0) + (IF f \in visited THEN 1 ELSE 0)
    BY <1>2 DEF HybridInv, WalksCounted
  <2> QED BY <2>1
<1>3. Hybrid!RevisitsFiltered
  BY <1>2 DEF Hybrid!RevisitsFiltered, Hybrid!Factorizations, Factorizations
<1> QED BY <1>1, <1>3

-----------------------------------------------------------------------------
(* search::RandomPrunedSearch *)

OfPermutation(f, p) == {id \in Ids : id.fac = f /\ id.perm = p}

\* The permutation drawn last is being walked.
VisitGoesOn == state = "WaitingForStatus" \/ (state = "Ready" /\ ~RandomPruned!AtFirstPoint)

RandomPrunedInv ==
  /\ InSpace /\ FailuresCounted
  /\ VisitGoesOn => InWalk(OfPermutation(iterator.fac, iterator.perm))
  /\ RandomPruned!WalkComplete

\* Where Report increments to: a point of the same permutation, by a step of
\* the linear search, or the first point of a permutation drawn.
LEMMA RandomPrunedReports ==
  ASSUME NEW status, InSpace, RandomPruned!RandomPrunedReport(status), status \in Status
  PROVE  /\ Records(status) /\ state' = "Ready"
         /\ eval_fail_count' = IF AtLastBypass THEN 0 ELSE EvalFails(status)
         /\ \/ /\ Report(status)
               /\ LET ff == FastForward(status) IN MoveBypass(ff) \/ MoveSplit(ff)
            \/ /\ FastForward(status).bypass + 1 >= DBSize
               /\ FastForward(status).split + 1 >= SSize[pruned]
               /\ \E f \in Factorizations : \E p \in 0 .. LPSize[f] - 1 :
                    /\ iterator' = [fac |-> f, perm |-> p, split |-> 0, bypass |-> 0]
                    /\ pruned' = f
<1> DEFINE it == RandomPruned!RandomFastForward(status)
           ff == FastForward(status)
           visits == RandomPruned!VisitsAfter(status)
<1>1. /\ Records(status) /\ iterator \in Ids /\ pruned = iterator.fac
  BY DEF RandomPruned!RandomPrunedReport, Records, RandomPruned!BypassBlind, BypassBlind,
         RandomPruned!Ids, Ids, RandomPruned!Factorizations, Factorizations,
         RandomPruned!NotReported, NotReported, InSpace, IteratorInPrunedSpace
<1>2. eval_fail_count' = IF AtLastBypass THEN 0 ELSE EvalFails(status)
  BY DEF RandomPruned!RandomPrunedReport, RandomPruned!CountAfter, RandomPruned!AtLastBypass, AtLastBypass,
         RandomPruned!EvalFails, EvalFails
<1>3. RandomPruned!AllBypassesFailed(status) <=> SkipsFactorization(status)
  BY DEF RandomPruned!AllBypassesFailed, SkipsFactorization, RandomPruned!AtLastBypass, AtLastBypass,
         RandomPruned!EvalFails, EvalFails
<1>4. /\ it = [fac |-> iterator.fac, perm |-> iterator.perm,
               split |-> IF SkipsFactorization(status) THEN SSize[pruned] - 1 ELSE iterator.split,
               bypass |-> IF status = "MappingConstructionFailure" THEN DBSize - 1 ELSE iterator.bypass]
      /\ ff \in Ids /\ it.bypass = ff.bypass /\ it.split = ff.split
      /\ ~SkipsFactorization(status) => it = ff
  <2>1. ff \in Ids /\ iterator \in [fac : Int, perm : Int, split : Int, bypass : Int]
    BY <1>1, FastForwardInSpace, IdFields
  <2>2. it = [fac |-> iterator.fac, perm |-> iterator.perm,
              split |-> IF SkipsFactorization(status) THEN SSize[pruned] - 1 ELSE iterator.split,
              bypass |-> IF status = "MappingConstructionFailure" THEN DBSize - 1 ELSE iterator.bypass]
    <3> DEFINE s2 == IF SkipsFactorization(status) THEN SSize[pruned] - 1 ELSE iterator.split
               b2 == IF status = "MappingConstructionFailure" THEN DBSize - 1 ELSE iterator.bypass
    <3>1. it = [iterator EXCEPT !.split = s2, !.bypass = b2]
      BY <1>3 DEF RandomPruned!RandomFastForward
    <3> HIDE DEF s2, b2, it
    <3>2. it = [fac |-> iterator.fac, perm |-> iterator.perm, split |-> s2, bypass |-> b2]
      BY <2>1, <3>1
    <3> QED BY <3>2 DEF s2, b2
  <2> HIDE DEF it
  <2> QED BY <1>1, <2>1, <2>2, FastForwardFields
<1>5. \/ RandomPruned!StepInside(it, visits)
      \/ RandomPruned!DrawPerm(it, visits)
      \/ RandomPruned!DrawFac(it, visits)
  BY DEF RandomPruned!RandomPrunedReport
<1> HIDE DEF it, ff, visits
<1>6. CASE RandomPruned!StepInside(it, visits)
  <2>1. MoveBypass(it) \/ MoveSplit(it)
    BY <1>6 DEF RandomPruned!StepInside, RandomPruned!MoveBypass, MoveBypass, RandomPruned!MoveSplit, MoveSplit
  <2>2. ~SkipsFactorization(status)
    <3>1. SUFFICES ASSUME SkipsFactorization(status) PROVE FALSE
      OBVIOUS
    <3>2. it.bypass + 1 = DBSize /\ it.split + 1 = SSize[pruned]
      BY <1>1, <1>4, <3>1, IdFields DEF SkipsFactorization, AtLastBypass
    <3> QED BY <1>1, <2>1, <3>2, IdFields DEF MoveBypass, MoveSplit
  <2>3. MoveBypass(ff) \/ MoveSplit(ff)
    BY <1>4, <2>1, <2>2
  <2>4. Report(status) /\ state' = "Ready"
    BY <1>1, <1>2, <2>3 DEF Report, Records, IncrementRecursive, ff, MoveBypass, MoveSplit
  <2> QED BY <1>1, <1>2, <2>3, <2>4 DEF ff
<1>7. CASE RandomPruned!DrawPerm(it, visits)
  <2>1. /\ it.bypass + 1 >= DBSize /\ it.split + 1 >= SSize[pruned] /\ state' = "Ready" /\ pruned' = pruned
        /\ \E p \in 0 .. LPSize[pruned] - 1 : iterator' = [it EXCEPT !.perm = p, !.split = 0, !.bypass = 0]
    BY <1>7 DEF RandomPruned!DrawPerm, RandomPruned!InnerExhausted
  <2>2. PICK p \in 0 .. LPSize[pruned] - 1 : iterator' = [it EXCEPT !.perm = p, !.split = 0, !.bypass = 0]
    BY <2>1
  <2>3. iterator' = [fac |-> iterator.fac, perm |-> p, split |-> 0, bypass |-> 0]
    BY <1>4, <2>2
  <2>4. pruned' = iterator.fac /\ iterator.fac \in Factorizations
    BY <1>1, <2>1, IdFields DEF Factorizations
  <2> QED BY <1>1, <1>2, <1>4, <2>1, <2>3, <2>4 DEF ff
<1>8. CASE RandomPruned!DrawFac(it, visits)
  BY <1>1, <1>2, <1>4, <1>8 DEF RandomPruned!DrawFac, RandomPruned!InnerExhausted,
       RandomPruned!BeginsVisit, RandomPruned!Factorizations, Factorizations, ff
<1> QED BY <1>5, <1>6, <1>7, <1>8

LEMMA RandomPrunedStands ==
  ASSUME RandomPrunedInv, UNCHANGED <<state, iterator, eval_fail_count, pruned, reported>>
  PROVE  RandomPrunedInv'
<1>1. InSpace' /\ FailuresCounted'
  BY DEF RandomPrunedInv, InSpace, TypeOK, IteratorInPrunedSpace, FailuresCounted, SameSpace
<1>2. RandomPruned!WalkComplete'
  BY DEF RandomPrunedInv, RandomPruned!WalkComplete, RandomPruned!AtFirstPoint,
         RandomPruned!ConstructionBad, RandomPruned!FactorizationBad, RandomPruned!SameSpace
<1>3. VisitGoesOn' => InWalk(OfPermutation(iterator.fac, iterator.perm))'
  BY DEF RandomPrunedInv, VisitGoesOn, RandomPruned!AtFirstPoint, InWalk, OfPermutation, NoRevisit, Before,
         Bad, ConstructionBad, FactorizationBad, SameSpace
<1> QED BY <1>1, <1>2, <1>3 DEF RandomPrunedInv

LEMMA RandomPrunedStep == RandomPrunedInv /\ RandomPruned!RandomPrunedNext => RandomPrunedInv'
<1> SUFFICES ASSUME RandomPrunedInv, RandomPruned!RandomPrunedNext PROVE RandomPrunedInv'
  OBVIOUS
<1>0. InSpace /\ FailuresCounted
  BY DEF RandomPrunedInv
<1>1. CASE RandomPruned!RandomPrunedNextId
  <2>1. /\ state = "Ready" /\ state' = "WaitingForStatus"
        /\ UNCHANGED <<iterator, eval_fail_count, pruned>>
        /\ reported' = IF RandomPruned!AtFirstPoint THEN [id \in Ids |-> NotReported] ELSE reported
    BY <1>1 DEF RandomPruned!RandomPrunedNextId, RandomPruned!NoReports, RandomPruned!Ids, Ids,
                RandomPruned!Factorizations, Factorizations, RandomPruned!NotReported, NotReported
  <2>2. InSpace'
    BY <1>0, <2>1 DEF InSpace, TypeOK, IteratorInPrunedSpace
  <2>3. RandomPruned!WalkComplete'
    BY <2>1 DEF RandomPruned!WalkComplete
  <2>4. iterator \in Ids
    BY <1>0, <2>1 DEF InSpace, IteratorInPrunedSpace
  <2>5. CASE RandomPruned!AtFirstPoint
    <3>1. iterator.bypass = 0 /\ iterator.split = 0
      BY <2>5 DEF RandomPruned!AtFirstPoint
    <3>2. FailuresCounted'
      BY <1>0, <2>1, <2>4, <3>1, IdFields DEF FailuresCounted
    <3>3. InWalk(OfPermutation(iterator.fac, iterator.perm))'
      <4>1. \A id \in Ids : id.fac = iterator.fac /\ id.perm = iterator.perm => ~Before(id, iterator)
        BY <2>4, <3>1, IdFields DEF Before
      <4>2. \A id \in Ids : reported'[id] = NotReported
        BY <2>1, <2>5
      <4> QED BY <2>1, <4>1, <4>2 DEF InWalk, OfPermutation, NoRevisit, Before
    <3> QED BY <2>2, <2>3, <3>2, <3>3 DEF RandomPrunedInv
  <2>6. CASE ~RandomPruned!AtFirstPoint
    <3>1. InWalk(OfPermutation(iterator.fac, iterator.perm))
      BY <2>1, <2>6 DEF RandomPrunedInv, VisitGoesOn
    <3>2. InWalk(OfPermutation(iterator.fac, iterator.perm))'
      BY <2>1, <2>6, <3>1 DEF InWalk, OfPermutation, NoRevisit, Before, Bad, ConstructionBad,
                              FactorizationBad, SameSpace
    <3>3. FailuresCounted'
      BY <1>0, <2>1, <2>6 DEF FailuresCounted, SameSpace
    <3> QED BY <2>2, <2>3, <3>2, <3>3 DEF RandomPrunedInv
  <2> QED BY <2>5, <2>6
<1>2. ASSUME NEW status \in Status, RandomPruned!RandomPrunedReport(status) PROVE RandomPrunedInv'
  <2> DEFINE ff == FastForward(status)
  <2>1. /\ Records(status) /\ state = "WaitingForStatus" /\ state' = "Ready"
        /\ iterator \in Ids /\ pruned = iterator.fac
        /\ eval_fail_count' = IF AtLastBypass THEN 0 ELSE EvalFails(status)
    BY <1>0, <1>2, RandomPrunedReports DEF Records, InSpace, IteratorInPrunedSpace
  <2>2. ff \in Ids /\ ff.fac = iterator.fac
    BY <2>1, FastForwardInSpace
  <2>3. PICK W : W = OfPermutation(iterator.fac, iterator.perm)
    OBVIOUS
  <2>4. InWalk(W) /\ iterator \in W /\ Forward
    BY <1>0, <2>1, <2>3 DEF RandomPrunedInv, VisitGoesOn, OfPermutation, InWalk, Forward
  <2>5. CASE Report(status) /\ (MoveBypass(ff) \/ MoveSplit(ff))
    <3>1. /\ InSpace' /\ FailuresCounted' /\ InWalk(W)'
          /\ iterator' \in Ids /\ Before(iterator, iterator')
      BY <1>0, <2>1, <2>4, <2>5, WalkGoesOn
    <3>2. iterator'.fac = iterator.fac /\ iterator'.perm = iterator.perm
      <4>1. iterator'.fac = ff.fac /\ iterator'.perm = ff.perm
        <5> HIDE DEF ff
        <5> QED BY <2>2, <2>5, MovesInside
      <4>2. ~SkipsFactorization(status)
        <5>1. SUFFICES ASSUME SkipsFactorization(status) PROVE FALSE
          OBVIOUS
        <5>2. ff.bypass + 1 = DBSize /\ ff.split + 1 = SSize[pruned]
          BY <2>1, <5>1, FastForwardFields, IdFields DEF SkipsFactorization, AtLastBypass
        <5> HIDE DEF ff
        <5> QED BY <2>1, <2>2, <2>5, <5>2, IdFields DEF MoveBypass, MoveSplit
      <4> QED BY <2>1, <2>2, <4>1, <4>2, FastForwardFields
    <3>3. InWalk(OfPermutation(iterator.fac, iterator.perm))'
      BY <2>3, <3>1, <3>2 DEF OfPermutation
    <3>4. ~RandomPruned!AtFirstPoint'
      BY <2>1, <3>1, <3>2, IdFields DEF RandomPruned!AtFirstPoint, Before
    <3>5. RandomPruned!WalkComplete'
      BY <3>4 DEF RandomPruned!WalkComplete
    <3> QED BY <3>1, <3>3, <3>5 DEF RandomPrunedInv
  <2>6. CASE /\ ff.bypass + 1 >= DBSize /\ ff.split + 1 >= SSize[pruned]
             /\ \E f \in Factorizations : \E p \in 0 .. LPSize[f] - 1 :
                  /\ iterator' = [fac |-> f, perm |-> p, split |-> 0, bypass |-> 0]
                  /\ pruned' = f
    <3>1. ASSUME NEW id \in Ids, id \in W PROVE ~Before(ff, id)
      <4>1. id.fac = iterator.fac /\ id.perm = iterator.perm
        BY <2>3, <3>1 DEF OfPermutation
      <4>2. ff.perm >= iterator.perm
        BY <2>1, FastForwardFields, IdFields
      <4> HIDE DEF ff
      <4> QED BY <2>1, <2>2, <2>6, <4>1, <4>2, IdFields DEF Before
    <3>2. \A id \in Ids : /\ reported'[id] # NotReported => id \in W
                          /\ id \in W /\ reported'[id] = NotReported => Bad(id)'
      BY <1>0, <2>1, <2>4, <3>1, WalkEnds
    <3>3. RandomPruned!WalkComplete'
      <4>1. ASSUME NEW id \in Ids, NEW other \in Ids, id.fac = other.fac, id.perm = other.perm,
                   reported'[other] # NotReported, reported'[id] = NotReported
            PROVE  ConstructionBad(id)' \/ FactorizationBad(id.fac)'
        BY <2>3, <3>2, <4>1 DEF OfPermutation, Bad
      <4> QED BY <4>1 DEF RandomPruned!WalkComplete, RandomPruned!Ids, Ids, RandomPruned!Factorizations,
                   Factorizations, RandomPruned!NotReported, NotReported, RandomPruned!ConstructionBad,
                   ConstructionBad, RandomPruned!FactorizationBad, FactorizationBad,
                   RandomPruned!SameSpace, SameSpace
    <3>4. eval_fail_count' = 0
      BY <1>0, <2>1, <2>4, <2>6, CountStartsAnew
    <3>5. reported' \in [Ids -> Status \cup {NotReported}]
      BY <1>0, <2>1 DEF Records, InSpace, TypeOK
    <3>6. PICK f \in Factorizations :
             /\ \E p \in 0 .. LPSize[f] - 1 : iterator' = [fac |-> f, perm |-> p, split |-> 0, bypass |-> 0]
             /\ pruned' = f
      BY <2>6
    <3>7. PICK p \in 0 .. LPSize[f] - 1 :
            iterator' = [fac |-> f, perm |-> p, split |-> 0, bypass |-> 0] /\ pruned' = f
      BY <3>6
    <3>8. iterator' \in Ids /\ iterator'.fac = f /\ iterator'.bypass = 0
      <4>1. /\ f \in Int /\ 0 <= f /\ f < IFSize /\ 0 < SSize[f] /\ 0 < DBSize
            /\ p \in Int /\ 0 <= p /\ p < LPSize[f]
        BY DEF Factorizations
      <4>2. [fac |-> f, perm |-> p, split |-> 0, bypass |-> 0] \in Ids
        BY <4>1, IdBuild
      <4> QED BY <3>7, <4>2
    <3>9. InSpace'
      <4>1. iterator' \in [fac : Nat, perm : Nat, split : Nat, bypass : Nat]
        BY <3>8, IdsMembers DEF Factorizations
      <4> QED BY <2>1, <3>4, <3>5, <3>7, <3>8, <4>1 DEF InSpace, TypeOK, IteratorInPrunedSpace, Factorizations
    <3>10. FailuresCounted'
      BY <3>4, <3>8, IdFields DEF FailuresCounted
    <3>11. ~VisitGoesOn'
      BY <2>1, <3>7 DEF VisitGoesOn, RandomPruned!AtFirstPoint
    <3> QED BY <3>3, <3>9, <3>10, <3>11 DEF RandomPrunedInv
  <2> QED BY <1>0, <1>2, <2>5, <2>6, RandomPrunedReports
<1> QED BY <1>1, <1>2 DEF RandomPruned!RandomPrunedNext, RandomPruned!Status, Status

LEMMA RandomPrunedStart == RandomPruned!RandomPrunedInit => RandomPrunedInv
<1> SUFFICES ASSUME RandomPruned!RandomPrunedInit PROVE RandomPrunedInv
  OBVIOUS
<1>1. /\ state = (IF IFSize = 0 THEN "Terminated" ELSE "Ready")
      /\ eval_fail_count = 0
      /\ reported = [id \in Ids |-> NotReported]
  BY DEF RandomPruned!RandomPrunedInit, RandomPruned!NoReports, RandomPruned!Ids, Ids,
         RandomPruned!Factorizations, Factorizations, RandomPruned!NotReported, NotReported
<1>2. iterator.split = 0 /\ iterator.bypass = 0
  BY DEF RandomPruned!RandomPrunedInit
<1>3. /\ iterator \in [fac : Nat, perm : Nat, split : Nat, bypass : Nat] /\ pruned \in Nat
      /\ state # "Terminated" => iterator \in Ids /\ pruned = iterator.fac
  <2>1. CASE IFSize = 0
    BY <1>1, <2>1 DEF RandomPruned!RandomPrunedInit
  <2>2. CASE IFSize # 0
    <3>0. PICK f \in Factorizations :
            /\ \E p \in 0 .. LPSize[f] - 1 : iterator = [fac |-> f, perm |-> p, split |-> 0, bypass |-> 0]
            /\ pruned = f
      BY <2>2 DEF RandomPruned!RandomPrunedInit, RandomPruned!Factorizations, Factorizations
    <3>1. PICK p \in 0 .. LPSize[f] - 1 :
            iterator = [fac |-> f, perm |-> p, split |-> 0, bypass |-> 0] /\ pruned = f
      BY <3>0
    <3>2. /\ f \in Int /\ 0 <= f /\ f < IFSize /\ 0 < SSize[f] /\ 0 < DBSize
          /\ p \in Int /\ 0 <= p /\ p < LPSize[f]
      BY DEF Factorizations
    <3>3. [fac |-> f, perm |-> p, split |-> 0, bypass |-> 0] \in Ids
      BY <3>2, IdBuild
    <3> QED BY <3>1, <3>2, <3>3
  <2> QED BY <2>1, <2>2
<1>4. InSpace
  BY <1>1, <1>3 DEF InSpace, TypeOK, IteratorInPrunedSpace
<1>5. FailuresCounted
  BY <1>1, <1>2, <1>3, IdFields DEF FailuresCounted
<1>6. ~VisitGoesOn
  BY <1>1, <1>2 DEF VisitGoesOn, RandomPruned!AtFirstPoint
<1>7. RandomPruned!WalkComplete
  BY <1>1 DEF RandomPruned!WalkComplete, RandomPruned!NotReported, NotReported, RandomPruned!Ids, Ids,
              RandomPruned!Factorizations, Factorizations
<1> QED BY <1>4, <1>5, <1>6, <1>7 DEF RandomPrunedInv

-----------------------------------------------------------------------------
(* search::RandomSearch *)

\* How many schemes the generator hands out before s.
Ahead(s) == IF s >= sequence THEN s - sequence ELSE s + DBSize - sequence

\* The schemes handed out since the last roll are the last ones of the
\* generator, so that the next one is new until all have been handed out.
RandomInv ==
  /\ sequence \in 0 .. DBSize - 1 /\ covered \in 1 .. DBSize
  /\ state = "Rolling" \/ sinceRoll = {} => covered = DBSize
  /\ mapping_id \in [point : Points \cup {Random!NoPoint}, bypass : 0 .. DBSize - 1]
  /\ IsFiniteSet(sinceRoll)
  /\ sinceRoll # {} => covered = Cardinality(sinceRoll)
  /\ \A a, b \in sinceRoll : a.point = b.point
  /\ covered < DBSize => \A a \in sinceRoll : a.point = mapping_id.point
  /\ \A a \in sinceRoll : a.bypass \in 0 .. DBSize - 1 /\ Ahead(a.bypass) >= DBSize - covered

\* Handing out a scheme takes every other one a place closer.
LEMMA AheadMoves ==
  ASSUME sequence \in 0 .. DBSize - 1, sequence' = Random!Following(sequence),
         NEW s \in 0 .. DBSize - 1
  PROVE  /\ sequence' \in 0 .. DBSize - 1
         /\ Ahead(s)' = IF s = sequence THEN DBSize - 1 ELSE Ahead(s) - 1
         /\ Ahead(s) = 0 <=> s = sequence
         /\ Ahead(s) \in 0 .. DBSize - 1
BY DEF Ahead, Random!Following

\* The module of the search has its own name for the library's operator.
LEMMA CardinalityIs == Random!Cardinality(sinceRoll) = Cardinality(sinceRoll)
BY Zenon DEF Random!Cardinality, Cardinality

LEMMA RandomStart == Random!Init => RandomInv
BY FS_EmptySet DEF Random!Init, RandomInv

LEMMA RandomStands ==
  ASSUME RandomInv, UNCHANGED <<mapping_id, sequence, covered, sinceRoll>>,
         state' = "Rolling" => state = "Rolling" \/ covered = DBSize
  PROVE  RandomInv'
BY DEF RandomInv, Ahead

LEMMA RandomStep == RandomInv /\ Random!Next => RandomInv'
<1> SUFFICES ASSUME RandomInv, Random!Next PROVE RandomInv'
  OBVIOUS
<1>1. CASE Random!StartRolling
  BY <1>1, RandomStands DEF Random!StartRolling
<1>2. CASE Random!RollAccepted
  <2>1. PICK point \in Points :
          /\ mapping_id' = Random!Rolled(point) /\ sinceRoll' = {Random!Rolled(point)}
          /\ sequence' = Random!Following(sequence) /\ state' = "WaitingForStatus" /\ covered' = 1
    BY <1>2 DEF Random!RollAccepted, Random!HandOut
  <2>2. Random!Rolled(point) = [point |-> point, bypass |-> sequence]
    BY DEF Random!Rolled
  <2>3. IsFiniteSet(sinceRoll') /\ Cardinality(sinceRoll') = 1
    BY <2>1, FS_Singleton
  <2>4. sequence \in 0 .. DBSize - 1
    BY DEF RandomInv
  <2>5. sequence' \in 0 .. DBSize - 1
        /\ \A a \in sinceRoll' : a.bypass \in 0 .. DBSize - 1 /\ Ahead(a.bypass)' = DBSize - 1
    BY <2>1, <2>2, <2>4 DEF Ahead, Random!Following
  <2> QED BY <2>1, <2>2, <2>3, <2>4, <2>5 DEF RandomInv, Ahead
<1>3. CASE Random!RollFiltered
  <2>1. /\ state = "Rolling" /\ UNCHANGED <<state, covered, sinceRoll>>
        /\ sequence' = Random!Following(sequence)
        /\ \E point \in Points : mapping_id' = [point |-> point, bypass |-> sequence]
    BY <1>3 DEF Random!RollFiltered, Random!Rolled
  <2>2. covered = DBSize /\ sequence \in 0 .. DBSize - 1
    BY <2>1 DEF RandomInv
  <2>3. sequence' \in 0 .. DBSize - 1 /\ \A a \in sinceRoll : Ahead(a.bypass)' >= 0
    BY <2>1, <2>2 DEF RandomInv, Ahead, Random!Following
  <2> QED BY <2>1, <2>2, <2>3 DEF RandomInv
<1>4. CASE Random!RollBypass
  <2> DEFINE id == [mapping_id EXCEPT !.bypass = sequence]
  <2>1. /\ state = "Ready" /\ covered # DBSize
        /\ mapping_id' = id /\ sinceRoll' = sinceRoll \cup {id}
        /\ sequence' = Random!Following(sequence) /\ state' = "WaitingForStatus"
        /\ covered' = covered + 1
    BY <1>4 DEF Random!RollBypass, Random!HandOut
  <2>2. /\ sequence \in 0 .. DBSize - 1 /\ covered \in 1 .. DBSize /\ covered < DBSize
        /\ sinceRoll # {} /\ covered = Cardinality(sinceRoll) /\ IsFiniteSet(sinceRoll)
    BY <2>1 DEF RandomInv
  <2>3. id.point = mapping_id.point /\ id.bypass = sequence
        /\ id \in [point : Points \cup {Random!NoPoint}, bypass : 0 .. DBSize - 1]
    BY <2>2 DEF RandomInv
  <2> HIDE DEF id
  <2>4. \A a \in sinceRoll : /\ a.bypass \in 0 .. DBSize - 1 /\ Ahead(a.bypass) >= DBSize - covered
                             /\ a.point = mapping_id.point
    BY <2>2 DEF RandomInv
  <2>5. id \notin sinceRoll
    BY <2>2, <2>3, <2>4 DEF Ahead
  <2>6. IsFiniteSet(sinceRoll') /\ Cardinality(sinceRoll') = covered + 1
    BY <2>1, <2>2, <2>5, FS_AddElement
  <2>7. /\ sequence' \in 0 .. DBSize - 1
        /\ \A s \in 0 .. DBSize - 1 : s # sequence => Ahead(s)' = Ahead(s) - 1
    BY <2>1, <2>2, AheadMoves
  <2>8. ASSUME NEW a \in sinceRoll'
        PROVE  a.bypass \in 0 .. DBSize - 1 /\ Ahead(a.bypass)' >= DBSize - covered' /\ a.point = id.point
    <3>1. CASE a = id
      <4>1. Ahead(a.bypass)' = DBSize - 1
        BY <2>1, <2>2, <2>3, <3>1 DEF Ahead, Random!Following
      <4> QED BY <2>1, <2>2, <2>3, <3>1, <4>1
    <3>2. CASE a \in sinceRoll
      <4>1. a.bypass \in 0 .. DBSize - 1 /\ Ahead(a.bypass) >= DBSize - covered /\ a.point = mapping_id.point
        BY <2>4, <3>2
      <4>2. a.bypass # sequence
        BY <2>2, <4>1 DEF Ahead
      <4>3. Ahead(a.bypass)' = Ahead(a.bypass) - 1
        BY <2>7, <4>1, <4>2
      <4>4. Ahead(a.bypass) \in Int
        BY <2>2, <4>1 DEF Ahead
      <4> QED BY <2>1, <2>2, <2>3, <4>1, <4>3, <4>4
    <3> QED BY <2>1, <2>8, <3>1, <3>2
  <2> QED BY <2>1, <2>2, <2>3, <2>6, <2>7, <2>8 DEF RandomInv
<1>5. ASSUME NEW status \in Random!Status, Random!Report(status) PROVE RandomInv'
  BY <1>5, RandomStands DEF Random!Report
<1>6. CASE Random!Done
  BY <1>6, RandomStands DEF Random!Done, Random!vars
<1> QED BY <1>1, <1>2, <1>3, <1>4, <1>5, <1>6 DEF Random!Next

-----------------------------------------------------------------------------
(* The searches a factory may construct *)

FactoryInv ==
  /\ algorithm = "hybrid" => HybridInv
  /\ algorithm = "random_pruned" => RandomPrunedInv
  /\ algorithm = "random" => RandomInv

LEMMA FactoryStep == FactoryInv /\ [Call]_factoryVars => FactoryInv'
<1> SUFFICES ASSUME FactoryInv, [Call]_factoryVars PROVE FactoryInv'
  OBVIOUS
<1>1. algorithm' = algorithm
  BY DEF Call, factoryVars
<1>2. ASSUME algorithm = "hybrid" PROVE HybridInv'
  <2>1. CASE CallHybrid
    BY <1>2, <2>1, HybridStep DEF FactoryInv, CallHybrid
  <2>2. CASE UNCHANGED factoryVars
    BY <1>2, <2>2, HybridStands DEF FactoryInv, factoryVars, linear, filtering, hybridOnly
  <2> QED BY <1>2, <2>1, <2>2 DEF Call, CallLinear, CallRandomPruned, CallExhaustive, CallRandom
<1>3. ASSUME algorithm = "random_pruned" PROVE RandomPrunedInv'
  <2>1. CASE CallRandomPruned
    BY <1>3, <2>1, RandomPrunedStep DEF FactoryInv, CallRandomPruned
  <2>2. CASE UNCHANGED factoryVars
    BY <1>3, <2>2, RandomPrunedStands DEF FactoryInv, factoryVars, linear
  <2> QED BY <1>3, <2>1, <2>2 DEF Call, CallLinear, CallHybrid, CallExhaustive, CallRandom
<1>4. ASSUME algorithm = "random" PROVE RandomInv'
  <2>1. CASE CallRandom
    BY <1>4, <2>1, RandomStep DEF FactoryInv, CallRandom
  <2>2. CASE UNCHANGED factoryVars
    BY <1>4, <2>2, RandomStands DEF FactoryInv, factoryVars, randomOnly
  <2> QED BY <1>4, <2>1, <2>2 DEF Call, CallLinear, CallHybrid, CallRandomPruned, CallExhaustive
<1> QED BY <1>1, <1>2, <1>3, <1>4 DEF FactoryInv

\* However many points there are to draw from and whatever is drawn: a random
\* order of walks loses no ID, the hybrid search ends by itself only after it
\* has walked every factorization, with the filter it walks none again but
\* number 0, and between two rolls random hands out every bypass scheme once.
THEOREM WalksAreComplete == FactorySpec => []WalkComplete
<1>1. Construct => FactoryInv
  BY HybridStart, RandomPrunedStart, RandomStart DEF Construct, FactoryInv
<1>2. FactoryInv => WalkComplete
  BY HybridWalks, CardinalityIs DEF FactoryInv, WalkComplete, RandomPrunedInv, RandomInv,
       Random!SchemesInTurn
<1> QED BY <1>1, <1>2, FactoryStep, PTL DEF FactorySpec

-----------------------------------------------------------------------------
(* search::ExhaustiveSearch *)

\* The coordinates a fast-forward of the exhaustive search leads to.
Forwarded(status) ==
  [d \in 1 .. 4 |-> IF d \in Exhaustive!FastForwarded(status) THEN FullSize[d] - 1 ELSE coordinates[d]]

ExhaustiveInv ==
  /\ coordinates \in [1 .. 4 -> Nat] /\ eval_fail_count \in Nat
  /\ state # "Terminated" => \A d \in 1 .. 4 : coordinates[d] < FullSize[d]

LEMMA FullSizes ==
  /\ FullSize \in [1 .. 4 -> Nat]
  /\ FullSize[1] > 0 /\ FullSize[2] > 0 /\ FullSize[3] > 0
BY FactoryAssumption DEF FactoryAssumption

\* The dimension that moves is the innermost that can.
LEMMA InnermostMoves ==
  ASSUME NEW c \in [1 .. 4 -> Nat], NEW k \in 1 .. 4, c[k] + 1 < FullSize[k],
         \A j \in 1 .. 4 : j < k => ~(c[j] + 1 < FullSize[j])
  PROVE  Exhaustive!Movable(c) # {} /\ Exhaustive!Min(Exhaustive!Movable(c)) = k
<1> DEFINE S == {d \in 1 .. 4 : c[d] + 1 < FullSize[d]}
<1>1. Exhaustive!Movable(c) = S
  BY DEF Exhaustive!Movable, Exhaustive!Dimensions
<1>2. k \in S /\ \A y \in S : k <= y
  OBVIOUS
<1>3. \A x \in S : (\A y \in S : x <= y) => x = k
  BY <1>2
<1>4. (CHOOSE x \in S : \A y \in S : x <= y) = k
  <2> HIDE DEF S
  <2> QED BY <1>2, <1>3
<1> QED BY <1>1, <1>2, <1>4 DEF Exhaustive!Min

\* IncrementRecursive_ on the array, dimension by dimension.
LEMMA ExhaustiveIncrements ==
  ASSUME NEW c \in [1 .. 4 -> Nat], Exhaustive!IncrementRecursive(c)
  PROVE  \/ /\ c[1] + 1 < FullSize[1] /\ state' = "Ready"
            /\ coordinates' = [d \in 1 .. 4 |-> IF d = 1 THEN c[1] + 1 ELSE c[d]]
         \/ /\ c[1] + 1 >= FullSize[1] /\ c[2] + 1 < FullSize[2] /\ state' = "Ready"
            /\ coordinates' = [d \in 1 .. 4 |-> IF d < 2 THEN 0 ELSE IF d = 2 THEN c[2] + 1 ELSE c[d]]
         \/ /\ c[1] + 1 >= FullSize[1] /\ c[2] + 1 >= FullSize[2] /\ c[3] + 1 < FullSize[3]
            /\ state' = "Ready"
            /\ coordinates' = [d \in 1 .. 4 |-> IF d < 3 THEN 0 ELSE IF d = 3 THEN c[3] + 1 ELSE c[d]]
         \/ /\ c[1] + 1 >= FullSize[1] /\ c[2] + 1 >= FullSize[2] /\ c[3] + 1 >= FullSize[3]
            /\ c[4] + 1 < FullSize[4] /\ state' = "Ready"
            /\ coordinates' = [d \in 1 .. 4 |-> IF d < 4 THEN 0 ELSE c[4] + 1]
         \/ /\ c[1] + 1 >= FullSize[1] /\ c[2] + 1 >= FullSize[2] /\ c[3] + 1 >= FullSize[3]
            /\ c[4] + 1 >= FullSize[4] /\ state' = "Terminated"
            /\ coordinates' = [d \in 1 .. 4 |-> IF d < 4 THEN 0 ELSE c[4]]
<1> USE FullSizes
<1>1. ASSUME NEW k \in 1 .. 4, c[k] + 1 < FullSize[k],
             \A j \in 1 .. 4 : j < k => ~(c[j] + 1 < FullSize[j])
      PROVE  /\ state' = "Ready"
             /\ coordinates' = [d \in 1 .. 4 |-> IF d < k THEN 0 ELSE IF d = k THEN c[k] + 1 ELSE c[d]]
  <2>1. Exhaustive!Movable(c) # {} /\ Exhaustive!Min(Exhaustive!Movable(c)) = k
    BY <1>1, InnermostMoves
  <2>2. coordinates' = [d \in 1 .. 4 |-> IF d < k THEN 0 ELSE IF d = k THEN c[d] + 1 ELSE c[d]]
    BY <2>1 DEF Exhaustive!IncrementRecursive, Exhaustive!Dimensions
  <2> QED BY <2>1, <2>2 DEF Exhaustive!IncrementRecursive
<1>2. ASSUME \A j \in 1 .. 4 : ~(c[j] + 1 < FullSize[j])
      PROVE  /\ state' = "Terminated"
             /\ coordinates' = [d \in 1 .. 4 |-> IF d < 4 THEN 0 ELSE c[4]]
  <2>1. Exhaustive!Movable(c) = {}
    BY <1>2 DEF Exhaustive!Movable, Exhaustive!Dimensions
  <2>2. coordinates' = [d \in 1 .. 4 |-> IF d < 4 THEN 0 ELSE IF d = 4 THEN c[d] + 0 ELSE c[d]]
    BY <2>1 DEF Exhaustive!IncrementRecursive, Exhaustive!Dimensions, Exhaustive!Factorization
  <2> QED BY <2>1, <2>2 DEF Exhaustive!IncrementRecursive
<1>3. CASE c[1] + 1 < FullSize[1]
  BY <1>1, <1>3
<1>4. CASE c[1] + 1 >= FullSize[1] /\ c[2] + 1 < FullSize[2]
  BY <1>1, <1>4
<1>5. CASE c[1] + 1 >= FullSize[1] /\ c[2] + 1 >= FullSize[2] /\ c[3] + 1 < FullSize[3]
  BY <1>1, <1>5
<1>6. CASE c[1] + 1 >= FullSize[1] /\ c[2] + 1 >= FullSize[2] /\ c[3] + 1 >= FullSize[3] /\ c[4] + 1 < FullSize[4]
  BY <1>1, <1>6
<1>7. CASE /\ c[1] + 1 >= FullSize[1] /\ c[2] + 1 >= FullSize[2] /\ c[3] + 1 >= FullSize[3]
           /\ c[4] + 1 >= FullSize[4]
  BY <1>2, <1>7
<1> QED BY <1>3, <1>4, <1>5, <1>6, <1>7

\* The array as an ID of the linear search.
LEMMA IdAtIs ==
  ASSUME NEW c
  PROVE  Exhaustive!IdAt(c) = [fac |-> c[4], perm |-> c[3], split |-> c[2], bypass |-> c[1]]
BY DEF Exhaustive!IdAt, Exhaustive!Factorization, Exhaustive!Permutation, Exhaustive!Spatial, Exhaustive!Bypass

LEMMA ExhaustiveForwards ==
  ASSUME ExhaustiveInv, state # "Terminated", NEW status
  PROVE  /\ Forwarded(status) \in [1 .. 4 -> Nat]
         /\ \A d \in 1 .. 4 : Forwarded(status)[d] < FullSize[d]
         /\ Forwarded(status)[4] = coordinates[4]
         /\ Exhaustive!IdAt(Forwarded(status)) = Exhaustive!Linear!FastForward(status)
<1> USE FullSizes
<1> DEFINE skip == coordinates[1] + 1 = FullSize[1] /\ Exhaustive!EvalFails(status) = FullSize[1]
<1>1. coordinates \in [1 .. 4 -> Nat] /\ \A d \in 1 .. 4 : coordinates[d] < FullSize[d]
  BY DEF ExhaustiveInv
<1>2. \A d : d \in Exhaustive!FastForwarded(status) <=>
               \/ skip /\ d \in {2, 3}
               \/ status = "MappingConstructionFailure" /\ d = 1
  BY DEF Exhaustive!FastForwarded, Exhaustive!AtLast, Exhaustive!Bypass, Exhaustive!Spatial,
         Exhaustive!Permutation
<1>3. /\ Forwarded(status) = [d \in 1 .. 4 |-> IF d \in Exhaustive!FastForwarded(status)
                                               THEN FullSize[d] - 1 ELSE coordinates[d]]
      /\ Forwarded(status) \in [1 .. 4 -> Nat]
      /\ \A d \in 1 .. 4 : Forwarded(status)[d] < FullSize[d]
      /\ Forwarded(status)[4] = coordinates[4]
      /\ Forwarded(status)[3] = IF skip THEN FullSize[3] - 1 ELSE coordinates[3]
      /\ Forwarded(status)[2] = IF skip THEN FullSize[2] - 1 ELSE coordinates[2]
      /\ Forwarded(status)[1] =
           IF status = "MappingConstructionFailure" THEN FullSize[1] - 1 ELSE coordinates[1]
  <2> HIDE DEF skip
  <2> QED BY <1>1, <1>2 DEF Forwarded
<1>4. coordinates[4] \in 0 .. FullSize[4] - 1
  BY <1>1
<1>5. Exhaustive!EvalFails(status) = Exhaustive!Linear!EvalFails(status)
  BY DEF ExhaustiveInv, Exhaustive!EvalFails, Exhaustive!Linear!EvalFails
<1>6. Exhaustive!Linear!AtLastBypass <=> coordinates[1] + 1 = FullSize[1]
  BY IdAtIs DEF Exhaustive!Linear!AtLastBypass, Exhaustive!Bypass
<1>7. Exhaustive!Linear!FastForward(status) =
        [fac |-> coordinates[4],
         perm |-> IF skip THEN FullSize[3] - 1 ELSE coordinates[3],
         split |-> IF skip THEN FullSize[2] - 1 ELSE coordinates[2],
         bypass |-> IF status = "MappingConstructionFailure" THEN FullSize[1] - 1 ELSE coordinates[1]]
  <2> DEFINE p2 == IF skip THEN FullSize[3] - 1 ELSE coordinates[3]
             s2 == IF skip THEN FullSize[2] - 1 ELSE coordinates[2]
             b2 == IF status = "MappingConstructionFailure" THEN FullSize[1] - 1 ELSE coordinates[1]
  <2>1. Exhaustive!Linear!FastForward(status) =
          [Exhaustive!IdAt(coordinates) EXCEPT !.perm = p2, !.split = s2, !.bypass = b2]
    BY <1>4, <1>5, <1>6, IdAtIs DEF Exhaustive!Linear!FastForward, Exhaustive!Factorizations,
         Exhaustive!Factorization, Exhaustive!Permutation, Exhaustive!Spatial, Exhaustive!Bypass
  <2> HIDE DEF p2, s2, b2
  <2>2. Exhaustive!Linear!FastForward(status) = [fac |-> coordinates[4], perm |-> p2, split |-> s2, bypass |-> b2]
    BY <2>1, IdAtIs
  <2> QED BY <2>2 DEF p2, s2, b2
<1> HIDE DEF skip
<1>8. Exhaustive!IdAt(Forwarded(status)) = Exhaustive!Linear!FastForward(status)
  BY <1>3, <1>7, IdAtIs
<1> QED BY <1>3, <1>8

LEMMA ExhaustiveReports ==
  ASSUME ExhaustiveInv, NEW status \in Exhaustive!Linear!Status, Exhaustive!Report(status)
  PROVE  ExhaustiveInv' /\ Exhaustive!Linear!Report(status)
<1> USE FullSizes
<1> DEFINE c == Forwarded(status)
           ff == Exhaustive!Linear!FastForward(status)
<1>1. state = "WaitingForStatus"
  BY DEF Exhaustive!Report
<1>2. /\ c \in [1 .. 4 -> Nat] /\ \A d \in 1 .. 4 : c[d] < FullSize[d]
      /\ c[4] = coordinates[4] /\ Exhaustive!IdAt(c) = ff
  BY <1>1, ExhaustiveForwards
<1>3. Exhaustive!IncrementRecursive(c)
  BY DEF Exhaustive!Report, Forwarded, Exhaustive!Dimensions
<1>4. ff = [fac |-> c[4], perm |-> c[3], split |-> c[2], bypass |-> c[1]]
  BY <1>2, IdAtIs
<1>5. coordinates \in [1 .. 4 -> Nat] /\ c[4] \in 0 .. FullSize[4] - 1
  BY <1>2 DEF ExhaustiveInv
<1>6. /\ eval_fail_count' \in Nat
      /\ Exhaustive!Linear!BypassBlind(status)
      /\ reported' = [reported EXCEPT ![Exhaustive!IdAt(coordinates)] = status]
      /\ eval_fail_count' = IF Exhaustive!Linear!AtLastBypass THEN 0 ELSE Exhaustive!Linear!EvalFails(status)
  BY IdAtIs DEF Exhaustive!Report, ExhaustiveInv, Exhaustive!EvalFails, Exhaustive!Linear!EvalFails,
       Exhaustive!AtLast, Exhaustive!Bypass, Exhaustive!Linear!AtLastBypass
<1> HIDE DEF c, ff
<1>7. Exhaustive!IdAt(coordinates)' =
        [fac |-> coordinates'[4], perm |-> coordinates'[3], split |-> coordinates'[2], bypass |-> coordinates'[1]]
  BY DEF Exhaustive!IdAt, Exhaustive!Factorization, Exhaustive!Permutation, Exhaustive!Spatial,
         Exhaustive!Bypass
<1>8. /\ [f \in 0 .. FullSize[4] - 1 |-> FullSize[2]][coordinates[4]] = FullSize[2]
      /\ [f \in 0 .. FullSize[4] - 1 |-> FullSize[3]][coordinates[4]] = FullSize[3]
  BY <1>2, <1>5
<1>9. ff.fac = c[4] /\ ff.perm = c[3] /\ ff.split = c[2] /\ ff.bypass = c[1]
  BY <1>4
<1>10. ff \in [fac : Nat, perm : Nat, split : Nat, bypass : Nat]
  BY <1>2, <1>4
<1>11. [ff EXCEPT !.bypass = 0, !.split = ff.split + 1] =
         [fac |-> c[4], perm |-> c[3], split |-> c[2] + 1, bypass |-> 0]
  <2>1. PICK r : r = [ff EXCEPT !.bypass = 0, !.split = ff.split + 1]
    OBVIOUS
  <2>2. r = [fac |-> ff.fac, perm |-> ff.perm, split |-> ff.split + 1, bypass |-> 0]
    BY <1>10, <2>1
  <2> QED BY <1>9, <2>1, <2>2
<1>12. [ff EXCEPT !.bypass = 0, !.split = 0, !.perm = ff.perm + 1] =
         [fac |-> c[4], perm |-> c[3] + 1, split |-> 0, bypass |-> 0]
  <2>1. PICK r : r = [ff EXCEPT !.bypass = 0, !.split = 0, !.perm = ff.perm + 1]
    OBVIOUS
  <2>2. r = [fac |-> ff.fac, perm |-> ff.perm + 1, split |-> 0, bypass |-> 0]
    BY <1>10, <2>1
  <2> QED BY <1>9, <2>1, <2>2
<1>13. [ff EXCEPT !.bypass = 0, !.split = 0, !.perm = 0] =
         [fac |-> c[4], perm |-> 0, split |-> 0, bypass |-> 0]
  <2>1. PICK r : r = [ff EXCEPT !.bypass = 0, !.split = 0, !.perm = 0]
    OBVIOUS
  <2>2. r = [fac |-> ff.fac, perm |-> 0, split |-> 0, bypass |-> 0]
    BY <1>10, <2>1
  <2> QED BY <1>9, <2>1, <2>2
<1>14. ExhaustiveInv' /\ Exhaustive!Linear!IncrementRecursive(ff)
  <2> USE DEF Exhaustive!Factorizations, Exhaustive!Factorization, Exhaustive!Permutation,
              Exhaustive!Spatial, Exhaustive!Bypass
  <2>1. CASE /\ c[1] + 1 < FullSize[1] /\ state' = "Ready"
             /\ coordinates' = [d \in 1 .. 4 |-> IF d = 1 THEN c[1] + 1 ELSE c[d]]
    <3>1. Exhaustive!Linear!MoveBypass(ff)
      BY <1>2, <1>4, <1>5, <1>7, <2>1 DEF Exhaustive!Linear!MoveBypass
    <3> QED BY <1>2, <1>6, <2>1, <3>1 DEF Exhaustive!Linear!IncrementRecursive, ExhaustiveInv
  <2>2. CASE /\ c[1] + 1 >= FullSize[1] /\ c[2] + 1 < FullSize[2] /\ state' = "Ready"
             /\ coordinates' = [d \in 1 .. 4 |-> IF d < 2 THEN 0 ELSE IF d = 2 THEN c[2] + 1 ELSE c[d]]
    <3>0. Exhaustive!IdAt(coordinates)' = [fac |-> c[4], perm |-> c[3], split |-> c[2] + 1, bypass |-> 0]
      BY <1>7, <2>2
    <3>1. Exhaustive!Linear!MoveSplit(ff)
      BY <1>2, <1>8, <1>9, <1>11, <2>2, <3>0 DEF Exhaustive!Linear!MoveSplit
    <3> QED BY <1>2, <1>6, <2>2, <3>1 DEF Exhaustive!Linear!IncrementRecursive, ExhaustiveInv
  <2>3. CASE /\ c[1] + 1 >= FullSize[1] /\ c[2] + 1 >= FullSize[2] /\ c[3] + 1 < FullSize[3]
             /\ state' = "Ready"
             /\ coordinates' = [d \in 1 .. 4 |-> IF d < 3 THEN 0 ELSE IF d = 3 THEN c[3] + 1 ELSE c[d]]
    <3>0. Exhaustive!IdAt(coordinates)' = [fac |-> c[4], perm |-> c[3] + 1, split |-> 0, bypass |-> 0]
      BY <1>7, <2>3
    <3>1. Exhaustive!Linear!MovePerm(ff)
      BY <1>2, <1>8, <1>9, <1>12, <2>3, <3>0 DEF Exhaustive!Linear!MovePerm
    <3> QED BY <1>2, <1>6, <2>3, <3>1 DEF Exhaustive!Linear!IncrementRecursive, ExhaustiveInv
  <2>4. CASE /\ c[1] + 1 >= FullSize[1] /\ c[2] + 1 >= FullSize[2] /\ c[3] + 1 >= FullSize[3]
             /\ c[4] + 1 < FullSize[4] /\ state' = "Ready"
             /\ coordinates' = [d \in 1 .. 4 |-> IF d < 4 THEN 0 ELSE c[4] + 1]
    <3>1. Exhaustive!Linear!MoveFac(ff)
      BY <1>2, <1>4, <1>5, <1>7, <2>4 DEF Exhaustive!Linear!MoveFac, Exhaustive!Linear!Carries
    <3> QED BY <1>2, <1>6, <2>4, <3>1 DEF Exhaustive!Linear!IncrementRecursive, ExhaustiveInv
  <2>5. CASE /\ c[1] + 1 >= FullSize[1] /\ c[2] + 1 >= FullSize[2] /\ c[3] + 1 >= FullSize[3]
             /\ c[4] + 1 >= FullSize[4] /\ state' = "Terminated"
             /\ coordinates' = [d \in 1 .. 4 |-> IF d < 4 THEN 0 ELSE c[4]]
    <3>0. Exhaustive!IdAt(coordinates)' = [fac |-> c[4], perm |-> 0, split |-> 0, bypass |-> 0]
      BY <1>7, <2>5
    <3>1. Exhaustive!Linear!Overflow(ff)
      BY <1>2, <1>8, <1>9, <1>13, <2>5, <3>0 DEF Exhaustive!Linear!Overflow, Exhaustive!Linear!Carries
    <3> QED BY <1>2, <1>6, <2>5, <3>1 DEF Exhaustive!Linear!IncrementRecursive, ExhaustiveInv
  <2> QED BY <1>2, <1>3, <2>1, <2>2, <2>3, <2>4, <2>5, ExhaustiveIncrements
<1> QED BY <1>1, <1>6, <1>14 DEF Exhaustive!Linear!Report, ff

LEMMA ExhaustiveStep ==
  ExhaustiveInv /\ [Exhaustive!Next]_<<state, coordinates, eval_fail_count, reported>> =>
    ExhaustiveInv' /\ [Exhaustive!Linear!Next]_<<state, coordinates, eval_fail_count, reported>>
<1> SUFFICES ASSUME ExhaustiveInv, [Exhaustive!Next]_<<state, coordinates, eval_fail_count, reported>>
             PROVE  ExhaustiveInv' /\ [Exhaustive!Linear!Next]_<<state, coordinates, eval_fail_count, reported>>
  OBVIOUS
<1>1. CASE Exhaustive!NextId
  <2>1. Exhaustive!Linear!NextId
    BY <1>1 DEF Exhaustive!NextId, Exhaustive!Linear!NextId, Exhaustive!IdAt
  <2> QED BY <1>1, <2>1 DEF Exhaustive!NextId, ExhaustiveInv, Exhaustive!Linear!Next
<1>2. ASSUME NEW status \in Exhaustive!Linear!Status, Exhaustive!Report(status)
      PROVE  ExhaustiveInv' /\ Exhaustive!Linear!Next
  BY <1>2, ExhaustiveReports DEF Exhaustive!Linear!Next
<1>3. CASE Exhaustive!Done \/ UNCHANGED <<state, coordinates, eval_fail_count, reported>>
  BY <1>3 DEF Exhaustive!Done, Exhaustive!vars, ExhaustiveInv
<1> QED BY <1>1, <1>2, <1>3 DEF Exhaustive!Next

LEMMA ExhaustiveStart == Exhaustive!Init => ExhaustiveInv /\ Exhaustive!Linear!Init
<1> SUFFICES ASSUME Exhaustive!Init PROVE ExhaustiveInv /\ Exhaustive!Linear!Init
  OBVIOUS
<1>1. coordinates = [d \in 1 .. 4 |-> 0]
  BY DEF Exhaustive!Init, Exhaustive!Dimensions
<1>2. ExhaustiveInv
  BY <1>1, FullSizes DEF Exhaustive!Init, ExhaustiveInv, Exhaustive!Factorization
<1>3. Exhaustive!Linear!Init
  BY <1>1, IdAtIs DEF Exhaustive!Init, Exhaustive!Linear!Init, Exhaustive!Factorization
<1> QED BY <1>2, <1>3

\* Whatever the four sizes, the exhaustive search takes exactly the steps of a
\* linear search of a mapspace that is never pruned: what is proved of that
\* search above holds of it too.
THEOREM ExhaustiveWalksAsLinear == FactorySpec => WalksAsLinear
<1> DEFINE Inv == algorithm = "exhaustive" => ExhaustiveInv
           Walked == algorithm = "exhaustive" => Exhaustive!Linear!Next
<1>1. Construct => Inv /\ (algorithm = "exhaustive" => Exhaustive!Linear!Init)
  BY ExhaustiveStart DEF Construct
<1>2. Inv /\ [Call]_factoryVars =>
        Inv' /\ [Walked]_<<state, coordinates, eval_fail_count, reported>>
  <2> SUFFICES ASSUME Inv, [Call]_factoryVars
               PROVE  Inv' /\ [Walked]_<<state, coordinates, eval_fail_count, reported>>
    OBVIOUS
  <2>1. algorithm' = algorithm
    BY DEF Call, factoryVars
  <2>2. CASE algorithm = "exhaustive"
    <3>1. [Exhaustive!Next]_<<state, coordinates, eval_fail_count, reported>>
      BY <2>2 DEF Call, CallLinear, CallHybrid, CallRandomPruned, CallExhaustive, CallRandom, factoryVars, linear
    <3> QED BY <2>1, <2>2, <3>1, ExhaustiveStep
  <2>3. CASE algorithm # "exhaustive"
    BY <2>1, <2>3
  <2> QED BY <2>2, <2>3
<1> QED BY <1>1, <1>2, PTL DEF FactorySpec, WalksAsLinear
=============================================================================
