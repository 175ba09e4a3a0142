--------------------------- MODULE MapspaceSplit ---------------------------
(***************************************************************************)
(* How a mapspace is split between the mapper's threads (Split, InitSplit, *)
(* InitPruned and ConstructMapping of Uber in src/src/mapspaces/uber.cpp;  *)
(* Ruby has the same code).  A split numbers its index factorizations from *)
(* 0; the factorization it means is found by interleaving the splits.      *)
(*                                                                         *)
(* Each thread walks the factorizations of its split in order, pruning the *)
(* mapspace for each and then constructing mappings from it.  What pruning *)
(* and constructing do is in UberMapspace.                                 *)
(***************************************************************************)
EXTENDS Integers, TLAPS

CONSTANTS
  Sizes,         \* sizes of the index factorization space before the split
  SplitCounts    \* numbers of splits, one per thread

ASSUME SplitAssumption == Sizes \subseteq Nat \ {0} /\ SplitCounts \subseteq Nat \ {0}

VARIABLES
  size,          \* size_[IndexFactorization] of the unsplit mapspace
  num_splits,    \* num_parent_splits_ of the splits
  split_size,    \* size_[IndexFactorization] of each split
  local,         \* the next factorization of each split's walk
  pruned,        \* the factorization each split is pruned for
  constructed    \* history: the factorizations each split constructed from

splitVars == <<size, num_splits, split_size, local, pruned, constructed>>

Splits == 0 .. num_splits - 1

NotPruned == -1

RoundedSplitSize_Down(s, n) == s \div n

\* Split: the size is rounded up, and the residue taken off the last splits,
\* one each.
RoundedSplitSize(s, n) == 1 + (s - 1) \div n

SplitResidue(s, n) == RoundedSplitSize(s, n) * n - s

SizeOfSplit(i, s, n) ==
  IF i < n - SplitResidue(s, n) THEN RoundedSplitSize(s, n) ELSE RoundedSplitSize(s, n) - 1

\* The global factorization ID across all splits.
GlobalId_Blocks(i, l) == i * split_size[i] + l

GlobalId(i, l) == l * num_splits + i

SplitInit ==
  /\ size \in Sizes
  /\ num_splits \in SplitCounts
  /\ split_size = [i \in Splits |-> SizeOfSplit(i, size, num_splits)]
  /\ local = [i \in Splits |-> 0]
  /\ pruned = [i \in Splits |-> NotPruned]
  /\ constructed = [i \in Splits |-> {}]

\* InitPruned for the next factorization of a split.
PruneSplit(i) ==
  /\ local[i] < split_size[i]
  /\ pruned[i] = NotPruned
  /\ pruned' = [pruned EXCEPT ![i] = GlobalId(i, local[i])]
  /\ UNCHANGED <<size, num_splits, split_size, local, constructed>>

\* ConstructMapping from the same factorization, the last of which moves the
\* walk on.
ConstructFromSplit(i) ==
  /\ pruned[i] # NotPruned
  /\ constructed' = [constructed EXCEPT ![i] = @ \cup {GlobalId(i, local[i])}]
  /\ local' = [local EXCEPT ![i] = @ + 1]
  /\ pruned' = [pruned EXCEPT ![i] = NotPruned]
  /\ UNCHANGED <<size, num_splits, split_size>>

\* A split that has walked all its factorizations stays idle.
Walked(i) == local[i] = split_size[i]

AllWalked == (\A i \in Splits : Walked(i)) /\ UNCHANGED splitVars

SplitNext == (\E i \in Splits : PruneSplit(i) \/ ConstructFromSplit(i)) \/ AllWalked

SplitSpec == SplitInit /\ [][SplitNext]_splitVars

-----------------------------------------------------------------------------
\* Properties.

SplitTypeOK ==
  /\ size \in Sizes /\ num_splits \in SplitCounts
  /\ split_size \in [Splits -> Nat]
  /\ local \in [Splits -> Nat]
  /\ pruned \in [Splits -> Nat \cup {NotPruned}]
  /\ constructed \in [Splits -> SUBSET Nat]

\* No split ever asks for a factorization beyond the whole space: the tiling
\* counter asserts that.
WithinSpace ==
  \A i \in Splits : pruned[i] < size /\ \A g \in constructed[i] : g < size

\* No factorization belongs to two splits, so no two threads evaluate the
\* same mapping.
SplitsDisjoint ==
  \A i, j \in Splits : i # j => constructed[i] \cap constructed[j] = {}

\* Together the splits cover the space: when all have walked to their end no
\* factorization is left out, whatever the residue.
SplitsCover ==
  (\A i \in Splits : Walked(i)) =>
    \A g \in 0 .. size - 1 : \E i \in Splits : g \in constructed[i]

-----------------------------------------------------------------------------
(***************************************************************************)
(* Proofs, for every size of the mapspace and every number of threads.     *)
(*                                                                         *)
(* Write size - 1 = q * n + r with r < n.  Then the first r + 1 splits have*)
(* q + 1 factorizations and the others q, and each split has constructed   *)
(* exactly the global IDs l * n + i for its local IDs l so far.            *)
(***************************************************************************)

USE SplitAssumption DEF SplitAssumption

-----------------------------------------------------------------------------
\* Arithmetic.

LEMMA ProductMonotone ==
  ASSUME NEW a \in Int, NEW b \in Int, NEW n \in Nat, a <= b
  PROVE  a * n <= b * n /\ a * n \in Int /\ b * n \in Int
<1>1. (b - a) * n >= 0 /\ (b - a) * n = b * n - a * n
  OBVIOUS
<1> QED BY <1>1

LEMMA QuotientAndRemainder ==
  ASSUME NEW a \in Nat, NEW n \in Nat \ {0}
  PROVE  /\ a \div n \in Nat
         /\ a % n \in 0 .. n - 1
         /\ a = (a \div n) * n + (a % n)
OBVIOUS

\* The residue is a number of splits, and the sizes are as said above.
LEMMA SizesOfSplits ==
  ASSUME NEW s \in Nat \ {0}, NEW n \in Nat \ {0}, NEW i \in 0 .. n - 1
  PROVE  /\ SizeOfSplit(i, s, n) =
              IF i <= (s - 1) % n THEN (s - 1) \div n + 1 ELSE (s - 1) \div n
         /\ SizeOfSplit(i, s, n) \in Nat
<1> DEFINE q == (s - 1) \div n  r == (s - 1) % n
<1>1. q \in Nat /\ r \in 0 .. n - 1 /\ s - 1 = q * n + r /\ q * n \in Int
  BY QuotientAndRemainder
<1>2. RoundedSplitSize(s, n) = 1 + q
  BY DEF RoundedSplitSize
<1> HIDE DEF q, r
<1>3. (1 + q) * n = q * n + n
  BY <1>1
<1>4. SplitResidue(s, n) = n - 1 - r
  BY <1>1, <1>2, <1>3 DEF SplitResidue
<1>5. /\ SizeOfSplit(i, s, n) = IF i <= r THEN q + 1 ELSE q
      /\ SizeOfSplit(i, s, n) \in Nat
  BY <1>1, <1>2, <1>4 DEF SizeOfSplit
<1> QED BY <1>5 DEF q, r

\* A local ID of a split is within the split exactly if its global ID is
\* within the space.
LEMMA GlobalIdInSpace ==
  ASSUME NEW s \in Nat \ {0}, NEW n \in Nat \ {0}, NEW i \in 0 .. n - 1, NEW l \in Nat
  PROVE  l < SizeOfSplit(i, s, n) <=> l * n + i < s
<1> DEFINE q == (s - 1) \div n  r == (s - 1) % n
<1>1. q \in Nat /\ r \in 0 .. n - 1 /\ s - 1 = q * n + r /\ q * n \in Int /\ l * n \in Int
  BY QuotientAndRemainder
<1>2. SizeOfSplit(i, s, n) = IF i <= r THEN q + 1 ELSE q
  BY SizesOfSplits
<1> HIDE DEF q, r
<1>3. CASE l < q
  <2>1. (l + 1) * n <= q * n
    BY <1>1, <1>3, ProductMonotone
  <2>2. (l + 1) * n = l * n + n
    BY <1>1
  <2> QED BY <1>1, <1>2, <1>3, <2>1, <2>2
<1>4. CASE l = q
  BY <1>1, <1>2, <1>4
<1>5. CASE l > q
  <2>1. (q + 1) * n <= l * n
    BY <1>1, <1>5, ProductMonotone
  <2>2. (q + 1) * n = q * n + n
    BY <1>1
  <2> QED BY <1>1, <1>2, <1>5, <2>1, <2>2
<1> QED BY <1>1, <1>3, <1>4, <1>5

\* Two splits never give the same global ID.
LEMMA GlobalIdsDistinct ==
  ASSUME NEW n \in Nat \ {0}, NEW i \in 0 .. n - 1, NEW j \in 0 .. n - 1,
         NEW k \in Nat, NEW l \in Nat, k * n + i = l * n + j
  PROVE  i = j
<1>1. k * n \in Int /\ l * n \in Int
  OBVIOUS
<1>2. CASE k < l
  <2>1. (k + 1) * n <= l * n /\ (k + 1) * n = k * n + n
    BY <1>2, ProductMonotone
  <2> QED BY <1>1, <2>1
<1>3. CASE l < k
  <2>1. (l + 1) * n <= k * n /\ (l + 1) * n = l * n + n
    BY <1>3, ProductMonotone
  <2> QED BY <1>1, <2>1
<1>4. CASE k = l
  BY <1>1, <1>4
<1> QED BY <1>2, <1>3, <1>4

-----------------------------------------------------------------------------
\* The inductive invariant: what each split has constructed is determined by
\* how far it has walked.

ConstructedSoFar(i) == {GlobalId(i, l) : l \in 0 .. local[i] - 1}

WalkInv ==
  /\ size \in Sizes /\ num_splits \in SplitCounts
  /\ split_size = [i \in Splits |-> SizeOfSplit(i, size, num_splits)]
  /\ local \in [Splits -> Nat]
  /\ pruned \in [Splits -> Nat \cup {NotPruned}]
  /\ constructed \in [Splits -> SUBSET Nat]
  /\ \A i \in Splits :
       /\ local[i] <= split_size[i]
       /\ pruned[i] # NotPruned => local[i] < split_size[i] /\ pruned[i] = GlobalId(i, local[i])
       /\ constructed[i] = ConstructedSoFar(i)

LEMMA Counts ==
  ASSUME WalkInv
  PROVE  /\ size \in Nat \ {0} /\ num_splits \in Nat \ {0} /\ Splits = 0 .. num_splits - 1
         /\ \A i \in Splits :
              /\ split_size[i] = SizeOfSplit(i, size, num_splits)
              /\ split_size[i] \in Nat
              /\ \A l \in Nat : GlobalId(i, l) \in Nat
<1>1. size \in Nat \ {0} /\ num_splits \in Nat \ {0} /\ Splits = 0 .. num_splits - 1
  BY DEF WalkInv, Splits
<1>2. ASSUME NEW i \in Splits PROVE split_size[i] = SizeOfSplit(i, size, num_splits)
  BY <1>2 DEF WalkInv
<1>3. ASSUME NEW i \in Splits PROVE SizeOfSplit(i, size, num_splits) \in Nat
  BY <1>1, <1>3, SizesOfSplits
<1>4. ASSUME NEW i \in Splits, NEW l \in Nat PROVE GlobalId(i, l) \in Nat
  <2>1. l * num_splits \in Nat
    BY <1>1, ProductMonotone
  <2> QED BY <1>1, <1>4, <2>1 DEF GlobalId
<1> QED BY <1>1, <1>2, <1>3, <1>4

LEMMA WalkInvInit == SplitInit => WalkInv
<1> SUFFICES ASSUME SplitInit PROVE WalkInv
  OBVIOUS
<1>1. size \in Nat \ {0} /\ num_splits \in Nat \ {0} /\ Splits = 0 .. num_splits - 1
  BY DEF SplitInit, Splits
<1>2. ASSUME NEW i \in Splits PROVE split_size[i] \in Nat
  <2>1. split_size[i] = SizeOfSplit(i, size, num_splits)
    BY <1>2 DEF SplitInit
  <2> QED BY <1>1, <1>2, <2>1, SizesOfSplits
<1>3. ASSUME NEW i \in Splits
      PROVE  local[i] = 0 /\ pruned[i] = NotPruned /\ constructed[i] = {} /\ ConstructedSoFar(i) = {}
  BY <1>3 DEF SplitInit, ConstructedSoFar
<1> QED BY <1>2, <1>3 DEF SplitInit, WalkInv

LEMMA WalkInvStep == WalkInv /\ [SplitNext]_splitVars => WalkInv'
<1> SUFFICES ASSUME WalkInv, [SplitNext]_splitVars PROVE WalkInv'
  OBVIOUS
<1>1. ASSUME NEW i \in Splits, PruneSplit(i) PROVE WalkInv'
  <2>1. GlobalId(i, local[i]) \in Nat
    BY Counts DEF WalkInv
  <2>2. /\ Splits' = Splits
        /\ \A j \in Splits : ConstructedSoFar(j)' = ConstructedSoFar(j)
    BY <1>1 DEF PruneSplit, Splits, ConstructedSoFar, GlobalId
  <2>3. \A j \in Splits, l \in Nat : GlobalId(j, l)' = GlobalId(j, l)
    BY <1>1 DEF PruneSplit, GlobalId
  <2>4. ASSUME NEW j \in Splits
        PROVE  pruned'[j] # NotPruned =>
                 local[j] < split_size[j] /\ pruned'[j] = GlobalId(j, local[j])
    BY <1>1 DEF PruneSplit, WalkInv
  <2> QED BY <1>1, <2>1, <2>2, <2>3, <2>4 DEF PruneSplit, WalkInv, GlobalId
<1>2. ASSUME NEW i \in Splits, ConstructFromSplit(i) PROVE WalkInv'
  <2>1. /\ local[i] \in Nat /\ local[i] < split_size[i] /\ split_size[i] \in Nat
        /\ GlobalId(i, local[i]) \in Nat
    BY <1>2, Counts DEF ConstructFromSplit, WalkInv
  <2>2. /\ Splits' = Splits
        /\ local' = [local EXCEPT ![i] = local[i] + 1]
        /\ pruned' = [pruned EXCEPT ![i] = NotPruned]
        /\ constructed' = [constructed EXCEPT ![i] = @ \cup {GlobalId(i, local[i])}]
        /\ size' = size /\ num_splits' = num_splits /\ split_size' = split_size
    BY <1>2 DEF ConstructFromSplit, Splits
  <2>3. ASSUME NEW j \in Splits PROVE ConstructedSoFar(j)' = constructed'[j]
    <3>1. CASE j = i
      <4>1. 0 .. local'[i] - 1 = (0 .. local[i] - 1) \cup {local[i]}
        BY <2>1, <2>2 DEF WalkInv
      <4> QED BY <2>1, <2>2, <3>1, <4>1 DEF ConstructedSoFar, GlobalId, WalkInv
    <3>2. CASE j # i
      BY <2>2, <3>2 DEF ConstructedSoFar, GlobalId, WalkInv
    <3> QED BY <3>1, <3>2
  <2>4. ASSUME NEW j \in Splits
        PROVE  /\ local'[j] <= split_size'[j]
               /\ pruned'[j] # NotPruned =>
                    local'[j] < split_size'[j] /\ pruned'[j] = GlobalId(j, local[j])' 
    BY <2>1, <2>2 DEF WalkInv, GlobalId
  <2>5. /\ local' \in [Splits -> Nat]
        /\ pruned' \in [Splits -> Nat \cup {NotPruned}]
        /\ constructed' \in [Splits -> SUBSET Nat]
    BY <2>1, <2>2 DEF WalkInv
  <2> QED BY <2>2, <2>3, <2>4, <2>5 DEF WalkInv, GlobalId
<1>3. CASE UNCHANGED splitVars
  BY <1>3 DEF splitVars, WalkInv, Splits, ConstructedSoFar, GlobalId
<1> QED BY <1>1, <1>2, <1>3 DEF SplitNext, AllWalked

THEOREM WalkInvariant == SplitSpec => []WalkInv
BY WalkInvInit, WalkInvStep, PTL DEF SplitSpec

-----------------------------------------------------------------------------
\* Type correctness of the split mapspaces.
THEOREM TypeCorrect == SplitSpec => []SplitTypeOK
<1>1. WalkInv => SplitTypeOK
  <2> SUFFICES ASSUME WalkInv PROVE SplitTypeOK
    OBVIOUS
  <2>1. \A i \in Splits : split_size[i] \in Nat
    BY Counts
  <2> QED BY <2>1 DEF WalkInv, SplitTypeOK
<1> QED BY <1>1, WalkInvariant, PTL

\* However many threads share however many factorizations, PruneSplit and
\* ConstructFromSplit never ask the tiling counter for one out of range.
THEOREM StaysWithinSpace == SplitSpec => []WithinSpace
<1>1. WalkInv => WithinSpace
  <2> SUFFICES ASSUME WalkInv, NEW i \in Splits
               PROVE  pruned[i] < size /\ \A g \in constructed[i] : g < size
    BY DEF WithinSpace
  <2>1. ASSUME NEW l \in Nat, l < split_size[i] PROVE GlobalId(i, l) < size
    BY <2>1, Counts, GlobalIdInSpace DEF GlobalId
  <2>2. pruned[i] < size
    <3>1. CASE pruned[i] = NotPruned
      BY <3>1, Counts DEF NotPruned
    <3>2. CASE pruned[i] # NotPruned
      <4>1. local[i] \in Nat /\ local[i] < split_size[i] /\ pruned[i] = GlobalId(i, local[i])
        BY <3>2 DEF WalkInv
      <4> QED BY <2>1, <4>1
    <3> QED BY <3>1, <3>2
  <2>3. ASSUME NEW l \in 0 .. local[i] - 1 PROVE l \in Nat /\ l < split_size[i]
    BY Counts DEF WalkInv
  <2>4. ASSUME NEW g \in constructed[i] PROVE g < size
    <3>1. PICK l \in 0 .. local[i] - 1 : g = GlobalId(i, l)
      BY <2>4 DEF WalkInv, ConstructedSoFar
    <3> QED BY <2>1, <2>3, <3>1
  <2> QED BY <2>2, <2>4
<1> QED BY <1>1, WalkInvariant, PTL

\* No two threads ever construct from the same factorization.
THEOREM SplitsStayDisjoint == SplitSpec => []SplitsDisjoint
<1>1. WalkInv => SplitsDisjoint
  <2> SUFFICES ASSUME WalkInv, NEW i \in Splits, NEW j \in Splits, i # j,
                      NEW g \in constructed[i] \cap constructed[j]
               PROVE  FALSE
    BY DEF SplitsDisjoint
  <2>1. PICK k \in 0 .. local[i] - 1 : g = GlobalId(i, k)
    BY DEF WalkInv, ConstructedSoFar
  <2>2. PICK l \in 0 .. local[j] - 1 : g = GlobalId(j, l)
    BY DEF WalkInv, ConstructedSoFar
  <2>3. k \in Nat /\ l \in Nat
    BY DEF WalkInv
  <2>4. k * num_splits + i = l * num_splits + j
    BY <2>1, <2>2 DEF GlobalId
  <2> QED BY <2>3, <2>4, Counts, GlobalIdsDistinct
<1> QED BY <1>1, WalkInvariant, PTL

\* When every thread has walked its split to the end, every factorization of
\* the unsplit mapspace has been constructed from.
THEOREM SplitsCoverSpace == SplitSpec => []SplitsCover
<1>1. WalkInv => SplitsCover
  <2> SUFFICES ASSUME WalkInv, \A i \in Splits : Walked(i), NEW g \in 0 .. size - 1
               PROVE  \E i \in Splits : g \in constructed[i]
    BY DEF SplitsCover
  <2> DEFINE i == g % num_splits  l == g \div num_splits
  <2>1. /\ g \in Nat /\ g < size
        /\ i \in 0 .. num_splits - 1 /\ i \in Splits /\ l \in Nat
        /\ g = l * num_splits + i
    <3>1. g \in Nat /\ g < size /\ num_splits \in Nat \ {0} /\ Splits = 0 .. num_splits - 1
      BY Counts
    <3> QED BY ONLY <3>1, QuotientAndRemainder
  <2> HIDE DEF i, l
  <2>2. l < split_size[i]
    BY <2>1, Counts, GlobalIdInSpace
  <2>3. l \in 0 .. local[i] - 1
    BY <2>1, <2>2, Counts DEF Walked, WalkInv
  <2>4. g \in ConstructedSoFar(i)
    BY <2>1, <2>3 DEF ConstructedSoFar, GlobalId
  <2> QED BY <2>1, <2>4 DEF WalkInv
<1> QED BY <1>1, WalkInvariant, PTL
=============================================================================
