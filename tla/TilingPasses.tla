----------------------------- MODULE TilingPasses -----------------------------
(***************************************************************************)
(* The passes that turn the tiles of all loop levels into the tiles of the *)
(* storage levels and their reads, fills and updates                       *)
(* (src/src/loop-analysis/tiling.cpp).  A tile nest is the sequence of the *)
(* tiles of one data space, innermost level first; every pass takes one    *)
(* and returns the next.  A level that does not hold the data space is     *)
(* masked: its tile gets size 0 and its children's accesses are promoted   *)
(* to the next level that holds it.                                        *)
(*                                                                         *)
(* Counts that are doubles in the code are rationals.  Access statistics   *)
(* are functions of the <<multicast, scatter>> factors.  Shapes, formats,  *)
(* hops and subnests are left out.                                         *)
(***************************************************************************)
EXTENDS Rational, SequencesExt, FiniteSetsExt

NoLevel == 0

SumQ(f(_), S) == MapThenFoldSet(QAdd, Zero, f, LAMBDA T : CHOOSE x \in T : TRUE, S)

TotalAccesses(stats) == SumQ(LAMBDA k : stats[k], DOMAIN stats)

WeightedAccesses(stats) == SumQ(LAMBDA k : QMul(stats[k], Int2Q(k[1])), DOMAIN stats)

NoStats == [k \in {} |-> Zero]

\* DataMovementInfo::Reset.
ResetTile(t) ==
  [t EXCEPT !.size = 0, !.partition = 0, !.access = NoStats, !.distributed = NoStats, !.share = Zero,
            !.content = Zero, !.fills = Zero, !.reads = Zero, !.updates = Zero, !.link = Zero,
            !.peer_accesses = Zero, !.peer_fills = Zero, !.replication = 0, !.fanout = 0,
            !.parent = NoLevel, !.child = NoLevel, !.no_coalesce = FALSE, !.rmw_first_update = FALSE]

Live(nest) == {l \in DOMAIN nest : nest[l].size > 0}

\* The next level outwards that holds the data space, or NoLevel.
NextOuter(nest, l) ==
  LET outer == {o \in Live(nest) : o > l} IN IF outer = {} THEN NoLevel ELSE Min(outer)

-----------------------------------------------------------------------------
\* CollapseDataMovementNest: a storage level's size and replication come from
\* its outermost loop, its accesses and fanout from its innermost one.
Blocks(tiles) ==
  LET ends == {i \in DOMAIN tiles : tiles[i].boundary \/ i = Len(tiles)}
  IN [b \in 1 .. Cardinality(ends) |->
       LET end == CHOOSE e \in ends : Cardinality({f \in ends : f <= e}) = b
       IN [inner |-> 1 + Max({0} \cup {e \in ends : e < end}), outer |-> end]]

Collapse(tiles, no_coalesce, rmw_first_update) ==
  LET blocks == Blocks(tiles)
      inner(b) == tiles[blocks[b].inner]
      outer(b) == tiles[blocks[b].outer]
      denominator(b) == IF b = Len(blocks) THEN 0
                        ELSE IF inner(b + 1).master THEN inner(b + 1).size ELSE outer(b).size
  IN [b \in DOMAIN blocks |->
       [size |-> outer(b).size, partition |-> 0, denominator |-> denominator(b),
        access |-> inner(b).access, distributed |-> NoStats, content |-> TotalAccesses(inner(b).access),
        link |-> Int2Q(inner(b).link), fanout |-> inner(b).fanout, replication |-> outer(b).replication,
        share |-> Zero, fills |-> Zero, reads |-> Zero, updates |-> Zero, reductions |-> Zero,
        peer_accesses |-> Zero, peer_fills |-> Zero, parent |-> NoLevel, child |-> NoLevel,
        no_coalesce |-> b \in no_coalesce, rmw_first_update |-> b \in rmw_first_update]]

\* ComputePartitionSizes, from the outermost level in.
ComputePartitionSizes(nest) ==
  LET top == Len(nest)
      partition[l \in 1 .. top] ==
        IF l = top THEN nest[l].size
        ELSE IF nest[l].denominator = 0 THEN partition[l + 1]
        ELSE (partition[l + 1] * nest[l].size) \div nest[l].denominator
  IN [l \in DOMAIN nest |-> [nest[l] EXCEPT !.partition = partition[l]]]

\* ComputeParentAccessShare: what one child gets of its parent's accesses.
ShareOf(outer) == QDiv(WeightedAccesses(outer.access), Int2Q(outer.fanout))

ComputeParentAccessShare(nest, updated_rmw) ==
  [l \in DOMAIN nest |->
    IF nest[l].size = 0 THEN nest[l]
    ELSE [nest[l] EXCEPT !.share =
           IF NextOuter(nest, l) # NoLevel THEN ShareOf(nest[NextOuter(nest, l)])
           ELSE IF updated_rmw THEN Int2Q(nest[l].partition) ELSE Zero]]

\* DistributeTiles: the first level that supports distributed multicast and
\* whose parent multicasts keeps only its share of the data; the rest comes
\* from its siblings.  Irregular multicasts end the program.
Simple(stats) == Cardinality(DOMAIN stats) = 1

Factors(stats) == CHOOSE k \in DOMAIN stats : TRUE

Candidates(nest, supported) ==
  {l \in Live(nest) \cap supported : l < Len(nest) /\ NextOuter(nest, l) # NoLevel}

Distributable(nest, l) == Factors(nest[NextOuter(nest, l)].access)[1] > 1

\* The levels the loop looks at before it stops.
Inspected(nest, supported) ==
  {l \in Candidates(nest, supported) :
    \A k \in Candidates(nest, supported) :
      k < l => Simple(nest[k].access) /\ Simple(nest[NextOuter(nest, k)].access) /\ ~Distributable(nest, k)}

ComplexSignature(nest, supported) ==
  \E l \in Inspected(nest, supported) : ~Simple(nest[l].access) \/ ~Simple(nest[NextOuter(nest, l)].access)

CeilDiv(n, d) == 1 + ((n - 1) \div d)

Distribute(nest, inner) ==
  LET outer == NextOuter(nest, inner)
      factors == Factors(nest[outer].access)
      accesses == nest[outer].access[factors]
      spread(q) == QAdd(Int2Q(1), QDiv(QSub(q, Int2Q(1)), Int2Q(factors[1])))
  IN [nest EXCEPT
       ![outer].access = [k \in {<<1, factors[1] * factors[2]>>} |-> accesses],
       ![outer].distributed = [k \in {factors} |-> TotalAccesses(nest[inner].access)],
       ![inner].size = CeilDiv(@, factors[1]),
       ![inner].partition = CeilDiv(@, factors[1]),
       ![inner].content = spread(@),
       ![inner].share = spread(@)]

DistributeTiles(nest, supported) ==
  LET chosen == {l \in Inspected(nest, supported) : Distributable(nest, l)}
  IN IF chosen = {} THEN nest ELSE Distribute(nest, Min(chosen))

-----------------------------------------------------------------------------
\* MaskTiles for one level.  The parent is accessed as often as the masked
\* child was, per child; link transfers between the children are dropped.
Obliterate(t) == [t EXCEPT !.size = 0, !.partition = 0, !.content = Zero, !.share = Zero]

Promote_IgnoresMulticast(outer, content) ==
  LET factor == QDiv(QMul(content, Int2Q(outer.fanout)), TotalAccesses(outer.access))
      access == [k \in DOMAIN outer.access |-> QMul(outer.access[k], factor)]
  IN IF DOMAIN outer.access = {} THEN [outer EXCEPT !.content = Zero]
     ELSE [outer EXCEPT !.access = access, !.link = Zero, !.content = TotalAccesses(access)]

Promote(outer, content) ==
  LET factor == QDiv(QMul(content, Int2Q(outer.fanout)), WeightedAccesses(outer.access))
      access == [k \in DOMAIN outer.access |-> QMul(outer.access[k], factor)]
  IN IF DOMAIN outer.access = {} THEN [outer EXCEPT !.content = Zero]
     ELSE [outer EXCEPT !.access = access, !.link = Zero, !.content = TotalAccesses(access)]

MaskLevel(nest, l, mask) ==
  LET outer == NextOuter(nest, l) IN
  IF nest[l].size = 0 \/ (l \in mask /\ ~nest[l].no_coalesce) THEN nest
  ELSE IF outer = NoLevel THEN [nest EXCEPT ![l] = Obliterate(@)]
  ELSE [nest EXCEPT ![outer] = Promote(@, nest[l].content),
                    ![l] = IF l \in mask THEN @ ELSE Obliterate(@)]

MaskTiles(nest, mask) ==
  FoldLeft(LAMBDA n, l : MaskLevel(n, l, mask), nest, [l \in DOMAIN nest |-> l])

\* ProcessOuterMaskedLevels: the outermost levels that do not hold the data
\* space move no data at all, and the first that does is not filled.
Holds(nest, l, mask) == l \in mask /\ ~nest[l].no_coalesce

ProcessOuterMaskedLevels(nest, mask) ==
  LET backing == Max({0} \cup {l \in DOMAIN nest : Holds(nest, l, mask)})
  IN [l \in DOMAIN nest |->
       IF l > backing
         THEN [ResetTile(nest[l]) EXCEPT !.distributed = nest[l].distributed, !.replication = nest[l].replication]
         ELSE IF l = backing THEN [nest[l] EXCEPT !.share = Zero] ELSE nest[l]]

ResetBackingStorageFills(nest) ==
  IF Live(nest) = {} THEN nest ELSE [nest EXCEPT ![Max(Live(nest))].fills = Zero]

\* ComputePeerAccesses: a level's link transfers are read from and filled into
\* the level inside it, spread over all its instances.
PeerLevels(nest) == {l \in DOMAIN nest : l > 1 /\ nest[l].link # Zero}

ComputePeerAccesses(nest) ==
  [l \in DOMAIN nest |->
    IF l + 1 \notin PeerLevels(nest) THEN nest[l]
    ELSE LET each == QDiv(nest[l + 1].link, Int2Q(nest[l].replication))
         IN [nest[l] EXCEPT !.peer_accesses = QAdd(@, each), !.peer_fills = QAdd(@, each)]]

-----------------------------------------------------------------------------
\* ComputeReadUpdateReductionAccesses_Legacy for a level.  A read-write data
\* space is updated by every access and read before all but the first.
RoundedQ(q) == Int2Q(QRound(q))

IsOutermost(nest, l) == \A o \in Live(nest) : o <= l

LegacyReadWrite(nest, l, elide) ==
  LET t == nest[l]
      accesses == QAdd(t.content, t.peer_accesses)
      filled == QAdd(t.share, t.peer_fills)
      less(q) == RoundedQ(QSub(q, Int2Q(t.partition)))
      elided == elide /\ ~t.rmw_first_update
      reads == IF t.no_coalesce \/ ~elided THEN RoundedQ(accesses) ELSE less(accesses)
  IN [t EXCEPT !.updates = RoundedQ(t.content), !.reads = reads, !.reductions = reads,
               !.fills = IF t.no_coalesce THEN reads
                         ELSE IF elided /\ ~IsOutermost(nest, l) THEN less(filled) ELSE RoundedQ(filled)]

ReadOnly(t, fills) ==
  [t EXCEPT !.reads = RoundedQ(QAdd(t.content, t.peer_accesses)), !.updates = Zero,
            !.reductions = Zero, !.fills = Int2Q(QTrunc(fills))]

Bypassed(t) == [t EXCEPT !.reads = Zero, !.updates = Zero, !.fills = Zero, !.reductions = Zero]

\* The assertion on read-write data spaces.
AccessesCoverPartition(t) == ~QLess(QAdd(t.content, t.peer_accesses), Int2Q(t.partition))

ComputeReadUpdateReductionAccesses_Legacy(nest, read_write, elide) ==
  [l \in DOMAIN nest |->
    IF nest[l].size = 0 THEN Bypassed(nest[l])
    ELSE IF read_write THEN LegacyReadWrite(nest, l, elide)
    ELSE ReadOnly(nest[l], QAdd(nest[l].share, nest[l].peer_fills))]

\* The UpdatedRMW variant: only the second level that holds the data space
\* reduces on behalf of its parent.
UpdatedReadWrite(nest, l, elide) ==
  LET t == nest[l]
      second == ~IsOutermost(nest, l) /\ Cardinality({o \in Live(nest) : o > l}) = 1
      tax == IF ~second THEN Zero
             ELSE IF elide THEN QSub(t.share, Int2Q(t.partition)) ELSE t.share
      peers == IF t.peer_accesses = Zero THEN Zero ELSE QSub(t.peer_accesses, Int2Q(t.partition))
      own == RoundedQ(QSub(t.content, t.share))
      taxed == Int2Q(QTrunc(QAdd(own, tax)))
  IN [t EXCEPT !.fills = Int2Q(QTrunc(tax)), !.reads = Int2Q(QTrunc(QAdd(taxed, peers))),
               !.reductions = QAdd(QAdd(IF l = Len(nest) THEN Zero ELSE own, tax), peers),
               !.updates = Int2Q(QTrunc(QAdd(RoundedQ(t.content), t.peer_accesses)))]

PeersCoverPartition(t) == t.peer_accesses = Zero \/ ~QLess(t.peer_accesses, Int2Q(t.partition))

ComputeReadUpdateReductionAccesses_UpdatedRMW(nest, read_write, elide) ==
  [l \in DOMAIN nest |->
    IF nest[l].size = 0 THEN Bypassed(nest[l])
    ELSE IF read_write THEN UpdatedReadWrite(nest, l, elide)
    ELSE ReadOnly(nest[l], IF IsOutermost(nest, l) THEN nest[l].peer_fills
                           ELSE QAdd(nest[l].share, nest[l].peer_fills))]

-----------------------------------------------------------------------------
SetParentLevel(nest) ==
  [l \in DOMAIN nest |->
    IF nest[l].size = 0 THEN nest[l] ELSE [nest[l] EXCEPT !.parent = NextOuter(nest, l)]]

SetChildLevel(nest) ==
  [l \in DOMAIN nest |->
    IF l = 1 \/ nest[l].size = 0 THEN nest[l]
    ELSE [nest[l] EXCEPT !.child = Max({NoLevel} \cup {i \in Live(nest) : i < l})]]

\* CheckMaskValidity: every data space is held somewhere.
CheckMaskValidity(masks) == \A pv \in DOMAIN masks : masks[pv] # {}
===============================================================================
