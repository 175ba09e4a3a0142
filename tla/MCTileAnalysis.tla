---------------------------- MODULE MCTileAnalysis ----------------------------
(***************************************************************************)
(* TileAnalysis on nests of a one-dimensional convolution,                 *)
(* O[p, k] += W[r, k] * I[p + r], and of a matrix product over a flattened *)
(* dimension, mapped to three storage levels.                              *)
(***************************************************************************)
EXTENDS TileAnalysis

P == 1
R == 2
K == 3

\* Data spaces W, I and O; the factors list the flattened dimensions.
Convolution(p, r, k) ==
  [factors |-> <<<<P>>, <<R>>, <<K>>>>, bounds |-> <<p, r, k>>,
   projections |-> <<<< <<<<R, 1>>>>, <<<<K, 1>>>> >>, << <<<<P, 1>>, <<R, 1>>>> >>,
                     << <<<<P, 1>>>>, <<<<K, 1>>>> >>>>,
   written |-> {3}]

Loop(dim, end, residual, st) == [dim |-> dim, end |-> end, residual |-> residual, st |-> st]

T(dim, end) == Loop(dim, end, end, "Time")
X(dim, end) == Loop(dim, end, end, "SpaceX")
Y(dim, end) == Loop(dim, end, end, "SpaceY")

NoSkew == [modulo |-> 0, terms |-> <<>>]

Nest(w, loops, boundaries, fanout) ==
  [w |-> w, loops |-> loops, boundaries |-> boundaries,
   physical |-> [x |-> fanout, y |-> [l \in DOMAIN fanout |-> 1]],
   skews |-> [l \in DOMAIN fanout |-> NoSkew],
   temporal |-> TRUE, spatial |-> TRUE, run_last |-> FALSE,
   no_temporal_reuse |-> {}, no_multicast |-> {}, no_link_transfer |-> {}]

\* Z[m, n] += A[m, k] * B[k, n], where one loop dimension, MN, is m and n
\* flattened into one.
MN == 1
KK == 2
Product ==
  [factors |-> <<<<1, 2>>, <<3>>>>, bounds |-> <<3, 2, 2>>,
   projections |-> <<<< <<<<1, 1>>>>, <<<<3, 1>>>> >>, << <<<<3, 1>>>>, <<<<2, 1>>>> >>,
                     << <<<<1, 1>>>>, <<<<2, 1>>>> >>>>,
   written |-> {3}]

\* The instances along one dimension rotate by one with every step of a loop.
Skewed(n, level, modulo, along, with) ==
  LET term(dim, spatial) == [constant |-> 1, variable |-> [dim |-> dim, spatial |-> spatial],
                             bound |-> [dim |-> 0, spatial |-> FALSE]]
  IN [n EXCEPT !.skews[level] = [modulo |-> modulo, terms |-> <<term(along, TRUE), term(with, FALSE)>>]]

Exact(n) == [n EXCEPT !.temporal = FALSE, !.spatial = FALSE]

L == <<
 Nest(Convolution(4, 2, 2),<<T(P,2),T(R,2), X(K,2),T(P,1),X(P,2),T(P,1)>>, {2,4,6},<<1,2,2>>),
 Nest(Convolution(4, 2, 2),<<T(R,2), X(K,2),T(P,4),T(P,1)>>, {1,3,4},<<1,2,1>>),
 Nest(Convolution(4, 2, 2),<<T(R,2), X(P,2),Y(K,2),T(P,2),T(P,1)>>, {1,4,5},<<1,2,1>>),
 Nest(Convolution(4, 2, 2),<<T(R,2), X(P,2),T(K,2),T(P,2),T(P,1)>>, {1,4,5},<<1,2,1>>),
 Nest(Convolution(4, 3, 2),<<T(K,2), X(P,2),T(R,3),T(P,2),T(P,1)>>, {1,4,5},<<1,2,1>>),
 Nest(Convolution(6, 6, 2),<<T(K,2), X(P,3),T(R,3),T(R,1),T(P,2),T(R,2)>>, {1,4,6},<<1,3,1>>),
 Nest(Convolution(2, 3, 2),<<T(K,2), X(P,2),T(R,3),Loop(P,2,1,"Time"),T(K,1)>>, {1,3,5},<<1,2,1>>),
 Nest(Convolution(5, 3, 2),<<T(K,2), Loop(P,2,1,"Time"),T(R,3),Loop(P,3,3,"Time"),T(K,1)>>, {1,3,5},<<1,1,1>>),
 Nest(Convolution(6, 4, 2),<<T(R,2),T(P,3), X(K,2),T(P,2),T(R,2),T(K,1)>>, {2,5,6},<<1,2,1>>),
 Nest(Convolution(4, 2, 4),<<T(R,2), X(P,2),T(K,2),X(K,2),T(P,2),T(P,1)>>, {1,3,5,6},<<1,2,2,1>>),
 Nest(Convolution(4, 3, 2),<<T(K,1), X(P,2),T(R,3),X(K,2),T(P,2)>>, {1,3,5},<<1,2,2>>),
 Nest(Product,<<T(KK,2), X(MN,2),T(MN,1),T(MN,3)>>, {1,3,4},<<1,2,1>>),
 Nest(Product,<<Loop(MN,4,2,"Time"), X(KK,2),T(KK,1),T(MN,2)>>, {1,3,4},<<1,2,1>>)
>>
RotatingInstances ==
 Skewed(Nest(Convolution(4, 2, 2),<<T(K,2),X(P,2),T(R,2),T(P,2)>>, {1,3,4},<<1,2,1>>),2,2,P,R)
MCNests == {Exact(RotatingInstances)} \cup {L[i] : i \in DOMAIN L} \cup {Exact(L[i]) : i \in DOMAIN L}
MCDistributions == {{}, {1, 2}}
MCNoCoalesce == {{}, {2}}
MCFirstUpdates == {{2}}
===============================================================================
