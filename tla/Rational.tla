------------------------------- MODULE Rational -------------------------------
(***************************************************************************)
(* Exact rational numbers, for the doubles of the nest analysis and the    *)
(* tiling passes: counts that are averaged over instances and scaled by    *)
(* ratios.  A number is a pair <<numerator, denominator>>, the denominator *)
(* positive, in lowest terms.                                              *)
(***************************************************************************)
EXTENDS Integers, Sequences

Gcd(a, b) ==
  LET g[p \in Nat \X Nat] == IF p[2] = 0 THEN p[1] ELSE g[<<p[2], p[1] % p[2]>>]
  IN g[<<IF a < 0 THEN -a ELSE a, b>>]

Q(n, d) == LET g == Gcd(n, d) IN <<n \div g, d \div g>>

Rationals == Int \X (Nat \ {0})

\* The numbers from 0 to 1.
Shares == {q \in Rationals : 0 <= q[1] /\ q[1] <= q[2]}

Int2Q(n) == <<n, 1>>

Zero == <<0, 1>>

QAdd(p, q) == Q(p[1] * q[2] + q[1] * p[2], p[2] * q[2])

QSub(p, q) == Q(p[1] * q[2] - q[1] * p[2], p[2] * q[2])

QMul(p, q) == Q(p[1] * q[1], p[2] * q[2])

\* For positive q only.
QDiv(p, q) == Q(p[1] * q[2], p[2] * q[1])

QLess(p, q) == p[1] * q[2] < q[1] * p[2]

\* Conversion of a non-negative double to an integer, and std::round.
QTrunc(p) == p[1] \div p[2]

QRound(p) == IF p[1] >= 0 THEN (2 * p[1] + p[2]) \div (2 * p[2])
             ELSE -((p[2] - 2 * p[1]) \div (2 * p[2]))
===============================================================================
