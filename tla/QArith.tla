------------------------------- MODULE QArith -------------------------------
(***************************************************************************)
(* Exact rational arithmetic.  The Python code computes with float64       *)
(* numpy arrays; the models compute the same expressions exactly over the  *)
(* rationals, so that a property that fails does so because of the         *)
(* algorithm and not because of rounding.  A rational is a record          *)
(* [num, den] with den > 0 and gcd(|num|, den) = 1, so that equal numbers  *)
(* are equal records.                                                      *)
(***************************************************************************)
EXTENDS Integers, Sequences

Abs(x) == IF x < 0 THEN -x ELSE x

RECURSIVE GCD(_, _)
\* Euclid's algorithm on natural numbers.
GCD(a, b) == IF b = 0 THEN a ELSE GCD(b, a % b)

\* The normalised rational n/d, d # 0.
Q(n, d) ==
  LET g == GCD(Abs(n), Abs(d))
      s == IF d < 0 THEN -1 ELSE 1
  IN  IF n = 0 THEN [num |-> 0, den |-> 1]
      ELSE [num |-> s * (n \div g), den |-> Abs(d) \div g]

QZero == Q(0, 1)
QOne  == Q(1, 1)
QInt(n) == Q(n, 1)

\* Sums and products cancel common factors first, so that intermediate
\* integers stay small (TLC integers are 32-bit).
QAdd(p, q) ==
  LET g == GCD(p.den, q.den)
  IN  Q(p.num * (q.den \div g) + q.num * (p.den \div g), (p.den \div g) * q.den)
QSub(p, q) == QAdd(p, [num |-> -q.num, den |-> q.den])
QMul(p, q) ==
  LET g1 == GCD(Abs(p.num), q.den)
      g2 == GCD(Abs(q.num), p.den)
  IN  IF p.num = 0 \/ q.num = 0 THEN QZero
      ELSE Q((p.num \div g1) * (q.num \div g2), (p.den \div g2) * (q.den \div g1))
QDiv(p, q) == QMul(p, Q(q.den, q.num))     \* q # QZero
QNeg(p)    == [num |-> -p.num, den |-> p.den]
QSq(p)     == QMul(p, p)

QLt(p, q)  == QSub(q, p).num > 0
QLeq(p, q) == QSub(q, p).num >= 0

RECURSIVE QPow(_, _)
\* p ** k for a natural k, as numpy's elementwise power.
QPow(p, k) == IF k = 0 THEN QOne ELSE QMul(p, QPow(p, k - 1))

\* Sum of f(k) for k in lo..hi, added in index order (empty range: zero).
QSum(lo, hi, f(_)) ==
  LET part[k \in (lo - 1)..hi] == IF k < lo THEN QZero ELSE QAdd(part[k - 1], f(k))
  IN  part[hi]

\* The square submatrix of M (indexed 1..n) without row r and column c.
Minor(M, n, r, c) ==
  [x \in 1..(n - 1) |-> [y \in 1..(n - 1) |->
      M[IF x < r THEN x ELSE x + 1][IF y < c THEN y ELSE y + 1]]]

RECURSIVE Det(_, _)
\* Determinant of the n x n rational matrix M, by expansion on the first row.
Det(M, n) ==
  IF n = 0 THEN QOne
  ELSE QSum(1, n, LAMBDA c :
         LET t == QMul(M[1][c], Det(Minor(M, n, 1, c), n - 1))
         IN  IF c % 2 = 1 THEN t ELSE QNeg(t))

\* All rationals in [0, 1] with denominator den.
QUnitGrid(den) == {Q(k, den) : k \in 0..den}
=============================================================================
