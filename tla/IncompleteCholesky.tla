-------------------------- MODULE IncompleteCholesky --------------------------
(***************************************************************************)
(* One call of incomplete_cholesky(X, kernel, eta, power, blocksize)       *)
(* (src/.../src/incomplete_cholesky.py): the greedy pivoted low-rank       *)
(* factorisation of the kernel matrix of X, evaluated one row at a time.   *)
(*                                                                         *)
(* Data abstraction.  The samples X and the kernel appear only through the *)
(* Gram matrix Kx[p][i] = kernel.kernel([X[p]], X)[i]; the call may use     *)
(* any symmetric positive semidefinite Kx with unit diagonal (the code     *)
(* assumes the diagonal is one, line 62).  Numbers are exact rationals.    *)
(* The code's factor row R[j,:] has entries (K[j,:] - R_dot_j) / sqrt(a);  *)
(* the model stores the numerator RN[j] and the square A[j] = a of the     *)
(* divisor, so that R[j,i] * R[j,k] = RN[j][i] * RN[j][k] / A[j] is        *)
(* rational; every quantity the code and the properties use is a sum of    *)
(* such products.  Rows and pivots are TLA+ sequences (row j of the code   *)
(* is element j + 1); sample indices are 0-based as in the code.           *)
(***************************************************************************)
EXTENDS Integers, Sequences, FiniteSets, QArith

CONSTANTS
  Sizes,       \* the sample counts len(X) a call may be given
  Vals,        \* off-diagonal kernel values (rationals in [0, 1])
  Etas,        \* values of the precision cutoff eta
  Powers,      \* values of the power parameter
  Blocksizes   \* values of the blocksize parameter

VARIABLES
  Kx, eta, power, blocksize,   \* the call's arguments
  pc,     \* "start", "loop", "done", or the exception that ended the call
  d,      \* residual diagonal, sample index -> rational
  a,      \* d.max()
  I,      \* pivot list, including the speculative last pivot while looping
  RN,     \* factor rows R[j,:] * sqrt(A[j]), a sequence
  A,      \* nu[j] ** 2
  cap,    \* len(K) = len(R): rows allocated in the growing buffers
  Kchol,  \* output K_chol
  W       \* output W

vars == <<Kx, eta, power, blocksize, pc, d, a, I, RN, A, cap, Kchol, W>>

Outcomes == {"done", "AssertionError", "ValueError", "IndexError", "LinAlgError"}

-----------------------------------------------------------------------------
(* Inputs *)

Idx(n) == 0..(n - 1)

\* Symmetric unit-diagonal matrices with off-diagonal entries in Vals that
\* are positive semidefinite (every principal minor is non-negative), i.e.
\* the Gram matrices of a kernel with k(x, x) = 1.
Grams(n) ==
  LET Pairs == {<<p, i>> \in Idx(n) \X Idx(n) : p < i}
      Mat(f) == [p \in Idx(n) |-> [i \in Idx(n) |->
                  IF p = i THEN QOne ELSE IF p < i THEN f[<<p, i>>] ELSE f[<<i, p>>]]]
      PrincipalMinorOK(M, S) ==
        LET k == Cardinality(S)
            e == CHOOSE g \in [1..k -> S] : \A x, y \in 1..k : x < y => g[x] < g[y]
        IN  QLeq(QZero, Det([x \in 1..k |-> [y \in 1..k |-> M[e[x]][e[y]]]], k))
  IN  {M \in {Mat(f) : f \in [Pairs -> Vals]} :
         \A S \in SUBSET Idx(n) : PrincipalMinorOK(M, S)}

m == DOMAIN d  \* the sample indices once the call has started
NSamples == Cardinality(DOMAIN Kx)

\* Row p of the evaluated kernel (lines 80-83): kernel ** power, or ones.
Kp(p, i) == IF power >= 1 THEN QPow(Kx[p][i], power) ELSE QOne

\* d.max() and d.argmax() (numpy returns the first maximal index).
DMax(v) == CHOOSE x \in {v[i] : i \in DOMAIN v} : \A i \in DOMAIN v : QLeq(v[i], x)
\* An argmax that breaks ties towards the last index.
ArgMaxLast(v) == CHOOSE i \in DOMAIN v : v[i] = DMax(v) /\ \A k \in DOMAIN v : k > i => v[k] # v[i]
ArgMax(v) == CHOOSE i \in DOMAIN v : v[i] = DMax(v) /\ \A k \in DOMAIN v : k < i => v[k] # v[i]

\* Mutations of RDotOf: the j == 1 branch (R[:1]) used for every j, and
\* the running inner product left out.
RDotOfFirstRowOnly(rows, divs, i, p) ==
  QSum(1, IF Len(rows) > 0 THEN 1 ELSE 0, LAMBDA l : QDiv(QMul(rows[l][i], rows[l][p]), divs[l]))
RDotOfNone(rows, divs, i, p) == QZero

\* (R[:j,:].T . R[:j,p])[i] for factor rows `rows` with squared divisors
\* `divs`: what those rows explain of K[p, i].
RDotOf(rows, divs, i, p) ==
  QSum(1, Len(rows), LAMBDA l : QDiv(QMul(rows[l][i], rows[l][p]), divs[l]))

\* Mutation of RDot: the j == 1 branch (R[:1]) taken for every j.
RDotFirstRowOnly(i, p) == RDotOfFirstRowOnly(RN, A, i, p)
RDot(i, p) == RDotOf(RN, A, i, p)

\* (R.T . R)[p, i] for the current rows.
RtR(p, i) == RDot(i, p)

-----------------------------------------------------------------------------
\* The call's own state before line 52 runs.
Called ==
  /\ pc = "start"
  /\ d = <<>> /\ a = QZero /\ I = <<>> /\ RN = <<>> /\ A = <<>>
  /\ cap = 0 /\ Kchol = <<>> /\ W = <<>>

Init ==
  /\ \E n \in Sizes : Kx \in Grams(n)
  /\ eta \in Etas /\ power \in Powers /\ blocksize \in Blocksizes
  /\ Called

\* Lines 52-76: argument checks, then R, d = ones(m), a = d.max(),
\* I = [d.argmax()], K allocated with blocksize rows.  len(X) = 0 passes
\* the assertions and d.max() of an empty array raises ValueError.
Start ==
  /\ pc = "start"
  /\ \/ /\ ~(QLt(QZero, eta) /\ QLt(eta, QOne) /\ power >= 0 /\ blocksize >= 0)
        /\ pc' = "AssertionError"
        /\ UNCHANGED <<d, a, I, cap>>
     \/ /\ QLt(QZero, eta) /\ QLt(eta, QOne) /\ power >= 0 /\ blocksize >= 0
        /\ NSamples = 0
        /\ pc' = "ValueError"
        /\ UNCHANGED <<d, a, I, cap>>
     \/ /\ QLt(QZero, eta) /\ QLt(eta, QOne) /\ power >= 0 /\ blocksize >= 0
        /\ NSamples > 0
        /\ d' = [i \in Idx(NSamples) |-> QOne]
        /\ a' = DMax(d')
        /\ I' = <<ArgMax(d')>>
        /\ cap' = blocksize
        /\ pc' = "loop"
  /\ UNCHANGED <<Kx, eta, power, blocksize, RN, A, Kchol, W>>

\* Mutations of Iterate: the next pivot taken before d is updated, and the
\* new row divided by a instead of nu[j] = sqrt(a).
IterateStalePivot ==
  /\ pc = "loop" /\ QLt(eta, a)
  /\ LET j == Len(RN)
         row == [i \in m |-> QSub(Kp(I[j + 1], i), RDot(i, I[j + 1]))]
         d2 == [i \in m |-> QSub(d[i], QDiv(QSq(row[i]), a))]
     IN  \/ j >= cap /\ pc' = "IndexError" /\ UNCHANGED <<d, a, I, RN, A, cap>>
         \/ /\ j < cap /\ RN' = Append(RN, row) /\ A' = Append(A, a)
            /\ d' = d2 /\ a' = DMax(d2) /\ I' = Append(I, ArgMax(d))
            /\ cap' = (IF j + 1 >= cap THEN cap + blocksize ELSE cap) /\ UNCHANGED pc
  /\ UNCHANGED <<Kx, eta, power, blocksize, Kchol, W>>
IterateNoSqrt ==
  /\ pc = "loop" /\ QLt(eta, a)
  /\ LET j == Len(RN)
         row == [i \in m |-> QSub(Kp(I[j + 1], i), RDot(i, I[j + 1]))]
         d2 == [i \in m |-> QSub(d[i], QDiv(QSq(row[i]), QSq(a)))]
     IN  \/ j >= cap /\ pc' = "IndexError" /\ UNCHANGED <<d, a, I, RN, A, cap>>
         \/ /\ j < cap /\ RN' = Append(RN, row) /\ A' = Append(A, QSq(a))
            /\ d' = d2 /\ a' = DMax(d2) /\ I' = Append(I, ArgMax(d2))
            /\ cap' = (IF j + 1 >= cap THEN cap + blocksize ELSE cap) /\ UNCHANGED pc
  /\ UNCHANGED <<Kx, eta, power, blocksize, Kchol, W>>

\* Lines 77-101, one iteration of the loop while a > eta.  Row j of K is
\* written at line 81; when j >= len(K) the assignment raises IndexError.
Iterate ==
  /\ pc = "loop"
  /\ QLt(eta, a)
  /\ LET j == Len(RN)
         p == I[j + 1]
         row == [i \in m |-> QSub(Kp(p, i), RDot(i, p))]
         d2 == [i \in m |-> QSub(d[i], QDiv(QSq(row[i]), a))]
     IN  \/ /\ j >= cap
            /\ pc' = "IndexError"
            /\ UNCHANGED <<d, a, I, RN, A, cap>>
         \/ /\ j < cap
            /\ RN' = Append(RN, row)
            /\ A' = Append(A, a)
            /\ d' = d2
            /\ a' = DMax(d2)
            /\ I' = Append(I, ArgMax(d2))
            /\ cap' = IF j + 1 >= cap THEN cap + blocksize ELSE cap
            /\ UNCHANGED pc
  /\ UNCHANGED <<Kx, eta, power, blocksize, Kchol, W>>

\* Solve(Mt, B, r): the X with Mt . X = B (numpy.linalg.solve), by
\* Cramer's rule on the r x r matrix Mt; B has columns indexed by m.
Solve(Mt, B, r) ==
  LET D == Det(Mt, r)
      Col(k, i) == [x \in 1..r |-> [y \in 1..r |-> IF y = k THEN B[x][i] ELSE Mt[x][y]]]
  IN  [k \in 1..r |-> [i \in m |-> QDiv(Det(Col(k, i), r), D)]]

\* Mutations of Finish: the speculative pivot kept, and K_chol taken at
\* the first r columns instead of the pivot columns.
FinishKeepsSpeculativePivot ==
  /\ pc = "loop" /\ QLeq(a, eta)
  /\ LET r == Len(RN)
         piv == SubSeq(I, 1, r)
         RI == [x \in 1..r |-> [y \in 1..r |-> RN[x][piv[y]]]]
     IN  /\ I' = I
         /\ Kchol' = [x \in 1..r |-> [y \in 1..r |-> Kp(piv[x], piv[y])]]
         /\ IF Det(RI, r) = QZero THEN pc' = "LinAlgError" /\ W' = W
            ELSE pc' = "done" /\ W' = Solve(RI, RN, r)
  /\ UNCHANGED <<Kx, eta, power, blocksize, d, a, RN, A, cap>>
FinishLeadingColumns ==
  /\ pc = "loop" /\ QLeq(a, eta)
  /\ LET r == Len(RN)
         piv == SubSeq(I, 1, r)
         RI == [x \in 1..r |-> [y \in 1..r |-> RN[x][piv[y]]]]
     IN  /\ I' = piv
         /\ Kchol' = [x \in 1..r |-> [y \in 1..r |-> Kp(piv[x], y - 1)]]
         /\ IF Det(RI, r) = QZero THEN pc' = "LinAlgError" /\ W' = W
            ELSE pc' = "done" /\ W' = Solve(RI, RN, r)
  /\ UNCHANGED <<Kx, eta, power, blocksize, d, a, RN, A, cap>>

\* Lines 103-116: drop the unused rows and the speculative pivot, then
\* W = solve(R[:, I], R) and K_chol = K[:, I].  R = diag(1/sqrt(A)) . RN,
\* so solve(R[:, I], R) = solve(RN[:, I], RN), which is rational.
Finish ==
  /\ pc = "loop"
  /\ QLeq(a, eta)
  /\ LET r == Len(RN)
         piv == SubSeq(I, 1, r)
         RI == [x \in 1..r |-> [y \in 1..r |-> RN[x][piv[y]]]]
     IN  /\ I' = piv
         /\ Kchol' = [x \in 1..r |-> [y \in 1..r |-> Kp(piv[x], piv[y])]]
         /\ IF Det(RI, r) = QZero
              THEN pc' = "LinAlgError" /\ W' = W
              ELSE pc' = "done" /\ W' = Solve(RI, RN, r)
  /\ UNCHANGED <<Kx, eta, power, blocksize, d, a, RN, A, cap>>

\* The call has returned or raised; nothing changes any more.
Returned == pc \in Outcomes /\ UNCHANGED vars

Next == Start \/ Iterate \/ Finish \/ Returned

Spec == Init /\ [][Next]_vars

-----------------------------------------------------------------------------
(* Properties *)

\* The pivots chosen so far: while looping, the last element of I is the
\* speculative next pivot.
Chosen == IF pc = "loop" THEN SubSeq(I, 1, Len(RN)) ELSE I

\* Shapes: one pivot per factor row (plus the speculative one while
\* looping), the rows fit in the allocated buffers, and the outputs are
\* r x r and r x len(X), as the unit tests assert.
TypeOK ==
  /\ pc \in {"start", "loop"} \cup Outcomes
  /\ cap \in Nat /\ Len(A) = Len(RN)
  /\ pc = "loop" => Len(I) = Len(RN) + 1 /\ Len(RN) <= cap
  /\ pc = "done" => /\ Len(I) = Len(RN)
                    /\ DOMAIN Kchol = 1..Len(I) /\ DOMAIN W = 1..Len(I)
                    /\ \A x \in 1..Len(I) : DOMAIN W[x] = m

\* Greedy pivoting never selects a sample twice, so the rank r = len(I)
\* never exceeds len(X) (which is also why the loop of lines 77-101 ends):
\* d[I[j]] must be exactly explained by row j before d.argmax() is taken.
PivotsDistinct ==
  pc \in {"loop", "done"} =>
    /\ \A x, y \in 1..Len(Chosen) : x # y => Chosen[x] # Chosen[y]
    /\ Len(RN) <= NSamples

\* The rows computed so far reproduce the pivot rows of the kernel matrix
\* exactly: (R.T R)[p, :] = K[p, :] for every chosen pivot p.  This is
\* what the running inner product R_dot_j (lines 85-90) must achieve for
\* every j, including the special cases j = 0 and j = 1.
FactorReproducesPivotRows ==
  pc \in {"loop", "done"} =>
    \A l \in 1..Len(RN), i \in m : RtR(Chosen[l], i) = Kp(Chosen[l], i)

\* The residual diagonal d = diag(K - R.T R) stays non-negative (line 93).
ResidualNonNegative ==
  pc \in {"loop", "done"} => \A i \in m : QLeq(QZero, d[i])

\* Squared Frobenius error ||K - R.T R||^2 of the current factor.
ErrSq(rows, divs) ==
  QSum(0, NSamples - 1, LAMBDA p : QSum(0, NSamples - 1, LAMBDA i :
    QSq(QSub(Kp(p, i), RDotOf(rows, divs, i, p)))))

\* No iteration of the loop makes the approximation ||K - R.T R|| worse.
ErrorNonIncreasing ==
  [][pc = "loop" /\ pc' = "loop" => QLeq(ErrSq(RN', A'), ErrSq(RN, A))]_vars

\* (W.T K_chol W)[p, i].
WtKW(p, i) ==
  QSum(1, Len(I), LAMBDA x : QSum(1, Len(I), LAMBDA y :
    QMul(QMul(W[x][p], Kchol[x][y]), W[y][i])))

\* A returned factorisation meets the cutoff (every residual <= eta) and
\* W.T K_chol W reproduces R.T R: K_chol and W are taken at the pivots
\* actually used, after the speculative one is dropped (lines 104-114).
ReturnedFactorisation ==
  pc = "done" =>
    /\ \A i \in m : QLeq(d[i], eta)
    /\ \A p, i \in m : WtKW(p, i) = RtR(p, i)

\* A call whose arguments pass the assertions of lines 52-55 (including
\* blocksize = 0, allowed by line 54) on a non-empty X returns a result.
ValidCallReturns ==
  (pc \in Outcomes /\ blocksize >= 0 /\ NSamples > 0
   /\ QLt(QZero, eta) /\ QLt(eta, QOne) /\ power >= 0) => pc = "done"
=============================================================================
