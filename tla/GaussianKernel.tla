---------------------------- MODULE GaussianKernel ----------------------------
(***************************************************************************)
(* GaussianKernel (src/.../src/GaussianKernel.py): kernel(X, Y) and the    *)
(* static get_sigma_median_heuristic(X), called with one-dimensional       *)
(* samples, as the pipeline does.                                          *)
(*                                                                         *)
(* An argument is an array of samples: [rank, col], where col lists the   *)
(* sample values and rank is 2 for the (n, 1) array the callers reshape    *)
(* to and 1 for a flat array of n values.  exp is not computed: a kernel   *)
(* matrix is represented by the squared distances it is exp(-0.5 * . /    *)
(* sigma**2) of, so K[i][j] = 1 exactly when the entry is 0.  sqrt is not  *)
(* computed either: the heuristic's result is sigma**2 = 0.5 * median,    *)
(* or numpy.ma.masked where sqrt (numpy.ma's, line 10) gets nan.          *)
(***************************************************************************)
EXTENDS Integers, Sequences, FiniteSets, QArith

CONSTANTS
  Values,    \* sample values (integers)
  MaxN       \* the largest number of samples in an argument

VARIABLES
  op,       \* the call that was made: its name ("idle" before) and arguments
  result    \* what the call returned, or the exception it raised

vars == <<op, result>>

\* Exceptions, nan, masked and None are records, so that TLC can compare every
\* result with every other.
None == [none |-> TRUE]
NaN == [nan |-> TRUE]
\* numpy.ma.masked: what numpy.ma's sqrt (line 10) returns for nan.
Masked == [masked |-> TRUE]
Exc(name) == [exception |-> name]

Cols(n) == UNION {[1..k -> Values] : k \in 0..n}
Arrays == {[rank |-> r, col |-> c] : r \in {1, 2}, c \in Cols(MaxN)}

\* A matrix with r rows and c columns.
Mat(r, c, f(_, _)) == [rows |-> r, cols |-> c, at |-> [i \in 1..r, j \in 1..c |-> f(i, j)]]

\* pdist(X, metric) for a column of samples: the condensed distances of
\* the pairs i < j, as a function of the pair.
PDist(x, dist(_, _)) ==
  [p \in {q \in (1..Len(x)) \X (1..Len(x)) : q[1] < q[2]} |-> dist(x[p[1]], x[p[2]])]

\* squareform of a condensed vector: the symmetric matrix with a zero
\* diagonal.  scipy returns the 1 x 1 zero matrix for an empty vector, so
\* zero and one samples both give [[0]].
SquareForm(pd) ==
  LET n == IF DOMAIN pd = {} THEN 1 ELSE CHOOSE s \in {p[2] : p \in DOMAIN pd} :
                                      \A p \in DOMAIN pd : p[2] <= s
  IN  Mat(n, n, LAMBDA i, j : IF i = j THEN 0
                              ELSE IF i < j THEN pd[<<i, j>>] ELSE pd[<<j, i>>])

\* cdist(X, Y, metric) of two columns of samples.
CDist(x, y, dist(_, _)) == Mat(Len(x), Len(y), LAMBDA i, j : dist(x[i], y[j]))

SqEuclidean(u, v) == (u - v) * (u - v)
Euclidean(u, v) == IF u >= v THEN u - v ELSE v - u   \* one-dimensional samples

\* kernel(X, Y), lines 18-40.  The check at line 31 tests X again, so a
\* flat Y is only rejected by cdist (ValueError); pdist and cdist reject
\* flat arrays the same way.
KernelOf(X, Y) ==
  IF X.rank # 2 THEN Exc("AssertionError")
  ELSE IF Y = None THEN SquareForm(PDist(X.col, SqEuclidean))
  ELSE IF Y.rank # 2 THEN Exc("ValueError")
  ELSE CDist(X.col, Y.col, SqEuclidean)

\* The entries of `dists > 0` with everything else: a mutation that keeps
\* the zeros (`dists >= 0`).
NonNegativeEntries(D) == (1..D.rows) \X (1..D.cols)
\* dists[dists > 0], line 45: the entries of D that are positive.
PositiveEntries(D) == {e \in (1..D.rows) \X (1..D.cols) : D.at[e] > 0}

\* The k-th smallest of the values v[e], e \in P, counted with multiplicity.
KthSmallest(P, v(_), k) ==
  CHOOSE x \in {v(e) : e \in P} :
    Cardinality({e \in P : v(e) < x}) < k /\ k <= Cardinality({e \in P : v(e) <= x})

\* numpy's median of the values v[e], e \in P: the middle value, or the
\* mean of the two middle values; nan for no values.
MedianOf(P, v(_)) ==
  LET L == Cardinality(P)
  IN  IF L = 0 THEN NaN
      ELSE IF L % 2 = 1 THEN QInt(KthSmallest(P, v, (L + 1) \div 2))
      ELSE Q(KthSmallest(P, v, L \div 2) + KthSmallest(P, v, L \div 2 + 1), 2)

\* get_sigma_median_heuristic, lines 42-47, as sigma ** 2 = 0.5 * median.
\* nan propagates through 0.5 * ., and numpy.ma's sqrt masks it.
SigmaSqMedianHeuristic(X) ==
  IF X.rank # 2 THEN Exc("ValueError")
  ELSE LET D == SquareForm(PDist(X.col, Euclidean))
           m == MedianOf(PositiveEntries(D), LAMBDA e : D.at[e])
       IN  IF m = NaN THEN Masked ELSE QDiv(m, QInt(2))

-----------------------------------------------------------------------------
Init == op = [name |-> "idle"] /\ result = None

\* One call of kernel(X) or kernel(X, Y).
Kernel ==
  /\ op.name = "idle"
  /\ \E X \in Arrays, Y \in Arrays \cup {None} :
       op' = [name |-> "kernel", X |-> X, Y |-> Y] /\ result' = KernelOf(X, Y)

\* One call of get_sigma_median_heuristic(X).
MedianHeuristic ==
  /\ op.name = "idle"
  /\ \E X \in Arrays :
       op' = [name |-> "median", X |-> X, Y |-> None] /\ result' = SigmaSqMedianHeuristic(X)

\* The call has returned.
Done == op.name # "idle" /\ UNCHANGED vars

Next == Kernel \/ MedianHeuristic \/ Done

Spec == Init /\ [][Next]_vars

-----------------------------------------------------------------------------
(* Properties *)

\* Spec 4.1 and 5: sigma = sqrt(0.5 * median of the nonzero pairwise
\* distances), i.e. over the pairs i < j of distinct samples.  The code
\* takes the median over the full distance matrix instead: both triangles
\* (every pair twice) with the zero diagonal filtered out by dists > 0
\* (line 45).  The two agree on every input.
MedianOverPairs ==
  (op.name = "median" /\ op.X.rank = 2) =>
    LET x == op.X.col
        P == {p \in (1..Len(x)) \X (1..Len(x)) : p[1] < p[2] /\ x[p[1]] # x[p[2]]}
        m == MedianOf(P, LAMBDA p : Euclidean(x[p[1]], x[p[2]]))
    IN  result = IF m = NaN THEN Masked ELSE QDiv(m, QInt(2))

\* Spec 4.1: the heuristic is undefined and fails if all pairwise distances
\* are zero.  The code takes the median of an empty array (nan), and
\* numpy.ma's sqrt returns numpy.ma.masked for it; nothing is raised.
HeuristicFailsOnZeroDistances ==
  (op.name = "median" /\ op.X.rank = 2
   /\ \A i, j \in 1..Len(op.X.col) : op.X.col[i] = op.X.col[j])
    => result \in {Exc("AssertionError"), Exc("ValueError")}
=============================================================================
