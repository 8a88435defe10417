-------------------------- MODULE MC_ICUnitTests --------------------------
(* The inputs of test_1 and test_2 of incomplete_cholesky_unittest.py, and *)
(* what those tests assert.  X = reshape(arange(9.0), (3, 3)) has three    *)
(* equally spaced rows, so its Gaussian Gram matrix is [[1,u,v],[u,1,u],  *)
(* [v,u,1]] with u = k(x0, x1) and v = k(x0, x2).  exp is irrational; the *)
(* runs take rationals close to u and v that order every comparison with  *)
(* eta the same way the floats do:                                        *)
(*   test_1: sigma = 10, u = exp(-0.135) ~ 7/8, v = exp(-0.54) ~ 7/12,     *)
(*           power 2, eta 0.8;                                             *)
(*   test_2: sigma = 2, u = exp(-3.375) ~ 1/30, v = exp(-13.5) ~ 1/100,    *)
(*           power 1, eta 0.999.                                           *)
(* Each run also explores the other PSD matrices over the test's two      *)
(* values, other powers and cutoffs, and blocksize 1 (growth per row);    *)
(* test_2's small values keep to its own cutoff and powers 0 and 1, where *)
(* the exact arithmetic stays within TLC's integers.                     *)
EXTENDS IncompleteCholesky

Test1Vals == {Q(7, 8), Q(7, 12)}
Test2Vals == {Q(1, 30), Q(1, 100)}
Test1Etas == {Q(1, 2), Q(4, 5), Q(999, 1000)}
Test2Etas == {Q(999, 1000)}

\* The inputs of each test and of the calls around it.  The run starts
\* from either set: the two tests' values are never mixed in one matrix,
\* whose exact arithmetic would leave TLC's integers.
Test1 == INSTANCE IncompleteCholesky
           WITH Sizes <- {3}, Vals <- Test1Vals, Etas <- Test1Etas,
                Powers <- {0, 1, 2}, Blocksizes <- {1, 100}
Test2 == INSTANCE IncompleteCholesky
           WITH Sizes <- {3}, Vals <- Test2Vals, Etas <- Test2Etas,
                Powers <- {0, 1}, Blocksizes <- {1, 100}

UnitTestsSpec == (Test1!Init \/ Test2!Init) /\ [][Next]_vars

\* The Gram matrix of three equally spaced samples.
EquispacedGram(u, v) ==
  [p \in 0..2 |-> [i \in 0..2 |->
     IF p = i THEN QOne ELSE IF {p, i} = {0, 2} THEN v ELSE u]]

Test1Gram == EquispacedGram(Q(7, 8), Q(7, 12))
Test2Gram == EquispacedGram(Q(1, 30), Q(1, 100))

\* The assertions of test_1 and test_2: the call returns two pivots, 0 and
\* 2; K_chol is 2 x 2 with the kernel's diagonal; R[1, 0] = 0; W is 2 x 3
\* with W[:, I] the identity and W[0, 1] = W[1, 1].
UnitTestAsserts(gram) ==
  (Kx = gram /\ pc \in Outcomes) =>
    /\ pc = "done"
    /\ I = <<0, 2>>
    /\ DOMAIN Kchol = 1..2 /\ \A x \in 1..2 : Kchol[x][x] = QOne
    /\ RN[2][0] = QZero
    /\ \A x, y \in 1..2 : W[x][I[y]] = IF x = y THEN QOne ELSE QZero
    /\ W[1][1] = W[2][1]

\* test_1 (lines 17-45) passes on the model: on its input the call returns
\* the pivots [0, 2] and the factors the test asserts.
Test1Passes == power = 2 /\ eta = Q(4, 5) => UnitTestAsserts(Test1Gram)

\* test_2 (lines 47-75) passes on the model.
Test2Passes == power = 1 /\ eta = Q(999, 1000) => UnitTestAsserts(Test2Gram)
=============================================================================
