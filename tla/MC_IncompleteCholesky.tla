----------------------- MODULE MC_IncompleteCholesky -----------------------
(* Bounds for checking incomplete_cholesky: up to four samples, kernel    *)
(* values in {0, 1/2, 1}, four cutoffs inside (0, 1) (3/4 is a residual  *)
(* 1 - (1/2)^2 the loop can meet exactly) and one outside,               *)
(* powers 0..2 (0 is the all-ones kernel) and blocksizes 0..2 (1 forces    *)
(* the buffers to grow on every row).                                      *)
EXTENDS IncompleteCholesky

MCSizes == {0, 1, 2, 3, 4}
MCVals == {QZero, Q(1, 2), QOne}
MCEtas == {Q(1, 10), Q(1, 2), Q(3, 4), Q(9, 10), QOne}
MCPowers == {0, 1, 2}
MCBlocksizes == {0, 1, 2}
=============================================================================
