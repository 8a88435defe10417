-------------------------- MODULE MC_GaussianKernel --------------------------
(* Samples of up to four values from {0, 1, 3}: ties, zero distances and  *)
(* both odd and even counts of positive distances.                         *)
EXTENDS GaussianKernel
=============================================================================
