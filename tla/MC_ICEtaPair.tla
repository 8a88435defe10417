---------------------------- MODULE MC_ICEtaPair ----------------------------
(* Bounds for the two-cutoff comparison: the kernel values of ic_main,   *)
(* powers 0 and 1 (the exact errors of power 2 leave TLC's integers), up  *)
(* to four samples, and cutoffs that stop the loop after 0 to 3 rows.     *)
EXTENDS ICEtaPair

MCPairVals == {QZero, Q(1, 2), QOne}
MCPairEtas == {Q(1, 10), Q(1, 2), Q(3, 4), Q(9, 10)}
=============================================================================
