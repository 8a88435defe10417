---------------------------- MODULE MC_PDTwoRuns ----------------------------
(* Two runs with the observation of the scripts, {4: 0.0}, in ascending    *)
(* edge order, started at two different times.                             *)
EXTENDS PDTwoRuns, ToyModel, MC_EdgeOrders

MCScriptObs == {{4}}
=============================================================================
