---------------------------- MODULE MC_ICScript ----------------------------
(* The script as written: node 4 observed (line 70), the edge list in      *)
(* ascending and in descending order.                                       *)
EXTENDS ICScript, MC_EdgeOrders

MCScriptObs == {{4}}
=============================================================================
