--------------------------- MODULE MC_EdgeOrders ---------------------------
(* Orders of an edge list for the MC modules: list(Set(...)) may give any  *)
(* order; the checks use ascending and descending (source, target) order.  *)
EXTENDS Integers, FiniteSets, SequencesExt

EdgeLess(e, f) == e[1] < f[1] \/ (e[1] = f[1] /\ e[2] < f[2])
AscendingEdges(E) ==
  [x \in 1..Cardinality(E) |-> CHOOSE e \in E : Cardinality({f \in E : EdgeLess(f, e)}) = x - 1]
BothEdgeOrders(E) == {AscendingEdges(E), Reverse(AscendingEdges(E))}
OnlyAscending(E) == {AscendingEdges(E)}
=============================================================================
