------------------------------ MODULE ScriptData ------------------------------
(***************************************************************************)
(* The loop both driver scripts use to fill `data` (full-rank script      *)
(* lines 66-80, incomplete-Cholesky script lines 83-94): for every edge of *)
(* extract_edges, in list order, draw a joint sample of the toy model and, *)
(* unless the edge or its inverse already has data, store the two nodes'  *)
(* samples under the edge and, swapped, under its inverse.  A stored      *)
(* value <<t, s, u>> stands for (samples[s], samples[u]) of draw t.        *)
(***************************************************************************)
EXTENDS Integers, Sequences, FiniteSets, ToyModel

CONSTANTS
  Graph,          \* get_moralised_graph()
  ObsChoices,     \* the sets of observed nodes
  EdgeListsOf(_)  \* the orders list(Set(...)) can give an edge set

VARIABLES
  observed,   \* the keys of `observations`
  edgeList,   \* `edges`
  i,          \* position of the next edge of the loop
  data,       \* the dictionary: edge -> <<draw, source node, target node>>
  draws       \* the number of sample_real calls so far

dataVars == <<observed, edgeList, i, data, draws>>

DataInit ==
  /\ observed \in ObsChoices
  /\ edgeList \in EdgeListsOf(ExtractEdges(Graph, observed))
  /\ i = 1 /\ data = <<>> /\ draws = 0

\* The body with `data[inverse_edge] = ...` left out.
SampleEdgeNoInverse ==
  /\ i <= Len(edgeList)
  /\ LET e == edgeList[i]  inv == <<e[2], e[1]>>  t == draws + 1
     IN  data' = IF e \notin DOMAIN data /\ inv \notin DOMAIN data
                 THEN (e :> <<t, e[1], e[2]>>) @@ data ELSE data
  /\ draws' = draws + 1 /\ i' = i + 1
  /\ UNCHANGED <<observed, edgeList>>

\* The body storing the inverse edge's pair unswapped, (data1, data2).
SampleEdgeUnswapped ==
  /\ i <= Len(edgeList)
  /\ LET e == edgeList[i]  inv == <<e[2], e[1]>>  t == draws + 1
     IN  data' = IF e \notin DOMAIN data /\ inv \notin DOMAIN data
                 THEN (e :> <<t, e[1], e[2]>>) @@ (inv :> <<t, e[1], e[2]>>) @@ data
                 ELSE data
  /\ draws' = draws + 1 /\ i' = i + 1
  /\ UNCHANGED <<observed, edgeList>>

\* One iteration of `for edge in edges`: sample_real is called every time;
\* the draw is kept only for an edge whose pair has no data yet.
SampleEdge ==
  /\ i <= Len(edgeList)
  /\ LET e == edgeList[i]  inv == <<e[2], e[1]>>  t == draws + 1
     IN  data' = IF e \notin DOMAIN data /\ inv \notin DOMAIN data
                 THEN (e :> <<t, e[1], e[2]>>) @@ (inv :> <<t, e[2], e[1]>>) @@ data
                 ELSE data
  /\ draws' = draws + 1 /\ i' = i + 1
  /\ UNCHANGED <<observed, edgeList>>

\* The for loop has visited every edge.
DataLoopDone == i > Len(edgeList)

-----------------------------------------------------------------------------
\* When the loop ends, `data` has exactly the edges and their inverses as
\* keys (what PrecomputeDense.DataKeys assumes), and the two directions of
\* an edge hold the two nodes' samples of one and the same draw, swapped:
\* kernels of an edge and of its inverse are computed on paired samples.
DataPairedPerEdge ==
  DataLoopDone =>
    LET E == {edgeList[x] : x \in 1..Len(edgeList)}
    IN  /\ DOMAIN data = E \cup {<<e[2], e[1]>> : e \in E}
        /\ \A e \in DOMAIN data :
             /\ data[e][2] = e[1] /\ data[e][3] = e[2]
             /\ data[<<e[2], e[1]>>][1] = data[e][1]
=============================================================================
