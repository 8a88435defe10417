------------------------------- MODULE ToyModel -------------------------------
(***************************************************************************)
(* The parts of ToyModel (src/.../src/ToyModel.py) that decide what the    *)
(* precompute pipeline does: the moralised graph and the directed edges.   *)
(* sample_real is kept as the dependencies between its draws; the numbers *)
(* themselves are abstracted away.                                         *)
(***************************************************************************)
EXTENDS Integers, Sequences, FiniteSets, TLC

\* sample_real, lines 48-63: the draws each node's samples are computed
\* from.  x1 from fixed means; x2 and x3 from x1; x4 from x2 and x3; x5
\* from x3.  The returned dict has keys 1..5.
SampleParents ==
  1 :> {} @@ 2 :> {1} @@ 3 :> {1} @@ 4 :> {2, 3} @@ 5 :> {3}

\* get_moralised_graph without the edge between x2 and x3, the two
\* parents of x4.
MoralisedGraphUnmarried ==
  1 :> <<2, 3>> @@ 2 :> <<1, 4>> @@ 3 :> <<1, 4, 5>> @@ 4 :> <<2, 3>> @@ 5 :> <<3>>

\* get_moralised_graph: every node's neighbour list, in the code's order.
MoralisedGraph ==
  1 :> <<2, 3>> @@ 2 :> <<1, 3, 4>> @@ 3 :> <<1, 2, 4, 5>> @@ 4 :> <<2, 3>> @@ 5 :> <<3>>

\* The elements of a neighbour list.
Nbrs(graph, node) == {graph[node][k] : k \in 1..Len(graph[node])}

\* extract_edges(observations): both directions of every undirected edge,
\* except the ones leaving an observed node.  (The code reads the graph
\* from get_moralised_graph itself; `graph` is that graph.)
ExtractEdges(graph, observed) ==
  UNION {  {<<node, nb>> : nb \in IF node \in observed THEN {} ELSE Nbrs(graph, node)}
         \cup {<<nb, node>> : nb \in Nbrs(graph, node) \ observed}
         : node \in DOMAIN graph}

\* The moral graph of a DAG given by its parent sets: each node's parents,
\* its children, and the other parents of its children.
Moralise(parents) ==
  [n \in DOMAIN parents |->
     parents[n]
     \cup {c \in DOMAIN parents : n \in parents[c]}
     \cup {m \in DOMAIN parents : m # n /\ \E c \in DOMAIN parents : {m, n} \subseteq parents[c]}]

\* The graph that the pipeline runs belief propagation on is the moral
\* graph of the model that sample_real draws from: no dependency of the
\* sampler is missing from get_moralised_graph, it invents none, and every
\* neighbour list holds a node only once.
GraphIsMoralisedSampler ==
  /\ DOMAIN MoralisedGraph = DOMAIN SampleParents
  /\ \A n \in DOMAIN MoralisedGraph :
       /\ Nbrs(MoralisedGraph, n) = Moralise(SampleParents)[n]
       /\ Len(MoralisedGraph[n]) = Cardinality(Nbrs(MoralisedGraph, n))
=============================================================================
