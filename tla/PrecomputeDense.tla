--------------------------- MODULE PrecomputeDense ---------------------------
(***************************************************************************)
(* PrecomputeDenseMatrixKernelBP.precompute() (src/.../src/                *)
(* PrecomputeDenseMatrixKernelBP.py), the full-rank pipeline, writing      *)
(* through GraphlabLines, on the edges of ToyModel.extract_edges and the   *)
(* data dictionary built as kernel_bp_precompute_gaussian_kernel_full_rank *)
(* .py and the unit test build it.                                         *)
(*                                                                         *)
(* The four sections of precompute() are nested for loops without breaks; *)
(* Prog lists their bodies in the order the loops run them, and each step *)
(* of the model runs the body at position k.  A body is a record          *)
(* [op, x, y, z]: its kind and the loop variables it runs with.  Kernel   *)
(* and Cholesky computations are left out, except for their data lookups  *)
(* (a missing key raises KeyError and ends the run); Cholesky of K + 0.1 I *)
(* for a PSD kernel matrix K cannot fail.                                  *)
(***************************************************************************)
EXTENDS Integers, Sequences, FiniteSets, SequencesExt, ToyModel, GraphlabLines

CONSTANTS
  Graph,          \* node -> neighbour list (self.graph)
  ObsChoices,     \* the sets of observed nodes (keys of self.observations)
  EdgeListsOf(_)  \* the orders list(Set(...)) can give an edge set

VARIABLES
  observed,   \* the observed nodes of this run
  edgeList,   \* self.edges, the list extract_edges returned
  k,          \* position in Prog of the next loop body to run
  addedNode,  \* added_node of the first section
  pc          \* "running", "done" or "KeyError"

vars == <<observed, edgeList, k, addedNode, pc, lines, written, graphFile, matrices>>

Edges == {edgeList[x] : x \in 1..Len(edgeList)}

\* Keys of the data dictionary: the scripts store the sample pair of every
\* edge under the edge and, swapped, under its inverse.
DataKeys(edges) == edges \cup {<<e[2], e[1]>> : e \in edges}

\* The matrices a body computes, as the data they are computed from:
\* self.data[key][side] is DataRef(key, side), side 0 holding the samples
\* of key[1] and side 1 those of key[2] as the callers build `data`.
DataRef(key, side) == [key |-> key, side |-> side]
\* [[observation]], the observed value of node n (line 80).
Observation(n) == [observation |-> n]
\* kernel(lhs, rhs) (kernel(lhs) gives the same matrix for lhs = rhs).
CrossKernel(a, b) == [fn |-> "kernel", args |-> <<a, b>>]
\* cholesky(kernel(a) + eye * reg_lambda).
RegCholesky(a) == [fn |-> "cholesky", args |-> <<a>>]

\* Lines 61-68 with `lhs = self.data[edge_in_message][1]`.
PairKernelTargetSide(node, in, out) ==
  CrossKernel(DataRef(<<node, in>>, 1), DataRef(<<out, node>>, 1))
\* Lines 61-68: the kernel of one (in_message, out_message) pair.
PairKernel(node, in, out) ==
  CrossKernel(DataRef(<<node, in>>, 0), DataRef(<<out, node>>, 1))

Item(op, x, y, z) == [op |-> op, x |-> x, y |-> y, z |-> z]
ForEach(s, F(_)) == FlattenSeq([i \in 1..Len(s) |-> F(s[i])])
\* The elements of S in the order lt, as a sequence.
SortedBy(S, lt(_, _)) ==
  [i \in 1..Cardinality(S) |-> CHOOSE x \in S : Cardinality({y \in S : lt(y, x)}) = i - 1]
Ascending(S) == SortedBy(S, LAMBDA x, y : x < y)

\* The loop bodies of precompute(), in execution order.  Dictionaries with
\* small integer keys iterate in ascending key order.
ProgOf(observedNodes, edges) ==
  LET nbrs(n) == Graph[n]
      obsSeq == Ascending(observedNodes)
  IN  <<Item("header", "non-observed nodes", 0, 0)>>
      \o ForEach(Ascending(DOMAIN Graph), LAMBDA n :
           <<Item("node", n, 0, 0)>>
           \o ForEach(nbrs(n), LAMBDA in :
                ForEach(nbrs(n), LAMBDA out : <<Item("pair", n, in, out)>>)))
      \o <<Item("header", "observed nodes", 0, 0)>>
      \o ForEach(obsSeq, LAMBDA n :
           <<Item("obsnode", n, 0, 0)>>
           \o ForEach(nbrs(n), LAMBDA out : <<Item("obsout", n, out, 0)>>))
      \o <<Item("header", "edges with observed targets", 0, 0)>>
      \o ForEach(obsSeq, LAMBDA n :
           ForEach(nbrs(n), LAMBDA out : <<Item("edgeobs", n, out, 0)>>))
      \o <<Item("header", "edges with non-observed targets", 0, 0)>>
      \o ForEach(edges, LAMBDA e : <<Item("edge", e[1], e[2], 0)>>)
      \o <<Item("flush", 0, 0, 0)>>

\* The loop bodies of this run.
Prog == ProgOf(observed, edgeList)

\* The data keys a loop body reads.
Needed(it) ==
  CASE it.op = "pair" /\ it.y # it.z -> {<<it.x, it.y>>, <<it.z, it.x>>}
    [] it.op \in {"obsout", "edgeobs"} -> {<<it.y, it.x>>}
    [] it.op = "edge" /\ observed \cap {it.x, it.y} = {} -> {<<it.x, it.y>>}
    [] OTHER -> {}

-----------------------------------------------------------------------------
Init ==
  /\ observed \in ObsChoices
  /\ edgeList \in EdgeListsOf(ExtractEdges(Graph, observed))
  /\ k = 1 /\ addedNode = FALSE /\ pc = "running"
  /\ WriterInit

\* The body at position k (while running, k <= Len(Prog)).
Body == Prog[k]

\* Body `it` runs when its data is present.
Run(it) == pc = "running" /\ Needed(it) \subseteq DataKeys(Edges)

\* Lines 47, 72, 88, 109: the section comments.
Header(it) ==
  /\ Run(it) /\ it.op = "header"
  /\ lines' = AppendComment(lines, it.x)
  /\ k' = k + 1
  /\ UNCHANGED <<observed, edgeList, addedNode, pc, written, graphFile, matrices>>

\* A loop that does not reset added_node for the next node.
NonObsNodeNoReset(it) ==
  /\ Run(it) /\ it.op = "node"
  /\ k' = k + 1
  /\ UNCHANGED <<observed, edgeList, addedNode, pc, lines, written, graphFile, matrices>>

\* Line 49: added_node = False at the start of every node.
NonObsNode(it) ==
  /\ Run(it) /\ it.op = "node"
  /\ addedNode' = FALSE
  /\ k' = k + 1
  /\ UNCHANGED <<observed, edgeList, pc, lines, written, graphFile, matrices>>

\* A pair loop without the `continue` for in_message == out_message.
NonObsPairNoSkip(it) ==
  /\ Run(it) /\ it.op = "pair"
  /\ LET node == it.x  in == it.y  out == it.z
         f == NonObsKernel(node, out, in)
         ls == IF addedNode THEN lines ELSE NewLine(lines, "non_observed_node", <<node>>)
     IN  /\ addedNode' = TRUE
         /\ lines' = AddFile(ls, f)
         /\ written' = Append(written, f)
         /\ matrices' = SaveTxt(matrices, f, PairKernel(node, in, out))
  /\ k' = k + 1
  /\ UNCHANGED <<observed, edgeList, pc, graphFile>>

\* Lines 51-69: one (in_message, out_message) pair of a node; the node's
\* directive line is started before its first kernel.
NonObsPair(it) ==
  /\ Run(it) /\ it.op = "pair"
  /\ LET node == it.x  in == it.y  out == it.z
         f == NonObsKernel(node, out, in)
         ls == IF addedNode THEN lines ELSE NewLine(lines, "non_observed_node", <<node>>)
     IN  \/ /\ in = out
            /\ UNCHANGED <<addedNode, lines, written, matrices>>
         \/ /\ in # out
            /\ addedNode' = TRUE
            /\ lines' = AddFile(ls, f)
            /\ written' = Append(written, f)
            /\ matrices' = SaveTxt(matrices, f, PairKernel(node, in, out))
  /\ k' = k + 1
  /\ UNCHANGED <<observed, edgeList, pc, graphFile>>

\* Line 74: an observed node's directive line.
ObsNode(it) ==
  /\ Run(it) /\ it.op = "obsnode"
  /\ lines' = NewLine(lines, "observed_node", <<it.x>>)
  /\ k' = k + 1
  /\ UNCHANGED <<observed, edgeList, addedNode, pc, written, graphFile, matrices>>

\* Lines 76-82: the kernel vector of one neighbour of an observed node,
\* between the target side of (out_message, node) and the observation.
ObsOut(it) ==
  /\ Run(it) /\ it.op = "obsout"
  /\ LET f == ObsKernel(it.x, it.y)
     IN  /\ lines' = AddFile(lines, f)
         /\ written' = Append(written, f)
         /\ matrices' = SaveTxt(matrices, f,
                          CrossKernel(DataRef(<<it.y, it.x>>, 1), Observation(it.x)))
  /\ k' = k + 1
  /\ UNCHANGED <<observed, edgeList, addedNode, pc, graphFile>>

\* Lines 90-106: the pair (out_message, node) into an observed node: a
\* directive line with both Cholesky factors.
EdgeObs(it) ==
  /\ Run(it) /\ it.op = "edgeobs"
  /\ LET node == it.x  out == it.y
         ls == NewLine(lines, "edge_observed_target", <<out, node>>)
         fs == <<EdgeMatrix(node, out, "L_s"), EdgeMatrix(node, out, "L_t")>>
     IN  /\ lines' = AddFile(AddFile(ls, fs[1]), fs[2])
         /\ written' = written \o fs
         /\ matrices' = SaveTxt(SaveTxt(matrices, fs[1], RegCholesky(DataRef(<<out, node>>, 0))),
                                 fs[2], RegCholesky(DataRef(<<out, node>>, 1)))
  /\ k' = k + 1
  /\ UNCHANGED <<observed, edgeList, addedNode, pc, graphFile>>

\* A fourth section that skips only the edges out of an observed node.
EdgeNonObsSourceOnly(it) ==
  /\ Run(it) /\ it.op = "edge"
  /\ LET e == <<it.x, it.y>>
         f == EdgeMatrix(e[2], e[1], "L_s")
     IN  \/ /\ e[1] \in observed
            /\ UNCHANGED <<lines, written, matrices>>
         \/ /\ e[1] \notin observed
            /\ lines' = AddFile(NewLine(lines, "edge_observed_target", e), f)
            /\ written' = Append(written, f)
            /\ matrices' = SaveTxt(matrices, f, RegCholesky(DataRef(e, 0)))
  /\ k' = k + 1
  /\ UNCHANGED <<observed, edgeList, addedNode, pc, graphFile>>

\* Lines 110-120: an edge of self.edges; the ones touching an observed
\* node are skipped, the others get a line (written with
\* new_edge_observed_target) and the source-side factor.
EdgeNonObs(it) ==
  /\ Run(it) /\ it.op = "edge"
  /\ LET e == <<it.x, it.y>>
         f == EdgeMatrix(e[2], e[1], "L_s")
     IN  \/ /\ observed \cap {e[1], e[2]} # {}
            /\ UNCHANGED <<lines, written, matrices>>
         \/ /\ observed \cap {e[1], e[2]} = {}
            /\ lines' = AddFile(NewLine(lines, "edge_observed_target", e), f)
            /\ written' = Append(written, f)
            /\ matrices' = SaveTxt(matrices, f, RegCholesky(DataRef(e, 0)))
  /\ k' = k + 1
  /\ UNCHANGED <<observed, edgeList, addedNode, pc, graphFile>>

\* Line 123: the graph definition file is written at the very end.
FlushAll(it) ==
  /\ Run(it) /\ it.op = "flush"
  /\ Flush
  /\ k' = k + 1 /\ pc' = "done"
  /\ UNCHANGED <<observed, edgeList, addedNode>>

\* self.data[...] of a key the dictionary does not have raises KeyError.
MissingData ==
  /\ pc = "running"
  /\ ~(Needed(Body) \subseteq DataKeys(Edges))
  /\ pc' = "KeyError"
  /\ UNCHANGED <<observed, edgeList, k, addedNode, lines, written, graphFile, matrices>>

\* The run has returned or raised.
Stopped == pc # "running" /\ UNCHANGED vars

Next ==
  \/ pc = "running" /\ LET it == Body IN
       Header(it) \/ NonObsNode(it) \/ NonObsPair(it) \/ ObsNode(it)
       \/ ObsOut(it) \/ EdgeObs(it) \/ EdgeNonObs(it) \/ FlushAll(it)
  \/ MissingData
  \/ Stopped

Spec == Init /\ [][Next]_vars

-----------------------------------------------------------------------------
(* Properties *)

\* The run is at a loop body or has ended, and the graph file is written
\* only by the last body.
TypeOK ==
  /\ pc \in {"running", "done", "KeyError"}
  /\ pc = "running" => k \in 1..Len(Prog) /\ graphFile = <<>>
  /\ pc = "done" => k = Len(Prog) + 1 /\ graphFile = lines

\* Whether file f belongs to the node or edge the directive line names.
Owns(line, f) ==
  CASE line.kind = "non_observed_node" -> f.label = "non_obs_kernel" /\ f.ids[2] = line.ids[1]
    [] line.kind = "observed_node" -> f.label = "obs_kernel" /\ f.ids[2] = line.ids[1]
    [] line.kind = "edge_observed_target" -> f.label \in {"L_s", "L_t"} /\ f.ids = line.ids
    [] OTHER -> FALSE

\* Every node has at most one line of each kind, and every matrix file is
\* referenced on the line of its own node or edge.  add_* appends to
\* whatever line is last (lines[-1]), so this rests on the lazily started
\* line and the added_node flag being reset for every node.
LinesHoldOwnFiles ==
  /\ \A x \in 1..Len(lines) :
       \A r \in 1..Len(lines[x].refs) : Owns(lines[x], lines[x].refs[r])
  /\ \A x, y \in 1..Len(lines) :
       (x # y /\ lines[x].kind \in {"non_observed_node", "observed_node"}) =>
         ~(lines[y].kind = lines[x].kind /\ lines[y].ids = lines[x].ids)

\* The lines of the written graph file that name the pair <<s, t>>.
EdgeLines(s, t) ==
  {x \in 1..Len(graphFile) :
     graphFile[x].kind = "edge_observed_target" /\ graphFile[x].ids = <<s, t>>}

\* A finished run gives every edge of self.edges exactly one factorisation
\* line: L_s and L_t for an edge into an observed node (third section),
\* L_s alone for the others (fourth section), and no matrix file is
\* written twice.
EdgesFactorisedOnce ==
  pc = "done" =>
    /\ \A e \in Edges :
         /\ Cardinality(EdgeLines(e[1], e[2])) = 1
         /\ \A x \in EdgeLines(e[1], e[2]) :
              graphFile[x].refs = IF e[2] \in observed
                                  THEN <<EdgeMatrix(e[2], e[1], "L_s"), EdgeMatrix(e[2], e[1], "L_t")>>
                                  ELSE <<EdgeMatrix(e[2], e[1], "L_s")>>
    /\ \A x, y \in 1..Len(written) : x # y => written[x] # written[y]

\* No data lookup of the run fails.  The callers (the full-rank script and
\* the unit test) fill `data` with self.edges and their inverses only, but
\* sections 1 and 2 also read the pair of two adjacent observed nodes,
\* which extract_edges leaves out.
NoKeyError == pc # "KeyError"

\* Spec 4.3: the message-product kernels are computed for unobserved nodes
\* only; the graph file has no non_observed_node line of an observed node.
ObservedNodesHaveNoProductKernels ==
  \A x \in 1..Len(graphFile) :
    graphFile[x].kind = "non_observed_node" => graphFile[x].ids[1] \notin observed

\* Spec 4.3: edges are processed in ascending (source, target) order, so
\* that the file is reproducible; the lines of the fourth section are
\* ascending.
EdgeSectionAscending ==
  pc = "done" =>
  LET start == CHOOSE x \in 1..Len(graphFile) :
                 graphFile[x].kind = "comment"
                 /\ graphFile[x] = Comment("edges with non-observed targets")
      Less(e, f) == e[1] < f[1] \/ (e[1] = f[1] /\ e[2] < f[2])
  IN  \A x, y \in (start + 1)..Len(graphFile) :
        x < y => Less(graphFile[x].ids, graphFile[y].ids)
-----------------------------------------------------------------------------
(* Refinement of GraphFile *)

\* The directive lines of a list of lines, with their files as a set.
DirectiveLines(ls) ==
  {[kind |-> l.kind, ids |-> l.ids, refs |-> Range(l.refs)]
     : l \in {ls[x] : x \in {y \in DOMAIN ls : ls[y].kind # "comment"}}}

RunStatus == [running |-> "running", done |-> "done", KeyError |-> "failed"][pc]

GF == INSTANCE GraphFile
        WITH obs <- observed, saved <- Range(written), nsaved <- Len(written),
             file <- DirectiveLines(graphFile), status <- RunStatus

\* precompute() implements the output contract of GraphFile: every step
\* saves only files the graph and observations call for and never saves a
\* file twice; flush (line 123) comes only after all of them are saved, and
\* the file it writes has exactly the expected directive lines, each with
\* exactly its node's or edge's files; a KeyError writes no graph file.
GraphFileSpec == GF!Spec
=============================================================================
