------------------------------ MODULE GraphFile ------------------------------
(***************************************************************************)
(* What a precompute run promises about its output (spec sections 4.3 and *)
(* 4.4, as PrecomputeDenseMatrixKernelBP.precompute and its unit test     *)
(* realise them), without saying in which order the work is done: the run  *)
(* saves the matrix files of its graph and observations, each one once,   *)
(* and then writes a graph definition file with one directive line per    *)
(* node or edge that needs one, naming exactly that node's or edge's      *)
(* files.  Or it fails at some point and writes no graph file.  Line order *)
(* and comment lines are not part of this view.                           *)
(***************************************************************************)
EXTENDS Integers, FiniteSets, ToyModel

CONSTANTS
  Graph,       \* node -> neighbour list
  ObsChoices   \* the sets of observed nodes a run may be given

VARIABLES
  obs,      \* the observed nodes
  saved,    \* the matrix files saved so far
  nsaved,   \* the number of savetxt calls so far
  file,     \* the graph file: a set of [kind, ids, refs] with refs a set
  status    \* "running", "done" or "failed"

vars == <<obs, saved, nsaved, file, status>>

LOCAL Names == INSTANCE GraphlabLines
                 WITH lines <- <<>>, written <- <<>>, graphFile <- <<>>, matrices <- <<>>,
                      Stamps <- {}

N(n) == Nbrs(Graph, n)

Line(kind, ids, refs) == [kind |-> kind, ids |-> ids, refs |-> refs]

\* The directive lines of a complete graph file for observations o:
\* message-product kernels of every node with two or more neighbours,
\* kernel vectors of observed nodes, both factors of every edge into an
\* observed node, the source factor of every edge with no observed end.
ExpectedLines(o) ==
  LET Free == {e \in ExtractEdges(Graph, o) : o \cap {e[1], e[2]} = {}}
  IN  {Line("non_observed_node", <<n>>,
            {Names!NonObsKernel(n, out, in) : <<in, out>> \in {p \in N(n) \X N(n) : p[1] # p[2]}})
         : n \in {x \in DOMAIN Graph : Cardinality(N(x)) >= 2}}
      \cup {Line("observed_node", <<n>>, {Names!ObsKernel(n, out) : out \in N(n)}) : n \in o}
      \cup {Line("edge_observed_target", <<p[2], p[1]>>,
                 {Names!EdgeMatrix(p[1], p[2], "L_s"), Names!EdgeMatrix(p[1], p[2], "L_t")})
              : p \in {q \in o \X DOMAIN Graph : q[2] \in N(q[1])}}
      \cup {Line("edge_observed_target", e, {Names!EdgeMatrix(e[2], e[1], "L_s")}) : e \in Free}

Required(o) == UNION {l.refs : l \in ExpectedLines(o)}

Init ==
  /\ obs \in ObsChoices
  /\ saved = {} /\ nsaved = 0 /\ file = {} /\ status = "running"

\* Some required files are saved, none of them for the second time.
Save ==
  /\ status = "running"
  /\ saved \subseteq saved' /\ saved' # saved /\ saved' \subseteq Required(obs)
  /\ nsaved' = Cardinality(saved')
  /\ UNCHANGED <<obs, file, status>>

\* With every file saved, the graph file is written.
Complete ==
  /\ status = "running" /\ saved = Required(obs)
  /\ file' = ExpectedLines(obs) /\ status' = "done"
  /\ UNCHANGED <<obs, saved, nsaved>>

\* The run aborts (spec 4.3 failure policy); files saved so far remain.
Abort ==
  /\ status = "running" /\ status' = "failed"
  /\ UNCHANGED <<obs, saved, nsaved, file>>

Next == Save \/ Complete \/ Abort

Spec == Init /\ [][Next]_vars
=============================================================================
