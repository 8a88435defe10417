------------------------------ MODULE PDTwoRuns ------------------------------
(***************************************************************************)
(* Two runs of the full-rank precompute on identical inputs: the same     *)
(* graph, observations and data, and the same edge list (one Python       *)
(* build gives list(Set(...)) the same order every time).  The runs are   *)
(* separate processes, one after the other; each has its own writer.      *)
(***************************************************************************)
EXTENDS Integers, Sequences

CONSTANTS Graph, ObsChoices, EdgeListsOf(_), Stamps

VARIABLES
  observed, edgeList,                                  \* the shared inputs
  k1, addedNode1, pc1, lines1, written1, graphFile1, matrices1,  \* the first run
  k2, addedNode2, pc2, lines2, written2, graphFile2, matrices2   \* the second run

R1 == INSTANCE PrecomputeDense
        WITH k <- k1, addedNode <- addedNode1, pc <- pc1, lines <- lines1,
             written <- written1, graphFile <- graphFile1,
             matrices <- matrices1
R2 == INSTANCE PrecomputeDense
        WITH k <- k2, addedNode <- addedNode2, pc <- pc2, lines <- lines2,
             written <- written2, graphFile <- graphFile2,
             matrices <- matrices2

run1 == <<k1, addedNode1, pc1, lines1, written1, graphFile1, matrices1>>
run2 == <<k2, addedNode2, pc2, lines2, written2, graphFile2, matrices2>>
vars == <<observed, edgeList, run1, run2>>

Init == R1!Init /\ R2!Init

Next ==
  \/ R1!Next /\ pc2 = "running" /\ k2 = 1 /\ UNCHANGED run2
  \/ pc1 # "running" /\ R2!Next /\ UNCHANGED run1

Spec == Init /\ [][Next]_vars

-----------------------------------------------------------------------------
\* Spec section 5: two runs on identical inputs produce byte-identical
\* graph definition files.  GraphlabLines.__init__ (line 21) prints the
\* wall-clock time into the second header line.
Deterministic ==
  (pc1 = "done" /\ pc2 = "done") => graphFile1 = graphFile2
=============================================================================
