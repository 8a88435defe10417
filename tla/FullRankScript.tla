---------------------------- MODULE FullRankScript ----------------------------
(***************************************************************************)
(* kernel_bp_precompute_gaussian_kernel_full_rank.py as a whole: the data  *)
(* loop (ScriptData) fills `data`, then the script builds the precomputer  *)
(* on the same observations and edges and calls precompute()               *)
(* (PrecomputeDense).  The two parts share observed and edgeList.          *)
(* PrecomputeDense raises KeyError for a lookup outside DataKeys, the keys *)
(* the loop is meant to produce; DataPairedPerEdge checks that it does.    *)
(* The precomputer's initial state is set up front: it is not read or     *)
(* changed before the loop ends, so this changes no behaviour.            *)
(***************************************************************************)
EXTENDS PrecomputeDense

VARIABLES i, data, draws   \* the data loop's variables

SD == INSTANCE ScriptData

scriptVars == <<vars, i, data, draws>>

ScriptInit == SD!DataInit /\ Init

\* Lines 70-80: one iteration of the data loop.
DataStep == SD!SampleEdge /\ UNCHANGED vars

\* Lines 83-89: one step of precompute() once the loop is done.
PrecomputeStep == SD!DataLoopDone /\ Next /\ UNCHANGED <<i, data, draws>>

ScriptNext == DataStep \/ PrecomputeStep

ScriptSpec == ScriptInit /\ [][ScriptNext]_scriptVars

-----------------------------------------------------------------------------
\* When the data loop ends, `data` holds exactly the edges and their
\* inverses, which is what precompute() looks up, and the two directions of
\* an edge hold one draw's samples, swapped.
DataPairedPerEdge == SD!DataPairedPerEdge

\* The node whose samples file f's matrix should be computed from, by
\* what the file name tells the Graphlab reader (spec 4.3, 4.4): node for "in->node->out" and "out->node" kernels, the source out
\* for L_s of "out->node", the target node for L_t.
Owner(f) == IF f.label = "L_s" THEN f.ids[1] ELSE f.ids[2]

\* Every saved matrix is computed from the samples of the node its file
\* name attributes it to.  This rests on the script storing the pair of an
\* edge's samples swapped under the inverse edge (line 80) and on
\* precompute() reading side 0 or 1 of the right key in every section
\* (lines 64-65, 78, 94-96, 116).
MatricesOnOwnSamples ==
  \A f \in DOMAIN matrices :
    \A a \in {matrices[f].args[x] : x \in DOMAIN matrices[f].args} :
      "key" \in DOMAIN a => data[a.key][a.side + 2] = Owner(f)
=============================================================================
