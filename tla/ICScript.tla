------------------------------ MODULE ICScript ------------------------------
(***************************************************************************)
(* kernel_bp_precompute_gaussian_kernel_incomplete_cholesky.py up to the  *)
(* writer it creates.  The script observes node 4 (line 70), builds `data` *)
(* with the loop of ScriptData (lines 83-94) and then creates the writer   *)
(* with GraphlabLines(output_filename=..., caller_filename=...) (lines    *)
(* 100-101).  GraphlabLines.__init__ (GraphlabLines.py line 16) has no     *)
(* caller_filename parameter, so the call raises TypeError and no line of *)
(* the script after it runs.                                              *)
(***************************************************************************)
EXTENDS ScriptData

\* The keyword parameters of GraphlabLines.__init__ (GraphlabLines.py
\* line 16).
WriterParams == {"output_filename", "filename_suffix"}

VARIABLE pc   \* "data", "TypeError", or "sections" (lines 105-197, not modelled)

vars == <<dataVars, pc>>

Init == DataInit /\ pc = "data"

\* Lines 83-94: one iteration of the data loop.
BuildData == pc = "data" /\ SampleEdge /\ UNCHANGED pc

\* Lines 96-101: the kernel and the writer are created; a keyword argument
\* the constructor does not declare raises TypeError.  The sections after
\* it (lines 105-197) would be reached only if the constructor accepted both.
NewWriter ==
  /\ pc = "data" /\ DataLoopDone
  /\ pc' = IF {"output_filename", "caller_filename"} \subseteq WriterParams
           THEN "sections" ELSE "TypeError"
  /\ UNCHANGED dataVars

\* The script has ended.
Ended == pc # "data" /\ UNCHANGED vars

Next == BuildData \/ NewWriter \/ Ended

Spec == Init /\ [][Next]_vars

-----------------------------------------------------------------------------
\* The script's purpose (its docstring, lines 40-50): it writes the matrix
\* files and a graph definition file for the incomplete-Cholesky case.  It
\* ends by raising at the writer's constructor instead.
ScriptGetsPastWriter == pc # "TypeError"
=============================================================================
