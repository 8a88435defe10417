---------------------------- MODULE GraphlabLines ----------------------------
(***************************************************************************)
(* The graph-definition writer GraphlabLines (src/.../src/GraphlabLines.py) *)
(* for a writer that is used by one precompute run.                        *)
(*                                                                         *)
(* A line of the graph definition file is a record: its kind (a comment,   *)
(* or the directive word that starts it), the node ids the directive       *)
(* names, in the order the code prints them, and the matrix files appended *)
(* to it since it was started.  A matrix file is named by a record of its  *)
(* label and the node ids in its name, e.g. "2->1->3_non_obs_kernel.txt"   *)
(* is [label |-> "non_obs_kernel", ids |-> <<2, 1, 3>>].  Text layout,     *)
(* separators and matrix contents are left out.                            *)
(***************************************************************************)
EXTENDS Integers, Sequences, TLC

CONSTANT Stamps   \* the values "# Generated at <time>" can print

VARIABLES
  lines,      \* self.lines
  written,    \* matrix files saved by savetxt, in the order they were written
  graphFile,  \* the lines the last flush() wrote to output_filename, or <<>>
  matrices    \* file -> the matrix savetxt last wrote to it

writerVars == <<lines, written, graphFile, matrices>>

Comment(text) == [kind |-> "comment", ids |-> <<text>>, refs |-> <<>>]
File(label, ids) == [label |-> label, ids |-> ids]

\* __init__ (lines 16-36): the three header lines; the second prints the
\* time the writer was created.  Creating the output folder is left out.
WriterInit ==
  /\ \E t \in Stamps :
       lines = <<Comment("auto-generated"), Comment(t), Comment("")>>
  /\ written = <<>>
  /\ graphFile = <<>>
  /\ matrices = <<>>

\* The operations below map the list of lines to the list after the call;
\* a caller that makes several calls in one step composes them.

\* self.lines.append(...) of a comment line by the caller.
AppendComment(ls, text) == Append(ls, Comment(text))

\* new_non_observed_node, new_observed_node, new_edge_observed_target and
\* new_edge_non_obserbed_target (lines 43-72): start a directive line.
\* new_edge_observed_target(node, out_message) prints out_message first.
NewLine(ls, kind, ids) == Append(ls, [kind |-> kind, ids |-> ids, refs |-> <<>>])

\* add_non_observed_node, add_observed_node and add_edge (lines 46-80):
\* the file is appended to the LAST line, whatever line that is, and
\* saved (the caller appends it to `written`).
AddFile(ls, f) == [ls EXCEPT ![Len(ls)].refs = Append(@, f)]

\* savetxt(filename, K) at lines 53, 64 and 80: the file now holds K,
\* whatever it held before.
SaveTxt(ms, f, K) == (f :> K) @@ ms

\* A flush that leaves the file as it was.
FlushStale == UNCHANGED <<lines, written, graphFile, matrices>>

\* flush (lines 38-41): write all lines to output_filename.
Flush ==
  /\ graphFile' = lines
  /\ UNCHANGED <<lines, written, matrices>>

\* The file names of add_non_observed_node, add_observed_node, add_edge.
NonObsKernel(node, out, in) == File("non_obs_kernel", <<in, node, out>>)
ObsKernel(node, out) == File("obs_kernel", <<out, node>>)
EdgeMatrix(node, out, name) == File(name, <<out, node>>)
=============================================================================
