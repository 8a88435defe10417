------------------------- MODULE MC_PrecomputeDense -------------------------
(* The full-rank script (the data loop, then precompute()) on the        *)
(* ToyModel graph, with every set of observed nodes, and two orders of    *)
(* the edge list: ascending and descending (list(Set(...)) may give any   *)
(* order).                                                                 *)
EXTENDS FullRankScript

LexLess(e, f) == e[1] < f[1] \/ (e[1] = f[1] /\ e[2] < f[2])

MCObsChoices == SUBSET DOMAIN MoralisedGraph
\* The observations of the full-rank script and the unit test: {4: 0.0}.
MCTestObs == {{4}}
\* Two observed nodes that are neighbours, neither of them node 1, so that
\* the first section saves files before it reaches the missing pair.
MCAdjacentObs == {{2, 4}}
MCEdgeListsOf(E) == {SortedBy(E, LexLess), Reverse(SortedBy(E, LexLess))}

\* The file names of PrecomputeDenseMatrixKernelTests.fixed_data, which
\* runs precompute() with node 4 observed and checks each file against a
\* reference matrix from the Matlab implementation.
TestFilenames ==
  {File("non_obs_kernel", t) :
     t \in {<<1,2,3>>, <<1,2,4>>, <<1,3,2>>, <<1,3,4>>, <<1,3,5>>, <<2,1,3>>,
           <<2,3,1>>, <<2,3,4>>, <<2,3,5>>, <<2,4,3>>, <<3,1,2>>, <<3,2,1>>,
           <<3,2,4>>, <<3,4,2>>, <<4,2,1>>, <<4,2,3>>, <<4,3,1>>, <<4,3,2>>,
           <<4,3,5>>, <<5,3,1>>, <<5,3,2>>, <<5,3,4>>}}
  \cup {File("obs_kernel", <<3, 4>>), File("obs_kernel", <<2, 4>>)}
  \cup {File("L_s", e) : e \in {<<1,2>>, <<1,3>>, <<2,1>>, <<2,3>>, <<2,4>>, <<3,1>>,
                               <<3,2>>, <<3,4>>, <<3,5>>, <<5,3>>}}
  \cup {File("L_t", <<2, 4>>), File("L_t", <<3, 4>>)}

\* A run with the unit test's observation ({4: 0.0}) writes exactly the 36
\* files the test reads back, whatever order list(Set(...)) gives the edges.
WritesTestFiles ==
  (observed = {4} /\ pc = "done") => {written[x] : x \in 1..Len(written)} = TestFilenames

\* The test's data (lines 46-61): data[edge] = (joint_data[edge[0]],
\* joint_data[edge[1]]) for every edge and its inverse, so side s of key
\* holds the fixed samples of node key[s + 1].
TestSamples(ref) == [jointData |-> ref.key[ref.side + 1]]

\* What a saved matrix is computed from, on the test's data.
OnTestData(M) ==
  [M EXCEPT !.args = [x \in DOMAIN M.args |->
                        IF "key" \in DOMAIN M.args[x] THEN TestSamples(M.args[x]) ELSE M.args[x]]]

\* The reference matrices of lines 117-153, as the groups of files that
\* share one matrix literal.
NonObsFiles(ts) == {File("non_obs_kernel", t) : t \in ts}
EdgeFiles(label, es) == {File(label, e) : e \in es}
ReferenceGroups ==
  { NonObsFiles({<<2,1,3>>, <<3,1,2>>}),
    NonObsFiles({<<1,2,3>>, <<1,2,4>>, <<3,2,1>>, <<3,2,4>>, <<4,2,1>>, <<4,2,3>>}),
    NonObsFiles({<<1,3,2>>, <<1,3,4>>, <<1,3,5>>, <<2,3,1>>, <<2,3,4>>, <<2,3,5>>,
                 <<4,3,1>>, <<4,3,2>>, <<4,3,5>>, <<5,3,1>>, <<5,3,2>>, <<5,3,4>>}),
    NonObsFiles({<<2,4,3>>, <<3,4,2>>}),
    {File("obs_kernel", <<2, 4>>), File("obs_kernel", <<3, 4>>)},
    EdgeFiles("L_s", {<<2,4>>, <<2,1>>, <<2,3>>}),
    EdgeFiles("L_t", {<<2,4>>, <<3,4>>}),
    EdgeFiles("L_s", {<<3,4>>, <<3,1>>, <<3,2>>, <<3,5>>}),
    EdgeFiles("L_s", {<<1,2>>, <<1,3>>}),
    EdgeFiles("L_s", {<<5,3>>}) }

\* fixed_data's asserts (lines 156-159) pass: every reference file was
\* saved, and two files hold the same matrix exactly when the test's
\* references for them are the same literal.  Distinct sample vectors
\* give distinct kernels and factors, so a file computed from the wrong
\* side of `data`, or from the wrong edge, fails its comparison.
UnitTestMatrices ==
  (observed = {4} /\ pc = "done") =>
    /\ UNION ReferenceGroups \subseteq DOMAIN matrices
    /\ \A f, g \in UNION ReferenceGroups :
         (\E G \in ReferenceGroups : {f, g} \subseteq G)
           <=> OnTestData(matrices[f]) = OnTestData(matrices[g])
=============================================================================
