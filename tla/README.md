# TLA+ models of the kernel-BP precompute code

This directory holds TLA+ models of the Python precompute code under
`src/apps/kernelbp/python_precompute_kernel_matrices/src/`, and the TLC
configurations that check them. All source paths below are relative to that
directory.

## The system

The code prepares the input of the Graphlab kernel belief propagation
implementation. Its parts:

| part | file | what it does |
|---|---|---|
| toy model | `ToyModel.py` | the moralised 5-node graph (`get_moralised_graph`), the directed edges (`extract_edges`: both directions of every edge, except edges leaving an observed node), and random samples |
| Gaussian kernel | `GaussianKernel.py` | Gram and cross-kernel matrices; the median heuristic for sigma |
| incomplete Cholesky | `incomplete_cholesky.py` | a pivoted low-rank factor R, pivots I, K_chol = K[:, I] and W = solve(R[:, I], R) of a kernel matrix, stopping when every residual is ≤ eta |
| writer | `GraphlabLines.py` | builds the graph definition file as a list of lines; `new_*` starts a directive line, `add_*` saves a matrix file and appends its name to the **last** line, and `flush` writes the file |
| full-rank pipeline | `PrecomputeDenseMatrixKernelBP.py` | `precompute()` has four sections: (1) product kernels for every node and ordered pair of distinct neighbours; (2) kernel vectors of observed nodes; (3) L_s and L_t Cholesky factors of edges into observed nodes; (4) L_s of the other edges. It ends with `flush` |
| full-rank script | `kernel_bp_precompute_gaussian_kernel_full_rank.py` | observes node 4, builds `data` for every edge and its inverse, and runs the pipeline |
| incomplete-Cholesky script | `kernel_bp_precompute_gaussian_kernel_incomplete_cholesky.py` | the low-rank variant of the pipeline, written inline |

The pipeline calls the writer once per node or edge and once per matrix. The
writer's "append to the last line" contract makes the order of those calls
matter. Nothing runs concurrently. Only the output files outlive a run. The
hard cases are therefore:

- long call sequences;
- the inputs (observation sets, edge orders);
- the runs that abort half-way.

## Modules

| module | models | state | actions |
|---|---|---|---|
| `QArith` | float64 arithmetic, replaced by exact rationals | — | operators: `Q`, `QAdd`, `QMul`, `QDiv`, `QLt`, `QSum`, `Det` (Laplace expansion) |
| `IncompleteCholesky` | `incomplete_cholesky` (lines 52-116) | the kernel matrix `Kx`, `eta`, `power`, `blocksize`, the residuals `d`, `a`, pivots `I`, factor rows `RN` with their squared divisors `A`, the allocated rows `cap`, the results `Kchol` and `W`, and `pc` | `Start` (lines 52-76), `Iterate` (one loop iteration, lines 77-101), `Finish` (lines 103-116), `Returned` |
| `ToyModel` | `get_moralised_graph`, `extract_edges`, and `sample_real` as the dependencies between its draws (`SampleParents`) | — | operators |
| `GraphlabLines` | the writer | `lines`, `written` (matrix files in save order), `graphFile` (what `flush` wrote), `matrices` (file → what `savetxt` last wrote to it) | `WriterInit`, `Flush`, and line operators `NewLine`, `AddFile` (on the last line), `AppendComment`, `SaveTxt` |
| `PrecomputeDense` | `precompute()` composed with the writer, and the data the scripts build | `observed`, `edgeList` (`self.edges`), `k` (the next loop body), `addedNode`, `pc` and the writer's variables | one action per loop body: `Header`, `NonObsNode`, `NonObsPair`, `ObsNode`, `ObsOut`, `EdgeObs`, `EdgeNonObs`, `FlushAll`; plus `MissingData` (KeyError) and `Stopped` |
| `GraphFile` | the abstract output contract of a precompute run (spec §4.3, §4.4) | `obs`, `saved` (a set), `nsaved`, `file` (a set of directive lines), `status` | `Save`, `Complete`, `Abort` |
| `GaussianKernel` | `kernel(X, Y)` (lines 18-40) and `get_sigma_median_heuristic` (lines 42-47) | `op` (the call and its arguments), `result` (matrix, value, `numpy.ma.masked` or exception) | `Kernel`, `MedianHeuristic`, `Done` |
| `FullRankScript` | the full-rank script: `ScriptData`'s loop, then `PrecomputeDense` on the same observations and edges | both modules' variables | `ScriptNext`: `SampleEdge` while the loop runs, then `PrecomputeDense`'s `Next` |
| `ScriptData` | the data loop shared by both scripts (full-rank lines 57-80, incomplete-Cholesky lines 83-94) | `observed`, `edgeList`, `i` (loop index), `data` (edge → draw), `draws` | `SampleEdge`, `DataLoopDone` |
| `ICScript` | the incomplete-Cholesky script up to its writer (lines 66-101) | `ScriptData`'s variables and `pc` | `BuildData`, `NewWriter`, `Ended` |
| `ICEtaPair` | two `incomplete_cholesky` calls on one input with cutoffs eta1 < eta2 | two copies of `IncompleteCholesky`'s per-call variables; `Kx`, `power`, `blocksize` shared | the first call's steps, then the second's |
| `PDTwoRuns` | two precompute runs on the same observations and edges | two copies of `PrecomputeDense`'s variables, `observed` and `edgeList` shared | run 1's steps, then run 2's |
| `MC_EdgeOrders` | helper for the MC modules: the orders `list(Set(...))` may give | — | `OnlyAscending`, `BothEdgeOrders` |

### Correspondence details

**IncompleteCholesky.** R[j] = row / sqrt(a_j) is irrational. The model keeps:

- `RN[j]` = R[j] · sqrt(a_j), which is rational;
- `A[j]` = a_j.

From these, R[j, i] · R[j, p] = RN[j][i] · RN[j][p] / A[j]. Also, solve(R[:, I], R) = solve(RN[:, I], RN), so W is exact too. `Solve` is Cramer's rule.

Other details:

- `ArgMax` is numpy's first maximal index.
- The inputs are the Gram matrices a kernel with k(x, x) = 1 produces: symmetric, unit diagonal, every principal minor ≥ 0. Their off-diagonal values come from a small set.
- `cap` models `len(K)`. Writing row `cap` raises IndexError. The `vstack` growth is the last conjunct of `Iterate`.

**PrecomputeDense.** The four sections are nested loops without breaks. `Prog` lists their bodies in execution order, and one step runs body `k`. A body's data lookups are `Needed(it)`; a key outside `DataKeys` raises KeyError, and the run ends without `flush`.

Iteration orders:

- Dictionaries with small integer keys iterate in ascending key order.
- The order of `list(Set(...))` is left to the constant operator `EdgeListsOf`. The MC module gives ascending and descending.

Kernel and Cholesky numerics are left out. They do not change the control flow, since K + 0.1 I is positive definite. What a saved matrix is computed from is kept instead:

- `DataRef(key, side)` is `self.data[key][side]`;
- `CrossKernel(a, b)` is `kernel(a, b)`;
- `RegCholesky(a)` is `cholesky(kernel(a) + eye * reg_lambda)`;
- `Observation(n)` is `[[observation]]` of node n.

`savetxt` records that term under the file's name (`SaveTxt`).

**GaussianKernel.** A sample array is `[rank, col]`: rank 2 is the `(n, 1)` array callers reshape to, rank 1 a flat array. `exp` and `sqrt` are not computed. A kernel matrix is represented by its squared distances, so K[i][j] = 1 exactly when the entry is 0, and the heuristic returns sigma² = median / 2. `SquareForm` follows scipy: an empty condensed vector gives the 1 × 1 zero matrix. `MedianOf` follows numpy: nan for no values. `sqrt` is numpy.ma's (line 10), which turns that nan into `numpy.ma.masked` (`Masked`).

**MC_PrecomputeDense.** This module holds the unit test's data. `TestSamples` follows lines 46-61: side s of key holds node key[s+1]'s fixed samples. `ReferenceGroups` groups the files of lines 117-153 that share one matrix literal. The five sample vectors are distinct, so two files hold equal matrices exactly when they are equal terms over the test's samples.

**ToyModel.** `SampleParents` reads off lines 48-63 which draws each node's samples are computed from. `Moralise` is the textbook moral graph of a DAG, and serves as the reference.

**ScriptData.** Each loop iteration draws a fresh sample (`draws` counts `sample_real` calls, and a draw is named by its index). It stores it for the edge and for its inverse, as `<<draw, e1, e2>>`, unless either key is already present.

**ICScript.** `NewWriter` checks the keyword arguments of the call at line 100 against `WriterParams`, the parameters of `GraphlabLines.__init__`. `caller_filename` is not one of them, so the script ends with TypeError.

### Refinement and composition

`PrecomputeDense` implements `GraphFile`. The refinement mapping (end of `PrecomputeDense.tla`) sends:

- `saved` to the range of `written`, and `nsaved` to its length, so a file saved twice breaks the mapping;
- `file` to the directive lines of `graphFile`, as a set of `[kind, ids, refs]`;
- `status` to `running`, `done` or `failed` (KeyError).

`pd_main` checks `GraphFileSpec` (= `GF!Spec`) as a PROPERTY. Every step of the pipeline is then either a `Save` of required, new files, the `Complete` step after the last save, an `Abort`, or a stutter.

`FullRankScript` composes the data loop with the pipeline. `PrecomputeDense` raises KeyError for any lookup outside `DataKeys`, the edges and their inverses. `DataPairedPerEdge` checks that the loop produces exactly these keys, so every run of `pd_main` models the script as a whole. The pipeline's runs with an observation set the script does not use are kept, as in the unit tests.

`ICEtaPair` and `PDTwoRuns` compose two instances of one module with `INSTANCE ... WITH`. They run the calls one after the other, as two calls in one process do, and compare the results.

## Runs

| run | cfg | expect | what it shows |
|---|---|---|---|
| `ic_main` | `MC_IncompleteCholesky.cfg` | pass | On every input in the bounds: pivots are distinct (`PivotsDistinct`), R reproduces the kernel rows of the pivots (`FactorReproducesPivotRows`), residuals never go negative (`ResidualNonNegative`), and a returned result satisfies every residual ≤ eta and Wᵀ K_chol W = Rᵀ R (`ReturnedFactorisation`). The squared approximation error ‖K − RᵀR‖² never grows between iterations (`ErrorNonIncreasing`, an action property). |
| `ic_valid_call` | `MC_ICValid.cfg` | violation | blocksize = 0 passes the assertion at line 54, and the first row write at line 81 then raises IndexError. |
| `ic_unit_tests` | `MC_ICUnitTests.cfg` | pass | The asserts of `test_1` and `test_2` hold for the model (`Test1Passes`, `Test2Passes`). The run starts from either test's inputs and the nearby powers, cutoffs and matrices, never mixing the two tests' values in one matrix. |
| `ic_eta_pair` | `MC_ICEtaPair.cfg` | pass | For two calls on one input with eta1 < eta2, the factor for eta1 has squared error ‖K − RᵀR‖² no larger than the factor for eta2 (`EtaMonotone`, spec §8). |
| `pd_main` | `MC_PrecomputeDense.cfg` | pass | The whole full-rank script (`FullRankScript`) is checked. After the data loop, every edge and its inverse have data, holding one draw with the nodes swapped (`DataPairedPerEdge`). For every set of observed nodes and both edge orders, every matrix file sits on the line of its own node or edge, with one line per node (`LinesHoldOwnFiles`). A finished run gives every edge exactly one line with the right factors, and no file is written twice (`EdgesFactorisedOnce`). The unit test's expected files are written (`WritesTestFiles`). Every saved matrix is computed from the samples of the node its file name attributes it to (`MatricesOnOwnSamples`). On the unit test's data, the saved files fall into exactly the test's groups of equal reference matrices (`UnitTestMatrices`). The toy graph is the moral graph of the sampler (`GraphIsMoralisedSampler`). The run refines `GraphFile` (`GraphFileSpec`). |
| `pd_key_error` | `MC_PDKeyError.cfg` | violation | With adjacent observed nodes 2 and 4, section 1 saves three files and then reads `data[(4, 2)]`. The scripts never fill that key, so the run raises KeyError and writes no graph file. |
| `pd_observed_kernels` | `MC_PDObservedKernels.cfg` | violation | With node 4 observed, section 1 still writes node 4's product kernels. Spec §4.3 says it should not. |
| `pd_edge_order` | `MC_PDEdgeOrder.cfg` | violation | Section 4 follows `list(Set)` order, not the ascending order spec §4.3 requires. |
| `pd_determinism` | `MC_PDTwoRuns.cfg` | violation | Two runs on identical inputs write different graph files, because the header holds the time of the run (`GraphlabLines.py:21`). Spec §8 says the output is deterministic. |
| `gk_main` | `MC_GaussianKernel.cfg` | pass | The median over the full matrix, with zeros filtered out, equals the median over distinct pairs (`MedianOverPairs`). |
| `gk_zero_distances` | `MC_GKZeroDistances.cfg` | violation | With all samples equal, the heuristic returns `numpy.ma.masked` instead of failing as spec §4.1 says. |
| `ic_script` | `MC_ICScript.cfg` | violation | The incomplete-Cholesky script always raises TypeError at line 100. |

Every property of a passing run has a mutant in `PROJECT.json`: a plausible
bug in the modelled code that TLC shows violates it.

## Bounds

**IncompleteCholesky** (`ic_main`):

- 0 to 4 samples; 0 makes `d.max()` raise ValueError.
- Kernel values {0, 1/2, 1}, filtered to PSD matrices.
- eta ∈ {1/10, 1/2, 3/4, 9/10, 1}; 1 fails the assertion.
- power ∈ {0, 1, 2}.
- blocksize ∈ {0, 1, 2}; 1 grows the buffers after every row.

With 4 samples the loop runs up to 4 iterations, so every branch of `R_dot_j` (j = 0, j = 1, j ≥ 2) is reached. The 4-sample rank-deficient matrices make the loop stop early.

`ErrorNonIncreasing` is checked under the same bounds. Its squared errors stay within TLC's 32-bit integers for values {0, 1/2, 1}. Values such as 1/4 and 3/4 with power 2 overflow.

**PrecomputeDense** (the `pd_*` runs, all from `FullRankScript`): the repository's own graph, with all 32 observation sets and two edge orders. That covers:

- nodes without pairs (node 5);
- observed leaves;
- adjacent observed nodes;
- a run with no edges at all.

`ic_eta_pair`: 2 to 4 samples, values {0, 1/2, 1}, etas {1/10, 1/2, 3/4, 9/10}, power ∈ {0, 1}, blocksize ∈ {1, 2}. Every pair of etas with eta1 < eta2 is tried. Larger values or power 2 overflow TLC's 32-bit integers in the error terms.

`gk_main`: every array of 0 to 4 samples over {0, 1, 3}, both ranks, and every pair of arrays for `kernel(X, Y)`. This includes repeated samples, equal distances, and even and odd counts of distances.

## Fairness

None is assumed, and no liveness property is checked. Every component is a sequential function over finite inputs:

- the loop of `incomplete_cholesky` adds a new pivot each iteration (`PivotsDistinct`);
- the precompute sections and the data loop are Python `for` loops over finite lists.

Termination therefore follows from the shape of the code, and a temporal property would restate it. What can go wrong is a step with no successor, and every run checks that as deadlock. Each model's only stuttering steps are its end states (`Returned`, `Stopped`, `Done`, `Ended`), so a run stuck anywhere else would be reported.

## Not modelled, and the plan

Not modelled:

- **`exp` and `sqrt` in the Gaussian kernel.** They are monotone, and no property tells them apart from the squared distances they are applied to.
- **The numbers the samplers of `ToyModel` draw.** A draw is a name, not a value; only the dependencies between draws are kept.
- **`graphlab_results` of the precompute unit test** (lines 161-227). It compiles and runs the Graphlab binary, which is not in this repository. It compares the betas with Matlab references.
- **Folder creation (`os.makedirs`, lines 32-36) and text layout in the writer.** Every `OSError` is swallowed there, so the step changes nothing the pipeline reads.
- **The folder prefix of the `savetxt` paths** (lines 25-29, 51-52, 62-63, 78-79). For every path the callers pass, the prefix is the graph file's folder, which a property could only restate.
- **Files an earlier run left on disk.** No model starts from a folder that holds an earlier graph file and matrices. A run that aborts leaves such a folder inconsistent (see the hazards). Spec lines 47 and 65 make the rerun the remedy.
- **The incomplete-Cholesky script after line 101** (sections 1-4 and `flush`). They are unreachable because of the TypeError. They also call `add_edge` with three arguments and use its return value, and pass flat samples to `kernel`.

Further work:

1. **The incomplete-Cholesky script after line 101.** This code never runs, so no model of it can be faithful to what the program does. A model of it as it would run with a fixed writer call would show the next failure, the three-argument `add_edge` at line 128.
2. **Pivot nesting.** Show that the pivots for a smaller eta extend those for a larger one, which is stronger than `EtaMonotone`.
3. **Kernel into factorisation.** Compose the Gaussian kernel with incomplete Cholesky on sample values instead of on Gram matrices. The exact arithmetic of `exp` is the obstacle.
