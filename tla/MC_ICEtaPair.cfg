\* Two calls with cutoffs eta1 < eta2 on the same input.
CONSTANTS
  Sizes = {2, 3, 4}
  Vals <- MCPairVals
  Etas <- MCPairEtas
  Powers = {0, 1}
  Blocksizes = {1, 2}
SPECIFICATION Spec
INVARIANT EtaMonotone
