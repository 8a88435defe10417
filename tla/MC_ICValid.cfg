\* Does every call with arguments the assertions accept return a result?
CONSTANTS
  Sizes <- MCSizes
  Vals <- MCVals
  Etas <- MCEtas
  Powers <- MCPowers
  Blocksizes <- MCBlocksizes
SPECIFICATION Spec
INVARIANT
  ValidCallReturns
