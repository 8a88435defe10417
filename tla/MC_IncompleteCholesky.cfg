CONSTANTS
  Sizes <- MCSizes
  Vals <- MCVals
  Etas <- MCEtas
  Powers <- MCPowers
  Blocksizes <- MCBlocksizes
SPECIFICATION Spec
INVARIANTS
  TypeOK
  PivotsDistinct
  FactorReproducesPivotRows
  ResidualNonNegative
  ReturnedFactorisation
PROPERTIES
  ErrorNonIncreasing
