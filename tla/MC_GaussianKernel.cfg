CONSTANTS
  Values = {0, 1, 3}
  MaxN = 4
SPECIFICATION Spec
INVARIANTS
  MedianOverPairs
