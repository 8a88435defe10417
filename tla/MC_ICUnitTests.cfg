\* test_1 and test_2 of incomplete_cholesky_unittest.py, around their
\* arguments.  The input constants are only read by Init, which
\* UnitTestsSpec replaces by the two tests' own input sets.
CONSTANTS
  Sizes = {3}
  Vals <- Test1Vals
  Etas <- Test1Etas
  Powers = {0, 1, 2}
  Blocksizes = {1, 100}
SPECIFICATION UnitTestsSpec
INVARIANTS
  Test1Passes
  Test2Passes
