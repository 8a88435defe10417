CONSTANTS
  Graph <- MoralisedGraph
  ObsChoices <- MCTestObs
  EdgeListsOf <- MCEdgeListsOf
  Stamps = {"t1"}
SPECIFICATION ScriptSpec
INVARIANT EdgeSectionAscending
