CONSTANTS
  Graph <- MoralisedGraph
  ObsChoices <- MCScriptObs
  EdgeListsOf <- OnlyAscending
  Stamps = {"03:01PM on November 09, 2026", "03:02PM on November 09, 2026"}
SPECIFICATION Spec
INVARIANT Deterministic
