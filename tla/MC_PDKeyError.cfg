CONSTANTS
  Graph <- MoralisedGraph
  ObsChoices <- MCAdjacentObs
  EdgeListsOf <- MCEdgeListsOf
  Stamps = {"t1"}
SPECIFICATION ScriptSpec
INVARIANT NoKeyError
