CONSTANTS
  Graph <- MoralisedGraph
  ObsChoices <- MCScriptObs
  EdgeListsOf <- BothEdgeOrders
SPECIFICATION Spec
INVARIANT ScriptGetsPastWriter
