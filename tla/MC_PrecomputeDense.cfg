CONSTANTS
  Graph <- MoralisedGraph
  ObsChoices <- MCObsChoices
  EdgeListsOf <- MCEdgeListsOf
  Stamps = {"t1"}
SPECIFICATION ScriptSpec
INVARIANTS
  TypeOK
  LinesHoldOwnFiles
  EdgesFactorisedOnce
  WritesTestFiles
  DataPairedPerEdge
  MatricesOnOwnSamples
  UnitTestMatrices
  GraphIsMoralisedSampler
PROPERTIES
  GraphFileSpec
