SPECIFICATION ToolsSpec
CONSTANTS
  Nodes <- MCNodes
  Spans = {}
  Enclosing <- MCEnclosing
  NoNode = NoNode
  InterfaceMethods <- MCInterfaceMethods
  Qname <- MCQname
  CanonicalId <- MCCanonicalId
  TestNodes <- MCTestNodes
  Stores <- MCStores
  EdgesAtMost = 2
  Calls <- MCCalls
  Rankings <- MCRankings
  Impacts <- MCImpacts
  Hunks = {h1, h2}
  PRs <- MCPRs
  DefaultSubgraphMaxTotal = 2
  DefaultSearchLimit = 2
  FilterOverfetchRatio = 3
INVARIANTS ToolsTypeOK SubgraphClosed NeverGuesses ImpactCutsLast
CHECK_DEADLOCK FALSE
