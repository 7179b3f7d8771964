SPECIFICATION Spec
CONSTANTS
  Nodes <- MCNodes
  Spans <- MCSpans
  Chunk = chunk
  Enclosing <- MCEnclosing
  NoNode = NoNode
  Qname <- MCQname
  Place <- MCPlace
  Graphs <- MCGraphs
  EdgesAtMost = 3
  InterfaceMethods <- MCInterfaceMethods
  SeedLists <- MCSeedLists
  Intents = {"bug_fix", "test_add", "unknown"}
  MaxSeedsToExpand = 2
  NeighborsPerSeed = 2
  MaxFinalNeighbors = 1
INVARIANTS TypeOK AnswersAccounted BestIsKept
CHECK_DEADLOCK FALSE
