SPECIFICATION Spec
CONSTANTS
  Keys = {1, 2, 3, 4}
  Scores <- MCScores
  BodyBudget = 6
  MaxCitations = 3
  NeighborReserve = 2
  KnowledgeReserve = 1
  BodyTokens = {2, 5}
  SnippetTokens = {1}
  Inputs <- MCInputs
  Funnels <- MCFunnels
  EdgesAtLeast = 1
  MaskedTokens = {2}
  MaxEdgeOnlyTargets = 1
INVARIANTS TypeOK PackValid NoForbiddenText AbsenceIsExplained WithinBudget ReservesHonoured
CHECK_DEADLOCK FALSE
