SPECIFICATION StagesSpec
CONSTANTS
  Citations = {1, 2, 3, 4, 5}
  Place <- MCPlace
  TestCitations = {4}
  Keywords <- MCKeywords
  SymbolKind <- MCSymbolKind
  SymbolOf <- MCSymbolOf
  Prompt <- MCPrompt
  Glossary <- MCGlossary
  Recalls <- MCRecalls
  KnowledgeRecalls <- MCKnowledgeRecalls
  Indexes <- MCIndexes
  Intents = {"", "bug_fix", "test_add", "docs_update"}
  MaxRounds = 2
  MinConfidencePct = 50
  MaxKeywords = 2
  AugmentTopN = 1
  KnowledgeK = 1
  DefaultMaxCitations = 3
  RRFK = 2
  Scale = 840
  LongestList = 5
  FailuresAtMost = 2
INVARIANTS StagesTypeOK RoundsLoseNothing FusionIsFair
CHECK_DEADLOCK FALSE
