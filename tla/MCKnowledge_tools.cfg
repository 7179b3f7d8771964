SPECIFICATION Spec
CONSTANTS
  Ids = {"A", "B", "C"}
  Rank <- MCRank
  FirstStatus <- MCFirstStatus
  Slots = {1, 2, 3, 4}
  OwnerOf <- MCOwnerOf
  KindOf <- MCKindOf
  NameAt <- MCNameAt
  MeantBy <- MCMeantBy
  Plain = {1, 3, 4}
  RelatedTo <- MCRelatedTo
  Undated = {"B"}
  Matchable = {"A"}
  Defs = {1, 2, 3, 4}
  NameOf <- MCNameOf
  FileOf <- MCFileOf
  FirstLine <- MCFirstLine
  Shifts = {1, 3}
  MaxShift = 2
  EditsAtMost = 2
  RunsAtMost = 2
INVARIANTS TypeOK FreshOutputs RefreshConverges
PROPERTY CommandsKeepEntries
CHECK_DEADLOCK FALSE
