SPECIFICATION GateFairSpec
CONSTANTS
  Tasks = {"task"}
  Searchers = {"search"}
  Pollers = {"poll"}
INVARIANT GateTypeOK
PROPERTIES ProbesAreShared OutageRefused RetryServes
