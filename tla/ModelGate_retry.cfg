SPECIFICATION GateFairSpec
CONSTANTS
  Tasks = {"task"}
  Searchers = {}
  Pollers = {"poll"}
PROPERTY RetryServes
