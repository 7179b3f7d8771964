SPECIFICATION Spec
CONSTANTS
  Names = {"a", "b"}
  Ports = {1, 2, 3}
  Pids = {p1, p2, p3}
  NoPid = NoPid
  OthersAtMost = 1
SYMMETRY AnyPid
INVARIANTS TypeOK OwnPortAndPidfile CommandsDeliver
