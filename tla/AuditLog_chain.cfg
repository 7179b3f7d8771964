SPECIFICATION Spec
CONSTANTS
  Threads = {"t1", "t2", "t3"}
  Closers = {"t1"}
  MaxRecords = 4
  MaxOpens = 3
  WriteFaults = {"nothing"}
  CrashFaults = {"nothing", "torn", "whole"}
INVARIANTS TypeOK AckedVerifiable
PROPERTY ImplementsChain
CHECK_DEADLOCK FALSE
