SPECIFICATION Spec
CONSTANTS
  Threads = {"t1", "t2"}
  Closers = {}
  MaxRecords = 3
  MaxOpens = 1
  WriteFaults = {"nothing", "torn"}
  CrashFaults = {"nothing"}
INVARIANT AckedVerifiable
CHECK_DEADLOCK FALSE
