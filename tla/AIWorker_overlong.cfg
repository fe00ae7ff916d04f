SPECIFICATION WorkerSpec
CONSTANTS
  Call = {c1, c2, c3}
  Nothing = Nothing
  ChildFaults = {"garbled", "oversized"}
PROPERTIES
  WorkerPromiseKept
CHECK_DEADLOCK FALSE
