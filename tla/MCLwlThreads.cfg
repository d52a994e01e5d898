SPECIFICATION FairThreadsSpec
CONSTANTS
  c1 = c1
  c2 = c2
  c3 = c3
  None = None
  Client <- MCClient
  Silent <- MCSilent
  Fd = {1}
CHECK_DEADLOCK FALSE
INVARIANTS
  TableExact
  HarmlessInTime
PROPERTIES
  Served
