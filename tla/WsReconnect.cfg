SPECIFICATION FairSpec
CONSTANTS
  c1 = c1
  c2 = c2
  None = None
  Conns = {c1}
  BufCap = 3
  InboxCap = 1
  FaultKinds <- CalmingFaults
PROPERTIES
  SyncRequested
  RunReturns
CHECK_DEADLOCK FALSE
