SPECIFICATION Spec
CONSTANTS
  c1 = c1
  c2 = c2
  None = None
  Conns = {c1, c2}
  BufCap = 1
  InboxCap = 1
  FaultKinds <- NetFaults
SYMMETRY Symmetry
INVARIANTS
  TypeOK
  SessionKey
  ClosedOnce
  SingleReader
  NeverStuck
  SealedTraffic
