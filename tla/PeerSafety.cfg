SPECIFICATION Spec
CONSTANTS
  p1 = p1
  p2 = p2
  ifaceX = ifaceX
  NoPeer = NoPeer
  PeerIds = {p1, p2}
  Peerings <- TwoPeers
  CustomIfaces = {ifaceX}
  CustomFiles = {}
  FaultKinds <- AllFaults
  Goals = {}
INVARIANTS
  TypeOK
  AddedIsReal
  RemovedIsGone
  AppliedIsReal
  NoOrphans
  SyncedExact
PROPERTIES
  KeepsTracked
  ImplementsRegistry
