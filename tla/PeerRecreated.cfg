SPECIFICATION Spec
CONSTANTS
  p1 = p1
  p2 = p2
  ifaceX = ifaceX
  NoPeer = NoPeer
  PeerIds = {p1, p2}
  Peerings <- Recreated
  CustomIfaces = {ifaceX}
  CustomFiles = {}
  FaultKinds = {}
  Goals = {}
INVARIANTS
  AppliedIsReal
