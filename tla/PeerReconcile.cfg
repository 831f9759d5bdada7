SPECIFICATION FairSpec
CONSTANTS
  p1 = p1
  p2 = p2
  ifaceX = ifaceX
  NoPeer = NoPeer
  PeerIds = {p1, p2}
  Peerings <- TwoComplete
  CustomIfaces = {ifaceX}
  CustomFiles = {}
  FaultKinds <- AllFaults
  Goals <- Settled
PROPERTIES
  Reconciles
