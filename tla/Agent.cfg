SPECIFICATION FairAgentSpec
CONSTANTS
  p1 = p1
  p2 = p2
  ifaceX = ifaceX
  NoPeer = NoPeer
  PeerIds = {p1, p2}
  Peerings <- TwoComplete
  CustomIfaces = {ifaceX}
  CustomFiles = {}
  FaultKinds = {"reboot"}
  Goals = {}
  Slots = 1
  BirdDetailInterval = 0
  NoLLA = {}
  CollectFaults = {"wg", "birdc", "ping", "send"}
INVARIANTS
  CollectorTypeOK
  SteadyReported
PROPERTIES
  CollectEnds
