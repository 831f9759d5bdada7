SPECIFICATION FairSpec
CONSTANTS
  None = None
  Garbage = Garbage
  Versions = {"v1", "v2"}
  Builds = {1, 2}
  FirstBinary <- First
  Updates <- FewPushes
  Goals <- Wanted
  FaultKinds <- AllFaults
PROPERTIES
  Updated
