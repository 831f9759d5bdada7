SPECIFICATION Spec
CONSTANTS
  None = None
  Garbage = Garbage
  Versions = {"v1", "v2"}
  Builds = {1, 2}
  FirstBinary <- First
  Updates <- Pushes
  Goals <- Wanted
  FaultKinds = {"rollback"}
INVARIANTS
  RollbackFindsBackup
