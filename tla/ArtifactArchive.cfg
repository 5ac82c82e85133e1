\* Two or three commands that overlap, each of which may fail or be killed anywhere.
SPECIFICATION Spec
CONSTANTS
  Path <- Paths
  Package <- Packages
  Layer <- LayerNames
  Defaults <- DefaultsFiles
  Layers <- PackageLayers
  Job <- Jobs
  Request <- Requests
  Disks <- EveryDisk
  Running <- Teams
INVARIANTS
  SignedIsWhole
  PrunedExactly
  VerifiedIsUsed
  OutcomeIsTrue
\* Every command ends.
CHECK_DEADLOCK FALSE
