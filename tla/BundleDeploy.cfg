\* Every call on a bundle of two packages, and every selection of every acyclic
\* bundle of three; hooks may change the limit within its range.
SPECIFICATION Spec
CONSTANTS
  Package <- Three
  Call <- EveryCall
  MaxConcurrency = 2
  HookLimits = {1, 2}
INVARIANTS
  WorkspacesReclaimed
  ResultTellsTruth
PROPERTIES
  DeploysDependenciesFirst
