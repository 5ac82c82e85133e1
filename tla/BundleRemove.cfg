\* Every call on a bundle of two packages, over a cluster others use as well, and
\* every selection of every acyclic bundle of three.
SPECIFICATION Spec
CONSTANTS
  Package <- Three
  Zarf = {"a", "b"}
  Namespace = {"none", "own"}
  Call <- EveryCall
INVARIANTS
  SuccessIsComplete
  UninstallsDeployed
PROPERTIES
  RemovesDependentsFirst
