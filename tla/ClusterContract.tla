--------------------------- MODULE ClusterContract ---------------------------
(***************************************************************************)
(* What every unforced deployment and removal promises about the packages  *)
(* of a bundle on a cluster: one package comes or goes at a time, it comes *)
(* when everything it depends on is there and goes when nothing that is    *)
(* there depends on it.  BundleDeploy and BundleRemove take such steps     *)
(* only (CODE: DeployViolations, RemovalViolations and the level order of  *)
(* the two directions), so between them, in any sequence and whatever      *)
(* fails half-way, the cluster is never left with a package whose          *)
(* dependencies are missing.                                               *)
(***************************************************************************)
CONSTANT Package

VARIABLES
  deps,     \* the packages each package depends on
  cluster   \* the packages that are deployed

Closed == \A p \in cluster : deps[p] \subseteq cluster

Init ==
  /\ deps \in [Package -> SUBSET Package]
  /\ cluster \in SUBSET Package
  /\ Closed

Add(p) ==
  /\ deps[p] \subseteq cluster
  /\ cluster' = cluster \union {p}
  /\ UNCHANGED deps

Drop(p) ==
  /\ \A q \in cluster \ {p} : p \notin deps[q]
  /\ cluster' = cluster \ {p}
  /\ UNCHANGED deps

Next == \E p \in Package : Add(p) \/ Drop(p)

Spec == Init /\ [][Next]_<<deps, cluster>>
=============================================================================
