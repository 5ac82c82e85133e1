------------------------ MODULE MC_DeployOrchestrator ------------------------
(***************************************************************************)
(* Instances of DeployOrchestrator for TLC.  Packages are numbered in the  *)
(* order of their names; a plan is what TopologicalLevels and FilterLevels *)
(* make of an acyclic bundle and a selection (the waves DependencyGraph    *)
(* checks the code against), each level sorted by name.                    *)
(***************************************************************************)
EXTENDS DeployOrchestrator, BundleGraph, TLC

PlanFor(deps, requested) ==
  LET levels == KeepRequested(Waves(deps), requested)
  IN [deps |-> deps,
      levels |-> [i \in DOMAIN levels |-> SetToSortSeq(levels[i], <)]]

\* Every plan of three packages: each acyclic bundle with each selection.
Three == 1..3
ThreePackagePlans ==
  {PlanFor(deps @@ 4 :> {}, requested) :
     deps \in {g \in [Three -> SUBSET Three] : Acyclic(g)},
     requested \in SUBSET Three \ {{}}}

\* Four packages: the diamond 1 <- {2, 3} <- 4, and four independent ones.
Packages == 1..4
Diamond == <<{}, {1}, {1}, {2, 3}>>
Flat == <<{}, {}, {}, {}>>

AllPlans == ThreePackagePlans \union {PlanFor(Diamond, {}), PlanFor(Flat, {})}
=============================================================================
