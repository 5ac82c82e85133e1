----------------------------- MODULE BundleGraph -----------------------------
(***************************************************************************)
(* The dependency relation of a bundle, without the algorithms that        *)
(* compute with it.  deps[p] is the set of packages named in the           *)
(* depends_on list of package p; DAG edges point from a package to the     *)
(* packages it depends on (internal/bundle/dependency.go).                 *)
(*                                                                         *)
(* The reference definitions (Ancestors, Acyclic, WaveOf, Waves) say what  *)
(* the graph code is for and do not come from it: DependencyGraph compares *)
(* the code with them, the deployment and removal modules build their      *)
(* plans with them.  KeepRequested, MissingDependencies and                *)
(* DependentBlockers are the code's own selection operators.               *)
(***************************************************************************)
EXTENDS Naturals, Sequences, FiniteSets, SequencesExt

----------------------------------------------------------------------------
(* Reference definitions. *)

\* What is reachable from p along depends_on: the least set that holds what p depends on
\* and with a package what that depends on.
Ancestors(deps) ==
  LET Named == UNION {deps[p] : p \in DOMAIN deps}
      Closed == {S \in SUBSET Named : \A p \in S \intersect DOMAIN deps : deps[p] \subseteq S}
  IN [p \in DOMAIN deps |-> {q \in Named : \A S \in Closed : deps[p] \subseteq S => q \in S}]

Acyclic(deps) == \A p \in DOMAIN deps : p \notin Ancestors(deps)[p]

\* The packages that can start once every wave before the n-th is deployed:
\* the longest dependency chain below them has exactly n - 1 links.
WaveOf(deps) ==
  LET P == DOMAIN deps
      Done[n \in 0..Cardinality(P)] ==
        IF n = 0 THEN {}
        ELSE LET before == Done[n - 1] IN {p \in P : deps[p] \subseteq before}
  IN [n \in 1..Cardinality(P) |-> Done[n] \ Done[n - 1]]

\* The waves of an acyclic bundle as a sequence of nonempty sets: the last ones of as
\* many as there are packages may be empty.
Waves(deps) == RestrictValues(WaveOf(deps), LAMBDA w : w # {})

\* The wave of p in a sequence of waves that contains it.
Position(levels, p) == CHOOSE i \in DOMAIN levels : p \in levels[i]

Members(levels) == UNION {levels[i] : i \in DOMAIN levels}

----------------------------------------------------------------------------
(* Selection (--packages).  An empty request stands for "every package".   *)

\* FilterLevels: of each level what is requested, and no level that is left empty.
KeepRequested(levels, requested) ==
  LET Kept[n \in 0..Len(levels)] ==
        IF n = 0 THEN <<>>
        ELSE LET kept == levels[n] \intersect requested
             IN IF kept = {} THEN Kept[n - 1] ELSE Append(Kept[n - 1], kept)
  IN IF requested = {} THEN levels ELSE Kept[Len(levels)]

\* Faulty variant: a package counts as safe once one dependency is selected.
MissingAllDependencies(deps, selected) ==
  [p \in {q \in selected : deps[q] # {} /\ deps[q] \intersect selected = {}}
     |-> deps[p] \ selected]

\* missingDependencies: for each selected package its direct dependencies that
\* are not selected; packages with none have no entry in the Go map.
MissingDependencies(deps, selected) ==
  [p \in {q \in selected : ~(deps[q] \subseteq selected)}
     |-> deps[p] \ selected]

\* dependentBlockers: for each package being removed, the direct dependents
\* that stay behind.
DependentBlockers(deps, removed) ==
  LET Staying(p) == {q \in DOMAIN deps \ removed : p \in deps[q]}
  IN [p \in {q \in removed : Staying(q) # {}} |-> Staying(p)]

\* DeployViolations and RemovalViolations return no violation when no package
\* is named, and otherwise the map above.
DeploySafe(deps, requested) ==
  requested = {} \/ DOMAIN MissingDependencies(deps, requested) = {}

RemovalSafe(deps, requested) ==
  requested = {} \/ DOMAIN DependentBlockers(deps, requested) = {}
=============================================================================
