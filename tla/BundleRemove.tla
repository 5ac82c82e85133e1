----------------------------- MODULE BundleRemove -----------------------------
(***************************************************************************)
(* One removal of a bundle: the command (internal/cli/bundle/remove.go),   *)
(* the library's Remove (pkg/bundle/remove.go) and ZarfRemover             *)
(* (internal/zarf/remove.go), over a cluster others may be using.          *)
(*                                                                         *)
(* A deployment is identified by the Zarf package's own name and the       *)
(* namespace it is put into, not by the bundle's label for it; nothing     *)
(* keeps two entries of a bundle from naming the same deployment.  The     *)
(* set of deployments is read once, when the first package is looked up.   *)
(*                                                                         *)
(* Levels are given and as DependencyGraph has them; within a level any    *)
(* order is allowed here.                                                  *)
(***************************************************************************)
EXTENDS BundleGraph

CONSTANTS
  Package,    \* the packages of the bundle
  Zarf,       \* names of Zarf packages
  Namespace,  \* namespaces, one of which stands for "no override"
  Call        \* removals to run: see CallType

Deployment == Zarf \X Namespace

Requested(c) == IF c.requested = {} THEN Package ELSE c.requested

\* What TopologicalLevels and FilterLevels guarantee (DependencyGraph): every
\* selected package in one level, after the levels of what it depends on.
PlanFits(c) ==
  /\ Members(c.levels) = Requested(c)
  /\ \A i, k \in DOMAIN c.levels : \A p \in c.levels[i], q \in c.levels[k] :
       /\ p = q => i = k
       /\ q \in c.deps[p] => k < i

CallType(c) ==
  /\ c.library \in BOOLEAN                 \* called without the command
  /\ c.deps \in [Package -> SUBSET Package]
  /\ c.zarf \in [Package -> Zarf] /\ c.ns \in [Package -> Namespace]
  /\ IsFiniteSet(c.requested)
  /\ c.levels \in Seq(SUBSET Package)
  /\ Acyclic(c.deps) /\ c.requested \subseteq Package => PlanFits(c)
  /\ c.force \in BOOLEAN /\ c.prompt \in BOOLEAN
  /\ c.shared \in BOOLEAN                  \* others change the cluster meanwhile
  /\ c.found \subseteq Deployment          \* on the cluster when the call begins

ASSUME RemoveCallAssumption ==
  /\ IsFiniteSet(Package) /\ Package # {}
  /\ \A c \in Call : CallType(c)

VARIABLES
  call,      \* the arguments; never change
  stage,     \* program counter of the call chain
  cluster,   \* deployments on the cluster
  deployed,  \* ZarfRemover.deployed: [loaded, set]
  current,   \* the package being uninstalled: a set of at most one
  removed, skipped,  \* the results so far
  outcome,   \* none, error, declined or ok
  absent,    \* history: deployments seen off the cluster since the call began
  meddled    \* history: the cluster was changed by others

callVars == <<call, stage, deployed, current, removed, skipped, outcome>>
vars == <<callVars, cluster, absent, meddled>>

\* Faulty variant: the namespace is left out.
NameKey(p) == <<call.zarf[p], CHOOSE n \in Namespace : TRUE>>

\* deployedKey.
DeployedKey(p) == <<call.zarf[p], call.ns[p]>>

\* What packager.Remove goes by.
Deployed(p) == <<call.zarf[p], call.ns[p]>>

Own == {Deployed(p) : p \in Package}

Levels == call.levels

----------------------------------------------------------------------------
Init ==
  /\ call \in Call
  /\ stage = IF call.library THEN "check" ELSE "validate"
  /\ cluster = call.found
  /\ deployed = [loaded |-> FALSE, set |-> {}]
  /\ current = {} /\ removed = {} /\ skipped = {}
  /\ outcome = "none"
  /\ absent = Own \ call.found
  /\ meddled = FALSE

SetCluster(c) == cluster' = c /\ absent' = absent \union (Own \ c)

\* Somebody else deploys or removes one of the packages.
Meddle ==
  /\ call.shared /\ stage # "done"
  /\ \E d \in Own : SetCluster(IF d \in cluster THEN cluster \ {d} ELSE cluster \union {d})
  /\ meddled' = TRUE
  /\ UNCHANGED callVars

Leave(from, result) ==
  /\ stage = from /\ stage' = "done" /\ outcome' = result
  /\ UNCHANGED <<call, deployed, removed, skipped, meddled>>

Refuse(from, result) == Leave(from, result) /\ UNCHANGED <<current, cluster, absent>>

Advance(from, to) ==
  /\ stage = from /\ stage' = to
  /\ UNCHANGED <<call, cluster, deployed, current, removed, skipped, outcome, absent, meddled>>

\* UDSBundle.Validate, ValidatePackageNames, RemovalViolations.
ValidBundle == \A p \in Package : p \notin call.deps[p]
KnownNames == call.requested \subseteq Package
Allowed == call.force \/ RemovalSafe(call.deps, call.requested)

Checked(from, ok, to) == IF ok THEN Advance(from, to) ELSE Refuse(from, "error")

----------------------------------------------------------------------------
\* RemoveOptions.Validate: refuses before the prompt.
Validate ==
  \/ Refuse("validate", "error")           \* the definition does not parse
  \/ Checked("validate", ValidBundle /\ KnownNames /\ Allowed,
             IF call.prompt THEN "prompt" ELSE "check")

Prompt ==
  \/ Advance("prompt", "check")
  \/ Refuse("prompt", "error")
  \/ Refuse("prompt", "declined")

\* Remove checks again, for callers that do not come through the command; the
\* graph and the levels follow in RemoveBundle.
Check ==
  \/ Refuse("check", "error")
  \/ Checked("check", ValidBundle /\ Allowed /\ Acyclic(call.deps) /\ KnownNames, "remove")

----------------------------------------------------------------------------
(* removePackages, one package after the other. *)

Settled == removed \union skipped

\* Faulty variant: the levels are walked in the order they are deployed in.
InTurnForwards(p) ==
  \E i \in DOMAIN Levels :
    /\ p \in Levels[i] \ Settled
    /\ \A j \in 1..(i - 1) : Levels[j] \subseteq Settled

\* The levels are walked from the last to the first.
InTurn(p) ==
  \E i \in DOMAIN Levels :
    /\ p \in Levels[i] \ Settled
    /\ \A j \in (i + 1)..Len(Levels) : Levels[j] \subseteq Settled

\* RemovePackage up to the lookup: the cluster, the package's metadata or the
\* list of deployments cannot be read, or the package is not in that list, or it is.
\* The list is cached before it is asked.
LookUp(p) ==
  /\ stage = "remove" /\ current = {} /\ InTurn(p)
  /\ \/ Refuse("remove", "error")
     \/ LET known == IF deployed.loaded THEN deployed.set ELSE cluster
        IN /\ deployed' = [loaded |-> TRUE, set |-> known]
           /\ IF DeployedKey(p) \in known
              THEN current' = {p} /\ UNCHANGED skipped
              ELSE skipped' = skipped \union {p} /\ UNCHANGED current
           /\ UNCHANGED <<call, stage, cluster, removed, outcome, absent, meddled>>

\* packager.Remove of a deployment.
Uninstall(p) ==
  /\ p \in current /\ Deployed(p) \in cluster
  /\ SetCluster(cluster \ {Deployed(p)})
  /\ removed' = removed \union {p} /\ current' = {}
  /\ UNCHANGED <<call, stage, deployed, skipped, outcome, meddled>>

\* Faulty variant: a package that cannot be removed counts as skipped.
UninstallFailsOn(p) ==
  /\ p \in current
  /\ SetCluster(cluster)
  /\ skipped' = skipped \union {p} /\ current' = {}
  /\ UNCHANGED <<call, stage, deployed, removed, outcome, meddled>>

\* packager.Remove fails: half-way through, or because there is nothing to remove.
\* What was removed so far is not reported.
UninstallFails(p) ==
  /\ p \in current /\ current' = {}
  /\ \E gone \in SUBSET {Deployed(p)} : SetCluster(cluster \ gone)
  /\ Leave("remove", "error")

Finished ==
  /\ Members(Levels) \subseteq Settled
  /\ Refuse("remove", "ok")

----------------------------------------------------------------------------
Terminating == stage = "done" /\ UNCHANGED vars

Step ==
  \/ Validate \/ Prompt \/ Check
  \/ \E p \in Package : LookUp(p) \/ Uninstall(p) \/ UninstallFails(p)
  \/ Finished

Next == Meddle \/ Step \/ Terminating

\* One sequential call; the prompt and each call to the cluster return.
Spec == Init /\ [][Next]_vars /\ WF_vars(Step)

----------------------------------------------------------------------------

\* Each entry of the bundle has a deployment of its own.
Distinct == \A p, q \in Package : Deployed(p) = Deployed(q) => p = q

Contract ==
  INSTANCE ClusterContract
    WITH deps <- call.deps, cluster <- {p \in Package : Deployed(p) \in cluster}

\* Unforced, and with the cluster to itself, a removal takes packages away only
\* when nothing deployed depends on them, whatever is selected, skipped or fails.
RemovesDependentsFirst ==
  [][~call.force /\ ~meddled' /\ Distinct => Contract!Next \/ UNCHANGED cluster]_vars

\* A removal that reports success has seen every selected package off the cluster,
\* whatever others deployed or removed meanwhile, and lists each of them.
SuccessIsComplete ==
  outcome = "ok" =>
    /\ Settled = Requested(call)
    /\ \A p \in Requested(call) : Deployed(p) \in absent

\* A package is uninstalled under the identity it was found by: alone on the
\* cluster, the remover only uninstalls what is there.
UninstallsDeployed ==
  ~meddled /\ Distinct => \A p \in current : Deployed(p) \in cluster
=============================================================================
