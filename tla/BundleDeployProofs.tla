-------------------------- MODULE BundleDeployProofs --------------------------
(***************************************************************************)
(* An unforced deployment only takes steps ClusterContract allows, what    *)
(* the caller is told matches the cluster, and every workspace is given    *)
(* back: for every bundle, selection and interleaving.                     *)
(*                                                                         *)
(* The first invariant, Inv, ties three checks made at different moments together: the *)
(* selection was checked before the deployment began (Allowed), the names  *)
(* when it was planned (KnownNames), and a package only runs when every    *)
(* dependency that was planned has succeeded, which is on the cluster.     *)
(* Told adds what is known of the result at each stage of the chain, and   *)
(* Dirs of the workspaces.                                                 *)
(*                                                                         *)
(* Last comes the resolution that precedes a deployment, DependencyGraph:  *)
(* the search finds the cycles there are, the levels are the reference     *)
(* waves, and the checks of a selection reach as far as the dependencies   *)
(* do.                                                                     *)
(***************************************************************************)
EXTENDS BundleDeploy, DependencyGraph, FiniteSetTheorems, WellFoundedInduction, TLAPS

OrderType == [deps : [Package -> SUBSET Package], selected : SUBSET Package, limit : Nat]

Ordered ==
  /\ order \in OrderType
  /\ order.deps = call.deps /\ order.selected = Selected

Supported ==
  \A p \in running : /\ p \in order.selected
                     /\ order.deps[p] \intersect order.selected \subseteq succeeded

Vetted ==
  /\ stage \in {"plan", "hook", "run"} => Allowed
  /\ stage \in {"hook", "run"} => KnownNames

Inv ==
  /\ CallType(call)
  /\ Ordered
  /\ Supported
  /\ succeeded \subseteq cluster
  /\ Vetted

----------------------------------------------------------------------------
\* FilterLevels: what is planned are packages of the bundle.
LEMMA SelectedInBundle == Selected \subseteq Package
BY DEF Selected

LEMMA Begins == Init => Inv
<1> SUFFICES ASSUME Init PROVE Inv
  OBVIOUS
<1>1. CallType(call)
  BY DeployCallAssumption DEF Init
<1>2. call.deps \in [Package -> SUBSET Package] /\ call.limit \in Nat
  BY <1>1 DEF CallType
<1>3. Ordered
  BY <1>2, SelectedInBundle DEF Init, Ordered, OrderType
<1>4. Supported /\ succeeded \subseteq cluster
  BY DEF Init, Supported
<1>5. Vetted
  <2>1. stage = Entry(call.source) /\ call.source \in Source
    BY <1>1 DEF Init, CallType
  <2>2. stage \in {"pull", "prepare", "deploy"}
    BY <2>1 DEF Entry, Source
  <2> QED
    BY <2>2 DEF Vetted
<1> QED
  BY <1>1, <1>3, <1>4, <1>5 DEF Inv

\* A step that leaves the call, the plan and the deployment alone and does not move
\* past a check keeps the invariant.
LEMMA QuietStep ==
  ASSUME Inv, UNCHANGED <<call, order, running, succeeded>>,
         succeeded \subseteq cluster',
         stage' = "plan" => Allowed,
         stage' \in {"hook", "run"} => Allowed /\ KnownNames
  PROVE  Inv'
<1>1. CallType(call)' /\ Ordered' /\ Supported'
  BY DEF Inv, CallType, Ordered, OrderType, Selected, Supported
<1>2. (succeeded \subseteq cluster)'
  BY DEF Inv
<1>3. Vetted'
  BY DEF Vetted, Allowed, KnownNames
<1> QED
  BY <1>1, <1>2, <1>3 DEF Inv

\* Nothing before Run deploys, and "plan" and "run" are only reached through the
\* checks of Deploy and DeployBundle.
LEMMA Checks ==
  ASSUME Inv, Pull \/ Pulled \/ Prepare \/ Unpack \/ Select \/ Prompt \/ Deploy \/ Plan
  PROVE  Inv' /\ UNCHANGED cluster
<1> USE DEF Unpack, ExtractArtifact, ValuesFilesByPackage, ReadDefinition, ParseBundleBytes,
            ApplyArtifactValuesFiles, AdjacentDefaultsPath, Discard
<1>1. UNCHANGED <<call, order, running, succeeded, cluster>>
  BY DEF Pull, Pulled, Prepare, Select, Prompt, Deploy, Plan,
         Checked, Fail, Advance, runVars
<1>2. stage' = "plan" => Allowed
  BY DEF Pull, Pulled, Prepare, Select, Prompt, Deploy, Plan,
         Checked, Fail, Advance, Goto
<1>3. stage' \in {"hook", "run"} => stage = "plan" /\ KnownNames
  BY DEF Pull, Pulled, Prepare, Select, Prompt, Deploy, Plan,
         Checked, Fail, Advance, Goto
<1>4. succeeded \subseteq cluster' /\ (stage = "plan" => Allowed)
  BY <1>1 DEF Inv, Vetted
<1> QED
  BY <1>1, <1>2, <1>3, <1>4, QuietStep

\* A hook only changes the limit.
LEMMA Hook == ASSUME Inv, PreDeploy PROVE Inv' /\ UNCHANGED cluster
<1>1. CASE Fail("hook")
  <2>1. UNCHANGED <<call, order, running, succeeded, cluster>> /\ stage' = "close"
    BY <1>1 DEF Fail, Goto, runVars
  <2> QED
    BY <2>1, QuietStep DEF Inv
<1>2. CASE ~Fail("hook")
  <2>1. /\ stage = "hook" /\ stage' = "run"
        /\ UNCHANGED <<call, cluster, running, succeeded>>
    BY <1>2 DEF PreDeploy, Goto
  <2>2. PICK n \in HookLimits \union {order.limit} : order' = [order EXCEPT !.limit = n]
    BY <1>2 DEF PreDeploy
  <2>3. order \in OrderType /\ n \in Nat
    BY DeployCallAssumption DEF Inv, Ordered, OrderType
  <2>4. /\ order' \in OrderType
        /\ order'.deps = order.deps /\ order'.selected = order.selected
    BY <2>2, <2>3 DEF OrderType
  <2>5. CallType(call)' /\ Ordered' /\ Supported' /\ (succeeded \subseteq cluster)'
    BY <2>1, <2>4 DEF Inv, CallType, Ordered, Selected, Supported
  <2>6. Vetted'
    BY <2>1 DEF Inv, Vetted, Allowed, KnownNames
  <2> QED
    BY <2>1, <2>5, <2>6 DEF Inv
<1> QED
  BY <1>1, <1>2

\* A package is started with its planned dependencies deployed.
LEMMA StartSupported ==
  ASSUME Inv, NEW p \in Package, StartPackage(p)
  PROVE  Inv' /\ UNCHANGED cluster
<1>1. /\ p \in order.selected
      /\ order.deps[p] \intersect order.selected \subseteq succeeded
      /\ running' = running \union {p}
      /\ UNCHANGED <<call, stage, cluster, order, succeeded>>
  BY DEF StartPackage, Run!Start
<1>2. CallType(call)' /\ Ordered' /\ (succeeded \subseteq cluster)'
  BY <1>1 DEF Inv, CallType, Ordered, OrderType, Selected
<1>3. Supported' /\ Vetted'
  BY <1>1 DEF Inv, Supported, Vetted, Allowed, KnownNames
<1> QED
  BY <1>1, <1>2, <1>3 DEF Inv

\* A vetted selection holds the dependencies of what it holds.
LEMMA SelectionSelfContained ==
  ASSUME Inv, stage = "run", ~call.force, NEW p \in Selected
  PROVE  call.deps[p] \subseteq Selected
<1>1. call.deps \in [Package -> SUBSET Package] /\ p \in Package
  BY SelectedInBundle DEF Inv, CallType
<1>2. CASE call.requested = {}
  BY <1>1, <1>2 DEF Selected
<1>3. CASE call.requested # {}
  <2>1. call.requested \subseteq Package
    BY DEF Inv, Vetted, KnownNames
  <2>2. DeploySafe(call.deps, Selected) /\ Selected # {}
    BY <1>3, <2>1 DEF Inv, Vetted, Allowed, Selected
  <2>3. {q \in Selected : ~(call.deps[q] \subseteq Selected)} = {}
    BY <2>2 DEF DeploySafe, MissingDependencies
  <2> QED
    BY <2>3
<1> QED
  BY <1>2, <1>3

\* A package that finishes, well or badly, comes to a cluster that has what it needs.
LEMMA FinishSupported ==
  ASSUME Inv, NEW p \in Package, FinishPackage(p)
  PROVE  /\ Inv'
         /\ ~call.force => Contract!Add(p) \/ UNCHANGED cluster
<1>1. /\ stage = "run" /\ p \in running /\ running' = running \ {p}
      /\ succeeded' = succeeded \/ succeeded' = succeeded \union {p}
      /\ cluster' = cluster \/ cluster' = cluster \union {p}
      /\ p \in succeeded' => p \in cluster'
      /\ UNCHANGED <<call, stage, order>>
  BY DEF FinishPackage, Run!Finish
<1>2. CallType(call)' /\ Ordered'
  BY <1>1 DEF Inv, CallType, Ordered, OrderType, Selected
<1>3. (succeeded \subseteq cluster)'
  BY <1>1 DEF Inv
<1>4. Supported' /\ Vetted'
  BY <1>1 DEF Inv, Supported, Vetted, Allowed, KnownNames
<1>5. ASSUME ~call.force, cluster' = cluster \union {p}
      PROVE  Contract!Add(p)
  <2>1. p \in Selected /\ call.deps[p] \intersect Selected \subseteq cluster
    BY <1>1 DEF Inv, Supported, Ordered
  <2>2. call.deps[p] \subseteq Selected
    BY <1>1, <1>5, <2>1, SelectionSelfContained
  <2> QED
    BY <1>1, <1>5, <2>1, <2>2 DEF Contract!Add
<1> QED
  BY <1>1, <1>2, <1>3, <1>4, <1>5 DEF Inv

\* The way out deploys nothing.
LEMMA WayOut ==
  ASSUME Inv, Interrupt \/ ReturnFromRun \/ PostDeploy \/ Close \/ UNCHANGED vars
  PROVE  Inv' /\ UNCHANGED cluster
<1>1. UNCHANGED <<call, order, running, succeeded, cluster>>
  BY DEF Interrupt, ReturnFromRun, PostDeploy, Close, Run!Return, runVars, vars
<1>2. stage' \in {"plan", "hook", "run"} => stage' = stage
  BY DEF Interrupt, ReturnFromRun, PostDeploy, Close, Goto, vars
<1> QED
  BY <1>1, <1>2, QuietStep DEF Inv, Vetted

LEMMA EveryStep ==
  ASSUME Inv, [Next]_vars
  PROVE  Inv' /\ (~call.force => Contract!Next \/ UNCHANGED cluster)
<1>1. CASE Pull \/ Pulled \/ Prepare \/ Unpack \/ Select \/ Prompt \/ Deploy \/ Plan
  BY <1>1, Checks
<1>2. CASE PreDeploy
  BY <1>2, Hook
<1>3. ASSUME NEW p \in Package, StartPackage(p)
      PROVE  Inv' /\ UNCHANGED cluster
  BY <1>3, StartSupported
<1>4. ASSUME NEW p \in Package, FinishPackage(p)
      PROVE  Inv' /\ (~call.force => Contract!Next \/ UNCHANGED cluster)
  BY <1>4, FinishSupported DEF Contract!Next
<1>5. CASE Interrupt \/ ReturnFromRun \/ PostDeploy \/ Close \/ UNCHANGED vars
  BY <1>5, WayOut
<1> QED
  BY <1>1, <1>2, <1>3, <1>4, <1>5 DEF Next, Step, Terminating

----------------------------------------------------------------------------
\* What an unforced deployment does to the cluster, whatever the bundle, the
\* selection, the limit, the hooks and the interleaving: one package at a time
\* comes, and it comes to a cluster that has everything it depends on.
THEOREM DependenciesFirst == Spec => DeploysDependenciesFirst
<1>1. Init => Inv
  BY Begins
<1>2. Inv /\ [Next]_vars => Inv'
  BY EveryStep
<1>3. Inv /\ [Next]_vars => [~call.force => Contract!Next \/ UNCHANGED cluster]_vars
  BY EveryStep
<1> QED
  BY <1>1, <1>2, <1>3, PTL DEF Spec, DeploysDependenciesFirst

----------------------------------------------------------------------------
\* One package coming or going as the contract allows leaves no deployed package
\* without a dependency.
LEMMA StepKeepsClosed ==
  ASSUME Contract!Closed, Contract!Next
  PROVE  Contract!Closed'
<1>1. PICK p \in Package : Contract!Add(p) \/ Contract!Drop(p)
  BY DEF Contract!Next
<1>2. CASE Contract!Add(p)
  <2>1. call.deps[p] \subseteq cluster /\ cluster' = cluster \union {p} /\ call.deps' = call.deps
    BY <1>2 DEF Contract!Add
  <2> QED
    BY <2>1 DEF Contract!Closed
<1>3. CASE Contract!Drop(p)
  <2>1. /\ \A q \in cluster \ {p} : p \notin call.deps[q]
        /\ cluster' = cluster \ {p} /\ call.deps' = call.deps
    BY <1>3 DEF Contract!Drop
  <2> QED
    BY <2>1 DEF Contract!Closed
<1> QED
  BY <1>1, <1>2, <1>3

\* Whatever sequence of unforced deployments and removals a cluster sees, complete
\* or cut short, every package on it has its dependencies on it (DeployViolations,
\* RemovalViolations and the order of levels).
THEOREM ClusterStaysClosed == Contract!Spec => []Contract!Closed
<1>1. Contract!Init => Contract!Closed
  BY DEF Contract!Init
<1>2. ASSUME Contract!Closed, [Contract!Next]_<<call.deps, cluster>> PROVE Contract!Closed'
  BY <1>2, StepKeepsClosed DEF Contract!Closed
<1> QED
  BY <1>1, <1>2, PTL DEF Contract!Spec

Unforced == ~call.force

\* The arguments of the call stay.
LEMMA CallStays == ASSUME [Next]_vars PROVE UNCHANGED call
<1> USE DEF Fail, Advance, Checked, Goto, Discard, vars
<1>1. CASE Interrupt \/ UNCHANGED vars
  BY <1>1 DEF Interrupt
<1>2. CASE Pull \/ Pulled \/ Prepare \/ Unpack
  BY <1>2 DEF Pull, Pulled, Prepare, Unpack, ExtractArtifact, ValuesFilesByPackage,
              ReadDefinition, ParseBundleBytes, ApplyArtifactValuesFiles, AdjacentDefaultsPath
<1>3. CASE Select \/ Prompt \/ Deploy \/ Plan \/ PreDeploy
  BY <1>3 DEF Select, Prompt, Deploy, Plan, PreDeploy
<1>4. CASE \E p \in Package : StartPackage(p) \/ FinishPackage(p)
  BY <1>4 DEF StartPackage, FinishPackage
<1>5. CASE ReturnFromRun \/ PostDeploy \/ Close
  BY <1>5 DEF ReturnFromRun, PostDeploy, Close
<1> QED
  BY <1>1, <1>2, <1>3, <1>4, <1>5 DEF Next, Step, Terminating

\* An unforced deployment to a cluster whose packages have their dependencies leaves
\* it so at every moment, also when it fails, is cancelled or is killed half-way.
THEOREM DeploysKeepClosed == Spec /\ Unforced /\ Contract!Closed => []Contract!Closed
<1>1. ASSUME Inv, Unforced, Contract!Closed, [Next]_vars
      PROVE  Inv' /\ Unforced' /\ Contract!Closed'
  <2>1. Inv' /\ call' = call /\ (Contract!Next \/ UNCHANGED cluster)
    BY <1>1, CallStays, EveryStep DEF Unforced
  <2>2. CASE UNCHANGED cluster
    BY <1>1, <2>1, <2>2 DEF Contract!Closed, Unforced
  <2>3. CASE Contract!Next
    BY <1>1, <2>1, <2>3, StepKeepsClosed DEF Unforced
  <2> QED
    BY <2>1, <2>2, <2>3
<1> QED
  BY <1>1, Begins, PTL DEF Spec

----------------------------------------------------------------------------
LEMMA Invariance == Spec => []Inv
  BY Begins, EveryStep, PTL DEF Spec

\* The stages in which the artifact is unpacked, those before Run, and those in which
\* the unpacked artifact is used.
Unpacking == {"extract", "values", "read", "parse", "relate", "defaults"}
Early == Unpacking \union {"pull", "pulling", "prepare", "select", "prompt", "deploy", "plan", "hook"}
Using == {"select", "prompt", "deploy", "plan", "hook", "run", "post"}

\* No result and an untouched cluster before Run, the whole selection deployed after a
\* Run without an error, and then the result that was made of it.
Told ==
  /\ stage \in Early \union {"run", "post", "close", "done"}
  /\ stage \in Early => cluster = call.found
  /\ stage \in Early \union {"run", "post"} => outcome = [kind |-> "none", listed |-> {}]
  /\ stage = "post" => succeeded = Selected
  /\ workspaces \subseteq {"pull", "extract"} /\ deferred \subseteq {"pull", "extract"}
  /\ cluster \subseteq Package
  /\ outcome.kind \in {"none", "error", "declined", "ok", "posthook"}
  /\ outcome.listed \subseteq Package
  /\ outcome.kind \in {"ok", "posthook"} =>
       outcome.listed = Selected /\ Selected \subseteq cluster
  /\ outcome.kind = "declined" => cluster = call.found
  /\ outcome.kind = "error" /\ cluster # call.found => failed # {} \/ cancelled

\* A directory is one whose removal is deferred, but for that of an artifact that is
\* being unpacked, which PrepareDeploySource itself has to remove if it fails.
Dirs ==
  /\ stage \in Unpacking => workspaces = deferred \union {"extract"}
  /\ stage \notin Unpacking \union {"done"} => workspaces = deferred
  /\ stage \in {"pull", "pulling", "prepare"} \union Unpacking => "extract" \notin deferred
  /\ stage \in Using /\ call.source \in {"oci", "artifact"} => "extract" \in deferred
  /\ stage = "done" => workspaces = {}

LEMMA ToldAtFirst == Init => Told /\ Dirs
<1> SUFFICES ASSUME Init PROVE Told /\ Dirs
  OBVIOUS
<1>1. CallType(call)
  BY DeployCallAssumption DEF Init
<1>2. /\ stage \in {"pull", "prepare", "deploy"}
      /\ call.source \in {"oci", "artifact"} => stage \in {"pull", "prepare"}
  BY <1>1 DEF Init, CallType, Source, Entry
<1>3. workspaces = {} /\ deferred = {} /\ cluster = call.found /\ outcome = [kind |-> "none", listed |-> {}]
  BY DEF Init
<1>4. Told
  BY <1>1, <1>2, <1>3 DEF Told, Early, Unpacking, CallType
<1> QED
  BY <1>2, <1>3, <1>4 DEF Dirs, Using, Unpacking

\* A step before Run leaves the cluster alone, and is the last one if it has a result,
\* which is an error or a prompt that was declined.
LEMMA ToldEarly ==
  ASSUME Told, stage \in Early, UNCHANGED <<call, cluster>>,
         workspaces' \subseteq {"pull", "extract"}, deferred' \subseteq {"pull", "extract"},
         \/ stage' \in Early \union {"run"} /\ UNCHANGED outcome
         \/ /\ stage' = "close"
            /\ outcome' \in {[kind |-> k, listed |-> {}] : k \in {"error", "declined"}}
  PROVE  Told'
<1>1. cluster' = call'.found /\ cluster' \subseteq Package
  BY DEF Told
<1>2. CASE stage' \in Early \union {"run"} /\ UNCHANGED outcome
  <2>1. outcome' = [kind |-> "none", listed |-> {}]
    BY <1>2 DEF Told
  <2>2. stage' # "post"
    BY <1>2 DEF Early, Unpacking
  <2> QED
    BY <1>1, <1>2, <2>1, <2>2 DEF Told
<1>3. CASE /\ stage' = "close"
           /\ outcome' \in {[kind |-> k, listed |-> {}] : k \in {"error", "declined"}}
  <2>1. outcome'.kind \in {"error", "declined"} /\ outcome'.listed = {}
    BY <1>3
  <2>2. stage' \notin Early \union {"run", "post"}
    BY <1>3 DEF Early, Unpacking
  <2> QED
    BY <1>1, <1>3, <2>1, <2>2 DEF Told
<1> QED
  BY <1>2, <1>3

\* The checks, the prompt and the first hook.
LEMMA ToldChecks ==
  ASSUME Told, Dirs, CallType(call),
         Pull \/ Pulled \/ Prepare \/ Unpack \/ Select \/ Prompt \/ Deploy \/ Plan \/ PreDeploy
  PROVE  Told' /\ Dirs'
<1> USE DEF Unpack, ExtractArtifact, ValuesFilesByPackage, ReadDefinition, ParseBundleBytes,
            ApplyArtifactValuesFiles, AdjacentDefaultsPath, Discard,
            Pull, Pulled, Prepare, Select, Prompt, Deploy, Plan, PreDeploy,
            Checked, Fail, Advance, Goto, Finish, dirs
<1>1. stage \in Early /\ UNCHANGED <<call, cluster>>
  BY DEF Early, Unpacking
<1>2. workspaces' \subseteq {"pull", "extract"} /\ deferred' \subseteq {"pull", "extract"}
  BY DEF Told
<1>3. \/ stage' \in Early \union {"run"} /\ UNCHANGED outcome
      \/ /\ stage' = "close"
         /\ outcome' \in {[kind |-> k, listed |-> {}] : k \in {"error", "declined"}}
  BY DEF Early, Unpacking
<1>4. Told'
  BY <1>1, <1>2, <1>3, ToldEarly
<1> SUFFICES Dirs'
  BY <1>4
<1>5. CASE Pull \/ Pulled
  <2>1. stage \in {"pull", "pulling"} /\ stage' \in {"pulling", "prepare", "close"}
    BY <1>5
  <2>2. \/ UNCHANGED dirs
        \/ workspaces' = workspaces \union {"pull"} /\ deferred' = deferred \union {"pull"}
    BY <1>5
  <2> QED
    BY ONLY Dirs, <1>1, <2>1, <2>2 DEF Dirs, dirs, Using, Unpacking
<1>6. CASE Prepare
  <2>1. stage = "prepare"
    BY <1>6
  <2>2. \/ stage' = "close" /\ UNCHANGED dirs
        \/ stage' = "select" /\ call.source = "definition" /\ UNCHANGED dirs
        \/ stage' = "extract" /\ workspaces' = workspaces \union {"extract"} /\ UNCHANGED deferred
    BY <1>6
  <2> QED
    BY ONLY Dirs, <1>1, <2>1, <2>2 DEF Dirs, dirs, Using, Unpacking
<1>7. CASE Unpack
  <2>1. stage \in Unpacking
    BY <1>7 DEF Unpacking
  <2>2. \/ stage' = "close" /\ workspaces' = workspaces \ {"extract"} /\ UNCHANGED deferred
        \/ stage' \in Unpacking /\ UNCHANGED dirs
        \/ stage' = "select" /\ deferred' = deferred \union {"extract"} /\ UNCHANGED workspaces
    BY <1>7 DEF Unpacking
  <2> QED
    BY ONLY Dirs, <1>1, <2>1, <2>2 DEF Dirs, dirs, Using, Unpacking
<1>8. CASE Select \/ Prompt \/ Deploy \/ Plan \/ PreDeploy
  <2>1. stage \in Using /\ stage' \in Using \union {"close"} /\ UNCHANGED dirs
    BY <1>8 DEF Using
  <2> QED
    BY ONLY Dirs, <1>1, <2>1 DEF Dirs, dirs, Using, Unpacking
<1> QED
  BY <1>5, <1>6, <1>7, <1>8

\* Packages come to the cluster while Run runs, when there is no result yet.
LEMMA ToldPackages ==
  ASSUME Told, Dirs, NEW p \in Package, StartPackage(p) \/ FinishPackage(p)
  PROVE  Told' /\ Dirs'
<1>1. /\ stage = "run" /\ cluster' \in {cluster, cluster \union {p}}
      /\ UNCHANGED <<call, stage, dirs, outcome>>
  BY DEF StartPackage, FinishPackage
<1>2. outcome = [kind |-> "none", listed |-> {}] /\ stage \notin Early
  BY <1>1 DEF Told, Early, Unpacking
<1> QED
  BY <1>1, <1>2 DEF dirs, Told, Dirs

\* Run returns: without an error the whole selection is deployed, and an error has a
\* failure or a cancellation behind it.
LEMMA ToldReturn == ASSUME Inv, Told, Dirs, ReturnFromRun PROVE Told' /\ Dirs'
<1>1. /\ stage = "run" /\ UNCHANGED <<call, cluster, dirs, succeeded, failed, cancelled>>
      /\ order.selected = Selected
  BY DEF ReturnFromRun, Run!Return, Goto, Inv, Ordered
<1>2. Selected' = Selected
  BY <1>1 DEF Selected
<1>3. CASE verdict'.kind = "ok"
  <2>1. stage' = "post" /\ UNCHANGED outcome
    BY <1>3 DEF ReturnFromRun, Goto
  <2>2. succeeded = Selected
    BY <1>1, <1>3 DEF ReturnFromRun, Run!Return
  <2> QED
    BY <1>1, <1>2, <2>1, <2>2 DEF dirs, Told, Dirs, Using, Unpacking, Early
<1>4. CASE verdict'.kind # "ok"
  <2>1. stage' = "close" /\ outcome' = [kind |-> "error", listed |-> {}]
    BY <1>4 DEF ReturnFromRun, Goto, Finish
  <2>2. failed # {} \/ cancelled
    BY <1>4 DEF ReturnFromRun, Run!Return
  <2> QED
    BY <1>1, <1>2, <2>1, <2>2 DEF dirs, Told, Dirs, Using, Unpacking, Early
<1> QED
  BY <1>3, <1>4

\* The result is made of what succeeded.
LEMMA ToldPostDeploy == ASSUME Inv, Told, Dirs, PostDeploy PROVE Told' /\ Dirs'
<1>1. /\ stage = "post" /\ stage' = "close"
      /\ outcome' \in {[kind |-> k, listed |-> succeeded] : k \in {"ok", "posthook"}}
      /\ UNCHANGED <<call, cluster, dirs, failed, cancelled>>
  BY DEF PostDeploy, Goto, Finish, runVars
<1>2. outcome'.kind \in {"ok", "posthook"} /\ outcome'.listed = succeeded
  BY <1>1
<1>3. succeeded = Selected /\ Selected \subseteq cluster /\ Selected' = Selected
  BY <1>1 DEF Told, Inv, Selected
<1> QED
  BY <1>1, <1>2, <1>3, SelectedInBundle DEF dirs, Told, Dirs, Using, Unpacking, Early

LEMMA ToldRest == ASSUME Told, Dirs, Close \/ Interrupt \/ UNCHANGED vars PROVE Told' /\ Dirs'
<1>1. CASE Close
  BY <1>1 DEF Close, Goto, runVars, Told, Dirs, Using, Unpacking, Early, Selected
<1>2. CASE Interrupt
  BY <1>2 DEF Interrupt, dirs, Told, Dirs, Selected
<1>3. CASE UNCHANGED vars
  BY <1>3 DEF vars, Told, Dirs, Selected
<1> QED
  BY <1>1, <1>2, <1>3

LEMMA ToldInvariance == Spec => [](Inv /\ Told /\ Dirs)
<1>1. ASSUME Inv, Told, Dirs, [Next]_vars PROVE Told' /\ Dirs'
  BY <1>1, ToldChecks, ToldPackages, ToldReturn, ToldPostDeploy, ToldRest
     DEF Next, Step, Terminating, Inv
<1> QED
  BY <1>1, ToldAtFirst, Invariance, PTL DEF Spec

\* What the caller is told matches the cluster, whatever fails, is declined, cancelled
\* or changed by a hook: a result lists the whole selection, and all of it is deployed;
\* an error over a changed cluster has a failure or a cancellation behind it.
THEOREM ResultIsTrue == Spec => []ResultTellsTruth
<1>1. Inv /\ Told => ResultTellsTruth
  <2> SUFFICES ASSUME Inv, Told PROVE ResultTellsTruth
    OBVIOUS
  <2>1. TypeOK
    BY DEF TypeOK, Inv, Ordered, OrderType, Told, Early, Unpacking
  <2> QED
    BY <2>1 DEF ResultTellsTruth, Told
<1> QED
  BY <1>1, ToldInvariance, PTL

\* The unpacked artifact is there while packages are deployed from it, and nothing is
\* left in the temporary directory when the call is over.
THEOREM WorkspacesGiven == Spec => []WorkspacesReclaimed
<1>1. Dirs => WorkspacesReclaimed
  BY DEF Dirs, Using, Unpacking, WorkspacesReclaimed
<1> QED
  BY <1>1, ToldInvariance, PTL

----------------------------------------------------------------------------
(* The dependency resolution every deployment starts with.  Its search      *)
(* keeps a path through the graph on its stack, and leaves a package only   *)
(* when all the package leads to has been left before.                      *)

\* What depth-first search keeps.
Frames == [name : Packages, todo : SUBSET Packages]

\* What the search is done with.
Finished == visited \ RecStack

Above(p) == Ancestors(Deps)[p]

Shape == stack \in Seq(Frames) /\ visited \subseteq Packages /\ RecStack \subseteq visited

\* Every path of the search is one of the graph and enters nothing twice.
Path ==
  \A i, j \in 1..Len(stack) :
    i < j => stack[i].name # stack[j].name /\ stack[j].name \in Above(stack[i].name)

\* Each frame has finished what it went through, but for what the next one is about.
Waits ==
  \A i \in 1..Len(stack) :
    /\ stack[i].todo \subseteq Deps[stack[i].name]
    /\ \A d \in Deps[stack[i].name] \ stack[i].todo :
         d \in Finished \/ (i < Len(stack) /\ d = stack[i + 1].name)

\* What the search is done with leads only to such, and none of it to itself.
Left == \A p \in Finished : Deps[p] \subseteq Finished /\ p \notin Above(p)

Search == Shape /\ Path /\ Waits /\ Left

\* Names are resolved before the search, and what it has found out stays so.
Resolution ==
  /\ pc = "build" => stack = <<>> /\ visited = {}
  /\ pc # "done" => answer = "none"
  /\ pc \in {"dfs", "kahn", "filter"} \/ answer = "ok" =>
       \A p \in Packages : Deps[p] \subseteq Packages
  /\ pc = "dfs" => Search
  /\ answer = "ok" => request \subseteq Packages
  /\ CycleVerdict

----------------------------------------------------------------------------
\* What p depends on is above it, with what is above that.
LEMMA AboveClosed ==
  ASSUME NEW p \in Packages
  PROVE  /\ Deps[p] \subseteq Above(p)
         /\ \A q \in Above(p) \intersect Packages : Deps[q] \subseteq Above(p)
BY DEF Above, Ancestors, Deps

\* Nothing else is: a set that holds what p depends on, and is closed, holds all above p.
LEMMA AboveLeast ==
  ASSUME NEW p \in Packages, NEW S, Deps[p] \subseteq S,
         \A q \in S \intersect Packages : Deps[q] \subseteq S
  PROVE  Above(p) \subseteq S
<1> DEFINE Named == UNION {Deps[q] : q \in Packages}
           T == S \intersect Named
<1>1. T \in SUBSET Named /\ Deps[p] \subseteq T /\ \A q \in T \intersect Packages : Deps[q] \subseteq T
  OBVIOUS
<1>2. DOMAIN Deps = Packages
  BY DEF Deps
<1> QED
  BY <1>1, <1>2 DEF Above, Ancestors

LEMMA AcyclicMeans == Acyclic(Deps) <=> \A p \in Packages : p \notin Above(p)
BY DEF Acyclic, Above, Deps

\* The graph never changes.
LEMMA SameGraph ==
  ASSUME edges' = edges
  PROVE  /\ Deps' = Deps /\ (Acyclic(Deps)' <=> Acyclic(Deps))
         /\ \A p : Above(p)' = Above(p)
BY DEF Deps, Above

\* The frames of a search, from the outermost to the innermost.
LEMMA Innermost ==
  ASSUME Shape, stack # <<>>
  PROVE  /\ Len(stack) \in Nat \ {0} /\ RecStack = {stack[i].name : i \in 1..Len(stack)}
         /\ \A i \in 1..Len(stack) : stack[i] \in Frames /\ stack[i].name \in RecStack
         /\ Last(stack) = stack[Len(stack)]
         /\ Front(stack) \in Seq(Frames) /\ Len(Front(stack)) = Len(stack) - 1
         /\ \A i \in 1..(Len(stack) - 1) : Front(stack)[i] = stack[i]
<1>1. stack \in Seq(Frames) /\ Len(stack) \in Nat \ {0} /\ DOMAIN stack = 1..Len(stack)
  BY DEF Shape
<1>2. RecStack = {stack[i].name : i \in 1..Len(stack)}
  BY <1>1 DEF RecStack
<1>3. Last(stack) = stack[Len(stack)]
  BY <1>1 DEF Last
<1>4. /\ Front(stack) \in Seq(Frames) /\ Len(Front(stack)) = Len(stack) - 1
      /\ \A i \in 1..(Len(stack) - 1) : Front(stack)[i] = stack[i]
  BY <1>1 DEF Front
<1>5. \A i \in 1..Len(stack) : stack[i] \in Frames
  BY <1>1
<1> QED
  BY <1>1, <1>2, <1>3, <1>4, <1>5

LEMMA Appended ==
  ASSUME NEW s \in Seq(Frames), NEW f \in Frames
  PROVE  /\ Append(s, f) \in Seq(Frames) /\ Len(s) \in Nat
         /\ Len(Append(s, f)) = Len(s) + 1
         /\ \A i \in 1..Len(s) : Append(s, f)[i] = s[i]
         /\ Append(s, f)[Len(s) + 1] = f
OBVIOUS

LEMMA Numbered ==
  ASSUME NEW s \in Seq(Frames)
  PROVE  DOMAIN s = 1..Len(s) /\ Len(s) \in Nat
OBVIOUS

\* The innermost frame takes an edge off its list.
Without(d) == [Last(stack) EXCEPT !.todo = @ \ {d}]

\* The search without the edge to d.
Rest(d) == Append(Front(stack), Without(d))

LEMMA TakesEdge ==
  ASSUME Shape, Waits, stack # <<>>, NEW d, d \in Last(stack).todo
  PROVE  /\ Rest(d) \in Seq(Frames) /\ Len(Rest(d)) = Len(stack)
         /\ \A i \in 1..Len(stack) : Rest(d)[i].name = stack[i].name
         /\ \A i \in 1..(Len(stack) - 1) : Rest(d)[i].todo = stack[i].todo
         /\ Rest(d)[Len(stack)].todo = stack[Len(stack)].todo \ {d}
         /\ d \in stack[Len(stack)].todo /\ d \in Deps[stack[Len(stack)].name] /\ d \in Packages
<1>1. stack[Len(stack)] \in Frames /\ Last(stack) = stack[Len(stack)] /\ Len(stack) \in Nat \ {0}
  BY Innermost
<1>2. /\ Without(d) \in Frames
      /\ Without(d).name = stack[Len(stack)].name
      /\ Without(d).todo = stack[Len(stack)].todo \ {d}
  BY <1>1 DEF Frames, Without
<1>3. /\ Front(stack) \in Seq(Frames) /\ Len(Front(stack)) = Len(stack) - 1
      /\ \A i \in 1..(Len(stack) - 1) : Front(stack)[i] = stack[i]
  BY Innermost
<1>4. /\ Rest(d) \in Seq(Frames) /\ Len(Rest(d)) = (Len(stack) - 1) + 1
      /\ \A i \in 1..(Len(stack) - 1) : Rest(d)[i] = Front(stack)[i]
      /\ Rest(d)[(Len(stack) - 1) + 1] = Without(d)
  BY <1>2, <1>3, Appended DEF Rest
<1>5. (Len(stack) - 1) + 1 = Len(stack)
  BY <1>1
<1>6. \A i \in 1..Len(stack) : i \in 1..(Len(stack) - 1) \/ i = Len(stack)
  BY <1>1
<1>7. \A i \in 1..(Len(stack) - 1) : Rest(d)[i] = stack[i]
  BY <1>3, <1>4
<1>8. Rest(d)[Len(stack)] = Without(d) /\ Len(Rest(d)) = Len(stack)
  BY <1>4, <1>5
<1>9. d \in stack[Len(stack)].todo /\ d \in Packages
  BY <1>1 DEF Frames
<1>10. d \in Deps[stack[Len(stack)].name]
  BY <1>1, <1>9 DEF Waits
<1>11. \A i \in 1..Len(stack) : Rest(d)[i].name = stack[i].name
  BY <1>2, <1>6, <1>7, <1>8
<1> QED
  BY <1>2, <1>4, <1>7, <1>8, <1>9, <1>10, <1>11

\* A search starts at a package it has not seen.
LEMMA Starts ==
  ASSUME Search, NEW p \in Packages, p \notin visited, Deps[p] \subseteq Packages,
         stack = <<>>, edges' = edges, visited' = visited \union {p}, stack' = <<Frame(p)>>
  PROVE  Search'
<1>1. stack' = <<[name |-> p, todo |-> Deps[p]]>> /\ Frame(p) \in Frames
  BY DEF Frame, Frames
<1>2. RecStack = {} /\ RecStack' = {p}
  BY <1>1 DEF RecStack
<1>3. Finished' = Finished
  BY <1>2 DEF Finished
<1>4. stack' \in Seq(Frames) /\ Len(stack') = 1 /\ stack'[1] = [name |-> p, todo |-> Deps[p]]
  BY <1>1
<1> QED
  BY <1>2, <1>3, <1>4, SameGraph DEF Search, Shape, Path, Waits, Left

LEMMA Ordinals ==
  ASSUME NEW n \in Nat, NEW i \in 1..(n + 1)
  PROVE  /\ i \in 1..(n - 1) \/ i = n \/ i = n + 1
         /\ \A j \in 1..(n + 1) : i < j => i \in 1..n /\ (j \in 1..n \/ j = n + 1)
OBVIOUS

\* It goes along an edge to a package it has not seen.
LEMMA Descends ==
  ASSUME Search, stack # <<>>, NEW d, d \in Last(stack).todo, d \notin visited,
         \A p \in Packages : Deps[p] \subseteq Packages,
         edges' = edges, visited' = visited \union {d},
         stack' = Append(Rest(d), Frame(d))
  PROVE  Search'
<1> DEFINE n == Len(stack)
<1>1. /\ n \in Nat \ {0} /\ RecStack = {stack[i].name : i \in 1..n}
      /\ \A i \in 1..n : stack[i] \in Frames /\ stack[i].name \in RecStack
  BY Innermost DEF Search
<1>2. /\ Rest(d) \in Seq(Frames) /\ Len(Rest(d)) = n
      /\ \A i \in 1..n : Rest(d)[i].name = stack[i].name
      /\ \A i \in 1..(n - 1) : Rest(d)[i].todo = stack[i].todo
      /\ Rest(d)[n].todo = stack[n].todo \ {d}
      /\ d \in stack[n].todo /\ d \in Deps[stack[n].name] /\ d \in Packages
  <2>1. Shape /\ Waits
    BY DEF Search
  <2> QED
    BY <2>1, TakesEdge
<1>3. Frame(d) = [name |-> d, todo |-> Deps[d]] /\ Frame(d) \in Frames
  BY <1>2 DEF Frame, Frames
<1>4. /\ stack' \in Seq(Frames) /\ Len(stack') = n + 1
      /\ \A i \in 1..n : stack'[i] = Rest(d)[i]
      /\ stack'[n + 1] = [name |-> d, todo |-> Deps[d]]
  BY <1>2, <1>3, Appended
<1>5. /\ \A i \in 1..n : stack'[i].name = stack[i].name
      /\ \A i \in 1..(n - 1) : stack'[i].todo = stack[i].todo
      /\ stack'[n].todo = stack[n].todo \ {d}
      /\ stack'[n + 1].name = d /\ stack'[n + 1].todo = Deps[d]
  BY <1>1, <1>2, <1>4
<1>6. \A i \in 1..n : stack[i].name \in Packages /\ stack[i].name # d /\ stack[i].name \in visited
  BY <1>1 DEF Search, Shape, Frames
<1>7. RecStack' = RecStack \union {d}
  <2>1. RecStack' = {stack'[i].name : i \in 1..(n + 1)}
    BY <1>4, Numbered DEF RecStack
  <2>2. \A i \in 1..(n + 1) : i \in 1..n \/ i = n + 1
    BY <1>1
  <2>3. 1..n \subseteq 1..(n + 1) /\ n + 1 \in 1..(n + 1)
    BY <1>1
  <2>4. \A i \in 1..(n + 1) : stack'[i].name \in RecStack \union {d}
    BY <1>1, <1>5, <2>2
  <2>5. d \in RecStack' /\ \A i \in 1..n : stack[i].name \in RecStack'
    BY <1>5, <2>1, <2>3
  <2> QED
    BY <1>1, <2>1, <2>4, <2>5
<1>8. Finished' = Finished
  BY <1>6, <1>7 DEF Finished
<1>9. Shape'
  BY <1>2, <1>4, <1>7 DEF Search, Shape
<1>10. Path'
  <2>1. \A i, j \in 1..n :
          i < j => stack[i].name # stack[j].name /\ stack[j].name \in Above(stack[i].name)
    BY DEF Search, Path
  <2>2. ASSUME NEW i \in 1..n PROVE d \in Above(stack[i].name)
    <3>1. stack[i].name \in Packages /\ stack[n].name \in Packages
      BY <1>1, <1>6
    <3>2. i = n \/ stack[n].name \in Above(stack[i].name)
      BY <1>1, <2>1
    <3> QED
      BY <1>2, <3>1, <3>2, AboveClosed
  <2> SUFFICES ASSUME NEW i \in 1..(n + 1), NEW j \in 1..(n + 1), i < j
               PROVE  /\ stack'[i].name # stack'[j].name
                      /\ stack'[j].name \in Above(stack'[i].name)
    BY <1>4, SameGraph DEF Path
  <2>3. i \in 1..n /\ (j \in 1..n \/ j = n + 1)
    BY <1>1, Ordinals
  <2>4. CASE j \in 1..n
    BY <1>5, <2>1, <2>3, <2>4
  <2>5. CASE j = n + 1
    BY <1>5, <1>6, <2>2, <2>3, <2>5
  <2> QED
    BY <2>3, <2>4, <2>5
<1>11. Waits'
  <2>1. \A i \in 1..n :
          /\ stack[i].todo \subseteq Deps[stack[i].name]
          /\ \A e \in Deps[stack[i].name] \ stack[i].todo :
               e \in Finished \/ (i < n /\ e = stack[i + 1].name)
    BY DEF Search, Waits
  <2> SUFFICES ASSUME NEW i \in 1..(n + 1)
               PROVE  /\ stack'[i].todo \subseteq Deps[stack'[i].name]
                      /\ \A e \in Deps[stack'[i].name] \ stack'[i].todo :
                           e \in Finished \/ (i < n + 1 /\ e = stack'[i + 1].name)
    BY <1>4, <1>8, SameGraph DEF Waits
  <2>2. CASE i = n + 1
    BY <1>5, <2>2
  <2>3. CASE i = n
    <3>1. n \in 1..n /\ n < n + 1 /\ ~(n < n)
      BY <1>1
    <3>2. /\ stack[n].todo \subseteq Deps[stack[n].name]
          /\ \A e \in Deps[stack[n].name] \ stack[n].todo : e \in Finished
      BY <2>1, <3>1
    <3>3. stack'[i].name = stack[n].name /\ stack'[i].todo = stack[n].todo \ {d}
      BY <1>5, <2>3, <3>1
    <3> QED
      BY <1>5, <2>3, <3>1, <3>2, <3>3
  <2>4. CASE i \in 1..(n - 1)
    <3>1. i \in 1..n /\ i + 1 \in 1..n /\ i < n + 1
      BY <1>1, <2>4
    <3>2. stack'[i].name = stack[i].name /\ stack'[i].todo = stack[i].todo
      BY <1>5, <2>4, <3>1
    <3>3. stack'[i + 1].name = stack[i + 1].name
      BY <1>5, <3>1
    <3>4. /\ stack[i].todo \subseteq Deps[stack[i].name]
          /\ \A e \in Deps[stack[i].name] \ stack[i].todo : e \in Finished \/ e = stack[i + 1].name
      BY <2>1, <3>1
    <3> QED
      BY <3>1, <3>2, <3>3, <3>4
  <2>5. i \in 1..(n - 1) \/ i = n \/ i = n + 1
    BY <1>1, Ordinals
  <2> QED
    BY <2>2, <2>3, <2>4, <2>5
<1>12. Left'
  BY <1>8, SameGraph DEF Search, Left
<1> QED
  BY <1>9, <1>10, <1>11, <1>12 DEF Search

\* It passes by an edge to what it is done with.
LEMMA PassesBy ==
  ASSUME Search, stack # <<>>, NEW d, d \in Last(stack).todo, d \in Finished,
         edges' = edges, visited' = visited,
         stack' = Rest(d)
  PROVE  Search'
<1> DEFINE n == Len(stack)
<1>1. /\ n \in Nat \ {0} /\ RecStack = {stack[i].name : i \in 1..n}
  BY Innermost DEF Search
<1>2. /\ stack' \in Seq(Frames) /\ Len(stack') = n
      /\ \A i \in 1..n : stack'[i].name = stack[i].name
      /\ \A i \in 1..(n - 1) : stack'[i].todo = stack[i].todo
      /\ stack'[n].todo = stack[n].todo \ {d}
  <2>1. Shape /\ Waits
    BY DEF Search
  <2> QED
    BY <2>1, TakesEdge
<1>3. /\ \A i, j \in 1..n :
           i < j => stack[i].name # stack[j].name /\ stack[j].name \in Above(stack[i].name)
      /\ \A i \in 1..n :
           /\ stack[i].todo \subseteq Deps[stack[i].name]
           /\ \A e \in Deps[stack[i].name] \ stack[i].todo :
                e \in Finished \/ (i < n /\ e = stack[i + 1].name)
  BY DEF Search, Path, Waits
<1>4. RecStack' = RecStack /\ Finished' = Finished
  <2>1. RecStack' = {stack'[i].name : i \in 1..n}
    BY <1>2, Numbered DEF RecStack
  <2>2. RecStack' = RecStack
    BY <1>1, <1>2, <2>1
  <2> QED
    BY <2>2 DEF Finished
<1>5. Shape' /\ Path'
  BY <1>2, <1>3, <1>4, SameGraph DEF Search, Shape, Path
<1>6. Waits'
  <2>0. n \in 1..n /\ ~(n < n)
    BY <1>1
  <2> SUFFICES ASSUME NEW i \in 1..n
               PROVE  /\ stack'[i].todo \subseteq Deps[stack'[i].name]
                      /\ \A e \in Deps[stack'[i].name] \ stack'[i].todo :
                           e \in Finished \/ (i < n /\ e = stack'[i + 1].name)
    BY <1>2, <1>4, SameGraph DEF Waits
  <2>1. CASE i = n
    <3>1. /\ stack[n].todo \subseteq Deps[stack[n].name]
          /\ \A e \in Deps[stack[n].name] \ stack[n].todo : e \in Finished
      BY <1>3, <2>0
    <3>2. stack'[i].name = stack[n].name /\ stack'[i].todo = stack[n].todo \ {d}
      BY <1>2, <2>0, <2>1
    <3> QED
      BY <3>1, <3>2
  <2>2. CASE i \in 1..(n - 1)
    <3>1. i + 1 \in 1..n /\ i < n
      BY <1>1, <2>2
    <3>2. stack'[i].name = stack[i].name /\ stack'[i].todo = stack[i].todo
      BY <1>2, <2>2
    <3>3. stack'[i + 1].name = stack[i + 1].name
      BY <1>2, <3>1
    <3>4. \A e \in Deps[stack[i].name] \ stack[i].todo : e \in Finished \/ e = stack[i + 1].name
      BY <1>3, <3>1
    <3> QED
      BY <1>3, <3>1, <3>2, <3>3, <3>4
  <2> QED
    BY <1>1, <2>1, <2>2
<1>7. Left'
  BY <1>4, SameGraph DEF Search, Left
<1> QED
  BY <1>5, <1>6, <1>7 DEF Search

\* An edge back to an open frame closes a cycle.
LEMMA ClosesCycle ==
  ASSUME Search, stack # <<>>, NEW d, d \in Last(stack).todo, d \in RecStack
  PROVE  ~Acyclic(Deps)
<1> DEFINE n == Len(stack)
<1>1. /\ n \in Nat \ {0} /\ RecStack = {stack[i].name : i \in 1..n}
  BY Innermost DEF Search
<1>3. d \in Deps[stack[n].name] /\ d \in Packages
  BY TakesEdge DEF Search
<1>4. PICK i \in 1..n : d = stack[i].name
  BY <1>1
<1>5. CASE i = n
  BY <1>3, <1>4, <1>5, AboveClosed, AcyclicMeans
<1>6. CASE i < n
  <2>1. stack[n].name \in Above(d) /\ stack[n].name \in Packages
    <3>1. stack[n] \in Frames
      BY <1>1, Innermost DEF Search
    <3> QED
      BY <1>1, <1>4, <1>6, <3>1 DEF Search, Path, Frames
  <2> QED
    BY <1>3, <2>1, AboveClosed, AcyclicMeans
<1> QED
  BY <1>1, <1>5, <1>6

\* It leaves a package when it has been along all its edges.
LEMMA Leaves ==
  ASSUME Search, stack # <<>>, Last(stack).todo = {}, edges' = edges, visited' = visited,
         \A p \in Packages : Deps[p] \subseteq Packages,
         stack' = Front(stack)
  PROVE  Search'
<1> DEFINE n == Len(stack)
           t == stack[n].name
<1>1. /\ n \in Nat \ {0} /\ RecStack = {stack[i].name : i \in 1..n}
      /\ stack[n] \in Frames /\ t \in RecStack /\ stack[n].todo = {}
      /\ stack' \in Seq(Frames) /\ Len(stack') = n - 1
      /\ \A i \in 1..(n - 1) : stack'[i] = stack[i]
  BY Innermost DEF Search
<1>2. /\ \A i, j \in 1..n :
           i < j => stack[i].name # stack[j].name /\ stack[j].name \in Above(stack[i].name)
      /\ \A i \in 1..n :
           /\ stack[i].todo \subseteq Deps[stack[i].name]
           /\ \A e \in Deps[stack[i].name] \ stack[i].todo :
                e \in Finished \/ (i < n /\ e = stack[i + 1].name)
      /\ t \in Packages
  BY <1>1 DEF Search, Path, Waits, Frames
<1>3. Deps[t] \subseteq Finished /\ t \notin Finished
  <2>1. n \in 1..n /\ ~(n < n)
    BY <1>1
  <2>2. Deps[t] \subseteq Finished
    BY <1>1, <1>2, <2>1
  <2> QED
    BY <1>1, <2>2 DEF Finished
<1>4. t \notin Above(t)
  <2>1. \A q \in Finished \intersect Packages : Deps[q] \subseteq Finished
    BY DEF Search, Left
  <2> QED
    BY <1>2, <1>3, <2>1, AboveLeast
<1>5. \A i \in 1..(n - 1) : stack[i].name # t
  BY <1>1, <1>2
<1>6. RecStack' = RecStack \ {t}
  <2>1. RecStack' = {stack'[i].name : i \in 1..(n - 1)}
    BY <1>1, Numbered DEF RecStack
  <2> QED
    BY <1>1, <1>5, <2>1
<1>7. Finished' = Finished \union {t}
  BY <1>1, <1>6 DEF Finished, Search, Shape
<1>8. Shape' /\ Path'
  BY <1>1, <1>2, <1>6, SameGraph DEF Search, Shape, Path
<1>9. Waits'
  <2> SUFFICES ASSUME NEW i \in 1..(n - 1)
               PROVE  /\ stack[i].todo \subseteq Deps[stack[i].name]
                      /\ \A e \in Deps[stack[i].name] \ stack[i].todo :
                           e \in Finished' \/ (i < n - 1 /\ e = stack'[i + 1].name)
    BY <1>1, SameGraph DEF Waits
  <2>1. CASE i = n - 1
    BY <1>1, <1>2, <1>7, <2>1
  <2>2. CASE i \in 1..(n - 2)
    <3>1. i + 1 \in 1..(n - 1) /\ i < n - 1 /\ i \in 1..n
      BY <1>1, <2>2
    <3> QED
      BY <1>1, <1>2, <1>7, <3>1
  <2> QED
    BY <1>1, <2>1, <2>2
<1>10. Left'
  BY <1>3, <1>4, <1>7, SameGraph DEF Search, Left
<1> QED
  BY <1>8, <1>9, <1>10 DEF Search

LEMMA ResolvesAtFirst == GraphInit => Resolution
BY DEF GraphInit, Resolution, CycleVerdict, Validated

\* The search keeps what it knows, and goes on while no name is unknown.
LEMMA SearchSteps ==
  ASSUME Resolution, pc = "dfs", pc' = "dfs", DFSRoot \/ DFSEdge \/ DFSReturn
  PROVE  Search'
<1>1. Search /\ answer = "none" /\ (\A p \in Packages : Deps[p] \subseteq Packages)
  BY DEF Resolution
<1>2. CASE DFSRoot
  BY <1>1, <1>2, Starts DEF DFSRoot
<1>3. CASE DFSEdge
  <2>1. PICK d :
          /\ stack # <<>> /\ d \in Last(stack).todo /\ edges' = edges
          /\ \/ /\ d \notin visited /\ visited' = visited \union {d}
                /\ stack' = Append(Rest(d), Frame(d))
             \/ pc' = "done"
             \/ /\ d \in visited /\ d \notin RecStack
                /\ stack' = Rest(d) /\ visited' = visited
    BY <1>3 DEF DFSEdge, Rest, Without, Return
  <2>2. CASE /\ d \notin visited /\ visited' = visited \union {d}
             /\ stack' = Append(Rest(d), Frame(d))
    BY <1>1, <2>1, <2>2, Descends
  <2>3. CASE d \in visited /\ d \notin RecStack /\ stack' = Rest(d) /\ visited' = visited
    BY <1>1, <2>1, <2>3, PassesBy DEF Finished
  <2> QED
    BY <2>1, <2>2, <2>3
<1>4. CASE DFSReturn
  BY <1>1, <1>4, Leaves DEF DFSReturn
<1> QED
  BY <1>2, <1>3, <1>4

LEMMA ResolvesOn == Resolution /\ [GraphNext]_graphVars => Resolution'
<1> SUFFICES ASSUME Resolution, [GraphNext]_graphVars PROVE Resolution'
  OBVIOUS
<1>1. CASE BuildEdges
  <2>1. pc = "build" /\ answer = "none" /\ stack = <<>> /\ visited = {}
    BY <1>1 DEF BuildEdges, Resolution
  <2>2. /\ edges' = edges /\ visited' = {} /\ stack' = <<>>
        /\ \/ pc' = "dfs" /\ answer' = "none" /\ \A p \in Packages : Deps[p] \subseteq Packages
           \/ pc' = "done" /\ answer' = "unknownDependency"
    BY <1>1, <2>1 DEF BuildEdges, Return
  <2>3. Search'
    <3>1. RecStack' = {} /\ Finished' = {} /\ Len(stack') = 0 /\ stack' \in Seq(Frames)
      BY <2>2 DEF RecStack, Finished
    <3> QED
      BY <2>2, <3>1 DEF Search, Shape, Path, Waits, Left
  <2> QED
    BY <2>2, <2>3, SameGraph DEF Resolution, CycleVerdict, Validated
<1>2. CASE DFSRoot \/ DFSReturn
  <2>1. pc = "dfs" /\ pc' = "dfs" /\ edges' = edges /\ answer' = answer /\ request' = request
    BY <1>2 DEF DFSRoot, DFSReturn
  <2>2. Search'
    BY <1>2, <2>1, SearchSteps
  <2> QED
    BY <2>1, <2>2, SameGraph DEF Resolution, CycleVerdict, Validated
<1>3. CASE DFSEdge
  <2>1. /\ pc = "dfs" /\ edges' = edges /\ request' = request
        /\ \/ pc' = "dfs" /\ answer' = answer
           \/ pc' = "done" /\ answer' = "cycle"
    BY <1>3 DEF DFSEdge, Return
  <2>2. pc' = "dfs" => Search'
    BY <1>3, <2>1, SearchSteps
  <2>3. answer' = "cycle" => ~Acyclic(Deps)
    <3> SUFFICES ASSUME answer' = "cycle" PROVE ~Acyclic(Deps)
      OBVIOUS
    <3>1. answer = "none" /\ Search
      BY <2>1 DEF Resolution
    <3>2. stack # <<>> /\ \E d \in Last(stack).todo : d \in RecStack
      BY <1>3, <3>1 DEF DFSEdge
    <3> QED
      BY <3>1, <3>2, ClosesCycle
  <2> QED
    BY <2>1, <2>2, <2>3, SameGraph DEF Resolution, CycleVerdict, Validated
<1>4. CASE CountInDegrees
  <2>1. /\ pc = "dfs" /\ stack = <<>> /\ visited = Packages /\ pc' = "kahn"
        /\ edges' = edges /\ request' = request /\ answer' = answer
    BY <1>4 DEF CountInDegrees
  <2>2. Finished = Packages
    BY <2>1 DEF Finished, RecStack
  <2>3. Acyclic(Deps)
    BY <2>1, <2>2, AcyclicMeans DEF Resolution, Search, Left
  <2> QED
    BY <2>1, <2>3, SameGraph DEF Resolution, CycleVerdict, Validated
<1>5. CASE KahnLevel \/ KahnDone
  <2>1. /\ pc = "kahn" /\ edges' = edges /\ request' = request
        /\ \/ pc' \in {"kahn", "filter"} /\ answer' = answer
           \/ pc' = "done" /\ answer' = "levelsCycle"
    BY <1>5 DEF KahnLevel, KahnDone, Return
  <2> QED
    BY <2>1, SameGraph DEF Resolution, CycleVerdict, Validated
<1>6. CASE FilterLevels
  <2>1. /\ pc = "filter" /\ edges' = edges /\ request' = request /\ pc' = "done"
        /\ \/ answer' = "ok" /\ request \subseteq Packages
           \/ answer' = "unknownPackage"
    BY <1>6 DEF FilterLevels, Return
  <2> QED
    BY <2>1, SameGraph DEF Resolution, CycleVerdict, Validated
<1>7. CASE UNCHANGED graphVars
  <2>1. /\ edges' = edges /\ request' = request /\ answer' = answer /\ pc' = pc
        /\ stack' = stack /\ visited' = visited
    BY <1>7 DEF graphVars
  <2>2. Search' <=> Search
    BY <2>1, SameGraph DEF Search, Shape, Path, Waits, Left, Finished, RecStack
  <2> QED
    BY <2>1, <2>2, SameGraph DEF Resolution, CycleVerdict, Validated
<1> QED
  BY <1>1, <1>2, <1>3, <1>4, <1>5, <1>6, <1>7 DEF GraphNext, Resolved

LEMMA Closures == Resolution => DirectChecksSuffice
<1> SUFFICES ASSUME Resolution, answer = "ok"
             PROVE  /\ DeploySafe(Deps, request) =>
                         \A p \in request : Ancestors(Deps)[p] \subseteq request
                    /\ RemovalSafe(Deps, request) =>
                         \A p \in Packages \ request : Ancestors(Deps)[p] \intersect request = {}
  BY DEF DirectChecksSuffice
<1>1. request \subseteq Packages /\ (\A p \in Packages : Deps[p] \subseteq Packages) /\ DOMAIN Deps = Packages
  BY DEF Resolution, Deps
<1>2. ASSUME DeploySafe(Deps, request), NEW p \in request
      PROVE  Ancestors(Deps)[p] \subseteq request
  <2>1. \A q \in request : Deps[q] \subseteq request
    BY <1>2 DEF DeploySafe, MissingDependencies
  <2>2. Above(p) \subseteq request
    BY <1>1, <2>1, AboveLeast
  <2> QED
    BY <2>2 DEF Above
<1>3. ASSUME RemovalSafe(Deps, request), NEW p \in Packages \ request
      PROVE  Ancestors(Deps)[p] \intersect request = {}
  <2>1. \A q \in Packages \ request : Deps[q] \subseteq Packages \ request
    BY <1>1, <1>3 DEF RemovalSafe, DependentBlockers
  <2>2. Above(p) \subseteq Packages \ request
    BY <2>1, AboveLeast
  <2> QED
    BY <2>2 DEF Above
<1> QED
  BY <1>2, <1>3

----------------------------------------------------------------------------
(* Kahn's algorithm: the counters count the entries of each list that are   *)
(* still unmet, so the packages at zero are those that wait for nothing but *)
(* earlier levels, and without a cycle there always is one.  Facts about    *)
(* all naturals, or all subsets of a finite set, are proved on a least      *)
(* counterexample.                                                          *)

\* A set of subsets of a finite set has a least member.
LEMMA LeastSet ==
  ASSUME NEW S, IsFiniteSet(S), NEW Q, Q \subseteq SUBSET S, Q # {}
  PROVE  \E T \in Q : \A U \in Q : ~(U \subseteq T /\ U # T)
<1>1. Q \subseteq FiniteSubsetsOf(S)
  BY FS_Subset DEF FiniteSubsetsOf
<1>2. PICK T \in Q : \A U \in Q : ~(<<U, T>> \in StrictSubsetOrdering(S))
  BY <1>1, FS_StrictSubsetOrderingWellFounded, WFMin
<1> QED
  BY <1>2 DEF StrictSubsetOrdering

\* So does a set of naturals.
LEMMA Least ==
  ASSUME NEW T, T \subseteq Nat, T # {}
  PROVE  \E x \in T : \A y \in T : x <= y
<1>1. PICK x \in T : \A y \in T : ~(<<y, x>> \in OpToRel(<, Nat))
  BY NatLessThanWellFounded, WFMin
<1>2. \A y \in T : ~(y < x)
  BY <1>1 DEF OpToRel
<1>3. \A y \in T : x \in Nat /\ y \in Nat /\ ~(y < x)
  BY <1>2
<1> QED
  BY <1>3

\* Without a cycle, some package of a set depends on none of the set.
LEMMA FirstOf ==
  ASSUME Acyclic(Deps), \A p \in Packages : Deps[p] \subseteq Packages,
         NEW S, S \subseteq Packages, S # {}
  PROVE  \E p \in S : Deps[p] \intersect S = {}
<1>0. IsFiniteSet(Packages)
  BY GraphAssumption, FS_Subset
<1>1. PICK Q : /\ Q \subseteq SUBSET Packages /\ Q # {}
               /\ \A T : T \in Q <=> \E p \in S : T = Above(p)
  <2>1. \A p \in S : Above(p) \subseteq Packages
    BY AboveLeast
  <2>2. {Above(p) : p \in S} \subseteq SUBSET Packages
    BY <2>1
  <2>3. {Above(p) : p \in S} # {}
    OBVIOUS
  <2>4. \A T : T \in {Above(p) : p \in S} <=> \E p \in S : T = Above(p)
    OBVIOUS
  <2> QED
    BY <2>2, <2>3, <2>4, Zenon
<1>2. PICK T \in Q : \A U \in Q : ~(U \subseteq T /\ U # T)
  BY <1>0, <1>1, LeastSet
<1>3. PICK p \in S : T = Above(p)
  BY <1>1
<1>4. ASSUME NEW d \in Deps[p] \intersect S PROVE FALSE
  <2>1. d \in Above(p) /\ Deps[d] \subseteq Above(p)
    BY AboveClosed
  <2>2. Above(d) \subseteq Above(p)
    BY <2>1, AboveClosed, AboveLeast
  <2>3. d \notin Above(d)
    BY AcyclicMeans
  <2> QED
    BY <1>1, <1>2, <1>3, <2>1, <2>2, <2>3
<1> QED
  BY <1>4

EdgesType == edges \in [Packages -> [Name -> 0..MaxRepeat]]

\* The entries of a list that name a member of a set can be counted.
LEMMA EntriesCount ==
  ASSUME EdgesType, NEW p \in Packages, NEW S, S \subseteq Name
  PROVE  /\ IsFiniteSet(Entries(p, S)) /\ Cardinality(Entries(p, S)) \in Nat
         /\ Cardinality(Entries(p, S)) = 0 <=> Entries(p, S) = {}
         /\ Entries(p, S) = {} <=> Deps[p] \intersect S = {}
<1>1. IsFiniteSet(S) /\ IsFiniteSet(1..MaxRepeat)
  <2>1. IsFiniteSet(S)
    BY GraphAssumption, FS_Subset
  <2>2. 1 \in Int /\ MaxRepeat \in Int
    BY GraphAssumption
  <2> QED
    BY <2>1, <2>2, FS_Interval
<1>2. IsFiniteSet(S \X (1..MaxRepeat))
  BY <1>1, FS_Product
<1>3. Entries(p, S) \subseteq S \X (1..MaxRepeat)
  BY DEF Entries
<1>4. IsFiniteSet(Entries(p, S))
  BY <1>2, <1>3, FS_Subset
<1>5. ASSUME NEW d \in Deps[p] \intersect S PROVE <<d, 1>> \in Entries(p, S)
  <2>1. edges[p][d] \in 0..MaxRepeat /\ edges[p][d] > 0
    BY DEF EdgesType, Deps
  <2>2. 1 \in 1..MaxRepeat /\ 1 <= edges[p][d]
    BY <2>1, GraphAssumption
  <2> QED
    BY <2>2 DEF Entries
<1>6. ASSUME NEW e \in Entries(p, S) PROVE e[1] \in Deps[p] \intersect S
  <2>1. e[1] \in S /\ e[2] \in 1..MaxRepeat /\ e[2] <= edges[p][e[1]]
    BY DEF Entries
  <2>2. edges[p][e[1]] \in 0..MaxRepeat
    BY <2>1 DEF EdgesType
  <2>3. edges[p][e[1]] > 0
    BY <2>1, <2>2, GraphAssumption
  <2> QED
    BY <2>1, <2>3 DEF Deps
<1>7. Entries(p, S) = {} <=> Deps[p] \intersect S = {}
  BY <1>5, <1>6
<1> QED
  BY <1>4, <1>7, FS_CardinalityType, FS_EmptySet

\* Taking a wave out of the set takes its entries out of the count.
LEMMA EntriesSplit ==
  ASSUME EdgesType, NEW p \in Packages, NEW S, S \subseteq Name, NEW W, W \subseteq S
  PROVE  /\ Cardinality(Entries(p, W)) <= Cardinality(Entries(p, S))
         /\ Cardinality(Entries(p, S \ W))
              = Cardinality(Entries(p, S)) - Cardinality(Entries(p, W))
<1>1. Entries(p, W) \subseteq Entries(p, S)
  BY DEF Entries
<1>2. Entries(p, S \ W) = Entries(p, S) \ Entries(p, W)
  BY DEF Entries
<1>3. Entries(p, S) \intersect Entries(p, W) = Entries(p, W)
  BY <1>1
<1>4. IsFiniteSet(Entries(p, S)) /\ IsFiniteSet(Entries(p, W))
  BY EntriesCount
<1>5. Cardinality(Entries(p, W)) <= Cardinality(Entries(p, S))
  BY <1>1, <1>4, FS_Subset
<1>6. Cardinality(Entries(p, S) \ Entries(p, W))
        = Cardinality(Entries(p, S)) - Cardinality(Entries(p, S) \intersect Entries(p, W))
  BY <1>4, FS_Difference
<1> QED
  BY <1>2, <1>3, <1>5, <1>6

\* What comes before the i-th level, and what is in no level yet.
Before(s, i) == UNION {s[j] : j \in 1..(i - 1)}

Unplaced == Packages \ InLevel

\* Each level holds what waits for nothing but earlier levels.
Layered(s) ==
  \A i \in 1..Len(s) :
    s[i] # {} /\ s[i] = {p \in Packages \ Before(s, i) : Deps[p] \subseteq Before(s, i)}

\* What the counters count.
Counting ==
  /\ remaining = Cardinality(Unplaced)
  /\ inDegree = [p \in Packages |-> IF p \in InLevel THEN -1 ELSE Cardinality(Entries(p, Unplaced))]

Levels == Seq(SUBSET Packages)

LEMMA LevelsNumbered ==
  ASSUME NEW s \in Levels
  PROVE  /\ DOMAIN s = 1..Len(s) /\ Len(s) \in Nat
         /\ \A i \in 1..Len(s) : s[i] \subseteq Packages
BY DEF Levels

\* A level more.
LEMMA LevelAppended ==
  ASSUME NEW s \in Levels, NEW w, w \subseteq Packages, NEW more, more = Append(s, w)
  PROVE  /\ more \in Levels /\ Len(more) = Len(s) + 1
         /\ \A i \in 1..Len(s) : more[i] = s[i]
         /\ more[Len(s) + 1] = w
         /\ \A i \in 1..(Len(s) + 1) : Before(more, i) = Before(s, i)
         /\ Before(more, Len(s) + 1) = Members(s)
         /\ Members(more) = Members(s) \union w
<1>1. /\ more \in Levels /\ Len(more) = Len(s) + 1 /\ Len(s) \in Nat
      /\ \A i \in 1..Len(s) : more[i] = s[i]
      /\ more[Len(s) + 1] = w
  BY DEF Levels
<1>2. DOMAIN s = 1..Len(s) /\ DOMAIN more = 1..(Len(s) + 1)
  BY <1>1, LevelsNumbered
<1>3. ASSUME NEW i \in 1..(Len(s) + 1) PROVE Before(more, i) = Before(s, i)
  <2>1. \A j \in 1..(i - 1) : j \in 1..Len(s)
    BY <1>1
  <2>2. \A j \in 1..(i - 1) : more[j] = s[j]
    BY <1>1, <2>1
  <2> QED
    BY <2>2 DEF Before
<1>4. Before(s, Len(s) + 1) = Members(s)
  <2>1. (Len(s) + 1) - 1 = Len(s)
    BY <1>1
  <2> QED
    BY <1>2, <2>1 DEF Before, Members
<1>5. Members(more) = Members(s) \union w
  <2>1. \A i : i \in 1..(Len(s) + 1) <=> i \in 1..Len(s) \/ i = Len(s) + 1
    BY <1>1
  <2> QED
    BY <1>1, <1>2, <2>1 DEF Members
<1>6. Len(s) + 1 \in 1..(Len(s) + 1)
  BY <1>1
<1> QED
  BY <1>1, <1>3, <1>4, <1>5, <1>6

LEMMA MembersAppended ==
  ASSUME NEW s \in Levels, NEW w, w \subseteq Packages, NEW more, more = Append(s, w)
  PROVE  Members(more) = Members(s) \union w
BY LevelAppended

\* The current level is what waits for nothing that is in no level yet.
LEMMA LevelIs ==
  ASSUME EdgesType, Counting, \A p \in Packages : Deps[p] \subseteq Packages
  PROVE  CurrentLevel = {p \in Unplaced : Deps[p] \subseteq InLevel}
<1>0. Packages \subseteq Name /\ Unplaced \subseteq Packages
  BY GraphAssumption DEF Unplaced
<1>1. ASSUME NEW p \in Packages, p \in InLevel PROVE inDegree[p] # 0
  BY <1>1 DEF Counting
<1>2. ASSUME NEW p \in Unplaced PROVE inDegree[p] = 0 <=> Deps[p] \subseteq InLevel
  <2>1. inDegree[p] = Cardinality(Entries(p, Unplaced))
    BY DEF Counting, Unplaced
  <2>2. Cardinality(Entries(p, Unplaced)) = 0 <=> Deps[p] \intersect Unplaced = {}
    BY <1>0, EntriesCount
  <2>3. Deps[p] \subseteq Packages
    BY DEF Unplaced
  <2> QED
    BY <2>1, <2>2, <2>3 DEF Unplaced
<1> QED
  BY <1>1, <1>2 DEF CurrentLevel, Unplaced

\* It is never empty.
LEMMA LevelFound ==
  ASSUME EdgesType, Counting, Acyclic(Deps), \A p \in Packages : Deps[p] \subseteq Packages,
         remaining > 0
  PROVE  CurrentLevel # {}
<1>1. Unplaced # {}
  BY FS_EmptySet DEF Counting
<1>2. PICK p \in Unplaced : Deps[p] \intersect Unplaced = {}
  BY <1>1, FirstOf DEF Unplaced
<1> QED
  BY <1>2, LevelIs DEF Unplaced

\* One iteration: the counters count what is left then.
LEMMA CountsOn ==
  ASSUME EdgesType, Counting, levels \in Levels, edges' = edges,
         \A p \in Packages : Deps[p] \subseteq Packages,
         levels' = Append(levels, CurrentLevel), CurrentLevel # {},
         remaining' = remaining - Cardinality(CurrentLevel), inDegree' = Relax(CurrentLevel)
  PROVE  /\ Counting' /\ remaining' \in Nat /\ remaining' < remaining
         /\ InLevel' = InLevel \union CurrentLevel
<1> DEFINE W == CurrentLevel
<1>1. W \subseteq Unplaced /\ Unplaced \subseteq Packages /\ Packages \subseteq Name
  BY LevelIs, GraphAssumption DEF Unplaced
<1>2. InLevel' = InLevel \union W /\ Unplaced' = Unplaced \ W
  <2>1. W \subseteq Packages
    BY <1>1
  <2>2. Members(levels') = Members(levels) \union W
    BY <2>1, LevelAppended
  <2> QED
    BY <2>2 DEF InLevel, Unplaced
<1>3. IsFiniteSet(Unplaced) /\ IsFiniteSet(W)
  BY <1>1, GraphAssumption, FS_Subset
<1>4. /\ Cardinality(Unplaced \ W) = Cardinality(Unplaced) - Cardinality(W)
      /\ Cardinality(Unplaced \ W) \in Nat /\ Cardinality(W) \in Nat /\ Cardinality(W) # 0
      /\ Cardinality(Unplaced) \in Nat
  <2>1. Unplaced \intersect W = W
    BY <1>1
  <2>2. Cardinality(Unplaced \ W) = Cardinality(Unplaced) - Cardinality(Unplaced \intersect W)
    BY <1>3, FS_Difference
  <2>3. IsFiniteSet(Unplaced \ W)
    BY <1>3, FS_Subset
  <2> QED
    BY <1>3, <2>1, <2>2, <2>3, FS_CardinalityType, FS_EmptySet
<1>5. remaining' = Cardinality(Unplaced') /\ remaining' \in Nat /\ remaining' < remaining
  BY <1>2, <1>4 DEF Counting
<1>6. ASSUME NEW p \in Packages
      PROVE  Relax(W)[p] = IF p \in InLevel \union W THEN -1
                           ELSE Cardinality(Entries(p, Unplaced \ W))
  <2>1. CASE p \in W
    BY <2>1 DEF Relax
  <2>2. CASE p \notin W /\ p \in InLevel
    <3>1. inDegree[p] = -1
      BY <2>2 DEF Counting
    <3>2. ~(inDegree[p] > 0)
      BY <3>1
    <3> QED
      BY <2>2, <3>1, <3>2 DEF Relax
  <2>3. CASE p \notin W /\ p \in Unplaced
    <3>1. /\ inDegree[p] = Cardinality(Entries(p, Unplaced))
          /\ Cardinality(Entries(p, Unplaced)) \in Nat /\ Cardinality(Entries(p, W)) \in Nat
      <4>1. W \subseteq Name /\ Unplaced \subseteq Name
        BY <1>1
      <4> QED
        BY <2>3, <4>1, EntriesCount DEF Counting, Unplaced
    <3>2. inDegree[p] # 0
      BY <2>3 DEF CurrentLevel
    <3>3. /\ Cardinality(Entries(p, W)) <= Cardinality(Entries(p, Unplaced))
          /\ Cardinality(Entries(p, Unplaced \ W))
               = Cardinality(Entries(p, Unplaced)) - Cardinality(Entries(p, W))
      <4>1. Unplaced \subseteq Name
        BY <1>1
      <4> QED
        BY <1>1, <4>1, EntriesSplit
    <3>4. Relax(W)[p] = IF Cardinality(Entries(p, W)) < inDegree[p]
                        THEN inDegree[p] - Cardinality(Entries(p, W)) ELSE 0
      <4>1. inDegree[p] > 0
        BY <3>1, <3>2
      <4> QED
        BY <2>3, <4>1 DEF Relax
    <3>5. Relax(W)[p] = Cardinality(Entries(p, Unplaced \ W))
      BY <3>1, <3>3, <3>4
    <3> QED
      BY <2>3, <3>5 DEF Unplaced
  <2> QED
    BY <2>1, <2>2, <2>3 DEF Unplaced
<1>7. \A p, S : Entries(p, S)' = Entries(p, S)
  BY DEF Entries
<1>8. inDegree' = [p \in Packages |-> Relax(W)[p]]
  BY DEF Relax
<1>9. inDegree' = [p \in Packages |->
                     IF p \in InLevel' THEN -1 ELSE Cardinality(Entries(p, Unplaced'))]
  BY <1>2, <1>6, <1>8
<1> QED
  BY <1>2, <1>5, <1>7, <1>9 DEF Counting

\* Nothing waits for what is in no earlier level.
LEMMA LayersGrow ==
  ASSUME EdgesType, Counting, levels \in Levels, Layered(levels),
         \A p \in Packages : Deps[p] \subseteq Packages, edges' = edges,
         levels' = Append(levels, CurrentLevel), CurrentLevel # {}
  PROVE  levels' \in Levels /\ Layered(levels)' /\ Len(levels') = Len(levels) + 1
<1> DEFINE W == CurrentLevel
           n == Len(levels)
<1>1. W = {p \in Unplaced : Deps[p] \subseteq InLevel}
  BY LevelIs
<1>2. /\ levels' \in Levels /\ Len(levels') = n + 1
      /\ \A i \in 1..n : levels'[i] = levels[i]
      /\ levels'[n + 1] = W
      /\ \A i \in 1..(n + 1) : Before(levels', i) = Before(levels, i)
      /\ Before(levels', n + 1) = InLevel
  <2>1. W \subseteq Packages
    BY <1>1 DEF Unplaced
  <2>2. InLevel = Members(levels)
    BY DEF InLevel
  <2>3. levels' \in Levels /\ Len(levels') = n + 1
    BY <2>1, LevelAppended
  <2>4. (\A i \in 1..n : levels'[i] = levels[i]) /\ levels'[n + 1] = W
    BY <2>1, LevelAppended
  <2>5. ASSUME NEW i \in 1..(n + 1) PROVE Before(levels', i) = Before(levels, i)
    <3>1. n \in Nat
      BY LevelsNumbered
    <3>2. \A j \in 1..(i - 1) : j \in 1..n
      BY <3>1
    <3> QED
      BY <2>4, <3>2 DEF Before
  <2>6. Before(levels', n + 1) = Members(levels)
    BY <2>1, LevelAppended
  <2> QED
    BY <2>2, <2>3, <2>4, <2>5, <2>6
<1>3. ASSUME NEW i \in 1..(n + 1)
      PROVE  /\ levels'[i] # {}
             /\ levels'[i] = {p \in Packages \ Before(levels', i) : Deps[p] \subseteq Before(levels', i)}
  <2>1. n \in Nat
    BY LevelsNumbered
  <2>2. CASE i \in 1..n
    BY <1>2, <2>2 DEF Layered
  <2>3. CASE i = n + 1
    BY <1>1, <1>2, <2>3 DEF Unplaced
  <2> QED
    BY <2>1, <2>2, <2>3
<1>4. Deps' = Deps
  BY SameGraph
<1>5. \A i : Before(levels, i)' = Before(levels', i)
  BY DEF Before
<1> QED
  BY <1>2, <1>3, <1>4, <1>5 DEF Layered

\* A package is in one level.
LEMMA OneLevel ==
  ASSUME NEW s \in Levels, Layered(s), NEW i \in 1..Len(s), NEW j \in 1..Len(s),
         NEW p, p \in s[i], p \in s[j]
  PROVE  i = j
<1>1. Len(s) \in Nat
  BY LevelsNumbered
<1>2. \A a, b \in 1..Len(s) : a < b /\ p \in s[a] => p \notin s[b]
  <2> SUFFICES ASSUME NEW a \in 1..Len(s), NEW b \in 1..Len(s), a < b, p \in s[a]
               PROVE  p \notin s[b]
    OBVIOUS
  <2>1. a \in 1..(b - 1)
    BY <1>1
  <2>2. p \in Before(s, b)
    BY <2>1 DEF Before
  <2> QED
    BY <2>2 DEF Layered
<1> QED
  BY <1>1, <1>2

\* What a package reaches is in earlier levels than the package.
LEMMA Downward ==
  ASSUME NEW s \in Levels, Layered(s), NEW i \in 1..Len(s), NEW p, p \in s[i]
  PROVE  \A q \in Above(p) : \E j \in 1..Len(s) : j < i /\ q \in s[j]
<1>1. Len(s) \in Nat
  BY LevelsNumbered
<1>2. Deps[p] \subseteq Before(s, i) /\ p \in Packages
  BY DEF Layered
<1>3. ASSUME NEW q \in Before(s, i) \intersect Packages PROVE Deps[q] \subseteq Before(s, i)
  <2>1. PICK j \in 1..(i - 1) : q \in s[j]
    BY <1>3 DEF Before
  <2>2. j \in 1..Len(s) /\ \A k \in 1..(j - 1) : k \in 1..(i - 1)
    BY <1>1
  <2>3. Deps[q] \subseteq Before(s, j)
    BY <2>1, <2>2 DEF Layered
  <2>4. Before(s, j) \subseteq Before(s, i)
    BY <2>2 DEF Before
  <2> QED
    BY <2>3, <2>4
<1>4. Above(p) \subseteq Before(s, i)
  BY <1>2, <1>3, AboveLeast
<1>5. \A j \in 1..(i - 1) : j \in 1..Len(s) /\ j < i
  BY <1>1
<1> QED
  BY <1>4, <1>5 DEF Before

----------------------------------------------------------------------------
(* The levels are the reference waves. *)

\* What WaveOf has after n rounds.
IsDone(done, N) ==
  done = [n \in 0..N |-> IF n = 0 THEN {} ELSE {p \in Packages : Deps[p] \subseteq done[n - 1]}]

\* What the first n levels hold.
UpTo(s, n) == UNION {s[j] : j \in {k \in 1..Len(s) : k <= n}}

LEMMA Round ==
  ASSUME NEW s \in Levels, Layered(s), Members(s) = Packages,
         NEW n \in Nat, n # 0
  PROVE  UpTo(s, n) = {p \in Packages : Deps[p] \subseteq UpTo(s, n - 1)}
<1>1. n - 1 \in Nat /\ n >= 1
  OBVIOUS
<1>2. Len(s) \in Nat /\ DOMAIN s = 1..Len(s) /\ \A i \in 1..Len(s) : s[i] \subseteq Packages
  BY LevelsNumbered
<1>3. ASSUME NEW p \in Packages, Deps[p] \subseteq UpTo(s, n - 1) PROVE p \in UpTo(s, n)
  <2>1. PICK i \in 1..Len(s) : p \in s[i]
    BY <1>2 DEF Members
  <2>2. CASE i <= n
    BY <2>1, <2>2 DEF UpTo
  <2>3. CASE n < i
    <3>1. n \in 1..Len(s)
      BY <1>1, <1>2, <2>3
    <3>2. UpTo(s, n - 1) \subseteq Before(s, n)
      <4>1. \A k \in 1..Len(s) : k <= n - 1 => k \in 1..(n - 1)
        BY <1>1
      <4> QED
        BY <4>1 DEF Before, UpTo
    <3>3. p \notin Before(s, n)
      <4>1. \A k \in 1..(n - 1) : k \in 1..Len(s) /\ k # i
        BY <1>1, <1>2, <2>3
      <4> QED
        BY <2>1, <4>1, OneLevel DEF Before
    <3>4. p \in s[n]
      BY <1>3, <3>1, <3>2, <3>3 DEF Layered
    <3> QED
      BY <1>1, <3>1, <3>4 DEF UpTo
  <2> QED
    BY <1>1, <1>2, <2>2, <2>3
<1>4. ASSUME NEW p \in UpTo(s, n) PROVE p \in Packages /\ Deps[p] \subseteq UpTo(s, n - 1)
  <2>1. PICK i \in 1..Len(s) : i <= n /\ p \in s[i]
    BY <1>4 DEF UpTo
  <2>2. Deps[p] \subseteq Before(s, i) /\ p \in Packages
    BY <2>1 DEF Layered
  <2>3. \A k \in 1..(i - 1) : k \in 1..Len(s) /\ k <= n - 1
    BY <1>1, <1>2, <2>1
  <2>4. Before(s, i) \subseteq UpTo(s, n - 1)
    BY <2>3 DEF Before, UpTo
  <2> QED
    BY <2>2, <2>4
<1> QED
  BY <1>3, <1>4

\* After n rounds that is what is in the first n levels.
LEMMA RoundsAreLevels ==
  ASSUME NEW s \in Levels, Layered(s), Members(s) = Packages, NEW N \in Nat,
         NEW done, IsDone(done, N)
  PROVE  \A n \in 0..N : done[n] = UpTo(s, n)
<1> DEFINE Off == {n \in 0..N : done[n] # UpTo(s, n)}
<1>1. SUFFICES ASSUME Off # {} PROVE FALSE
  OBVIOUS
<1>2. Off \subseteq Nat
  OBVIOUS
<1>3. PICK n \in Off : \A m \in Off : n <= m
  BY <1>1, <1>2, Least
<1>4. n # 0
  <2>1. UpTo(s, 0) = {}
    BY LevelsNumbered DEF UpTo
  <2>2. done[0] = {}
    BY DEF IsDone
  <2> QED
    BY <2>1, <2>2
<1>5. n \in 0..N /\ n - 1 \in 0..N /\ n \in Nat /\ n - 1 \in Nat
  BY <1>4
<1>6. done[n - 1] = UpTo(s, n - 1)
  <2>1. ~(n <= n - 1)
    BY <1>5
  <2> QED
    BY <1>3, <1>5, <2>1
<1>7. done[n] = {p \in Packages : Deps[p] \subseteq UpTo(s, n - 1)}
  BY <1>4, <1>5, <1>6 DEF IsDone
<1> QED
  BY <1>4, <1>5, <1>7, Round

LEMMA LevelsAreThose ==
  ASSUME NEW s \in Levels, Layered(s), Members(s) = Packages, Len(s) <= Cardinality(Packages)
  PROVE  s = Waves(Deps)
<1> DEFINE N == Cardinality(Packages)
           done == CHOOSE f : IsDone(f, N)
           wave == [n \in 1..N |-> done[n] \ done[n - 1]]
<1>1. /\ N \in Nat /\ Len(s) \in Nat /\ DOMAIN s = 1..Len(s) /\ Len(s) <= N
      /\ s = [i \in 1..Len(s) |-> s[i]]
  <2>1. IsFiniteSet(Packages)
    BY GraphAssumption, FS_Subset
  <2> QED
    BY <2>1, FS_CardinalityType, LevelsNumbered DEF Levels
<1>2. WaveOf(Deps) = wave
  <2>1. DOMAIN Deps = Packages
    BY DEF Deps
  <2> QED
    BY <2>1 DEF WaveOf, IsDone
<1>3. IsDone(done, N)
  <2>1. UpTo(s, 0) = {}
    BY <1>1 DEF UpTo
  <2>2. \A n \in 0..N : n # 0 => UpTo(s, n) = {p \in Packages : Deps[p] \subseteq UpTo(s, n - 1)}
    BY Round
  <2>3. \A n \in 0..N : n # 0 => n - 1 \in 0..N
    BY <1>1
  <2>4. IsDone([n \in 0..N |-> UpTo(s, n)], N)
    BY <2>1, <2>2, <2>3 DEF IsDone
  <2> QED
    BY <2>4
<1>4. \A n \in 0..N : done[n] = UpTo(s, n)
  BY <1>1, <1>3, RoundsAreLevels
<1>5. ASSUME NEW n \in 1..Len(s) PROVE UpTo(s, n) \ UpTo(s, n - 1) = s[n]
  <2>1. n \in Nat /\ \A k \in 1..Len(s) : k <= n <=> k <= n - 1 \/ k = n
    BY <1>1
  <2>2. UpTo(s, n) = UpTo(s, n - 1) \union s[n]
    BY <2>1 DEF UpTo
  <2>3. \A p \in s[n] : p \notin UpTo(s, n - 1)
    <3>1. \A k \in 1..Len(s) : k <= n - 1 => k # n
      BY <2>1
    <3> QED
      BY <3>1, OneLevel DEF UpTo
  <2> QED
    BY <2>2, <2>3
<1>6. ASSUME NEW n \in 1..N PROVE wave[n] = IF n \in 1..Len(s) THEN s[n] ELSE {}
  <2>1. n \in 0..N /\ n - 1 \in 0..N
    BY <1>1
  <2>2. wave[n] = UpTo(s, n) \ UpTo(s, n - 1)
    BY <1>4, <2>1
  <2>3. CASE n \in 1..Len(s)
    BY <1>5, <2>2, <2>3
  <2>4. CASE n \notin 1..Len(s)
    <3>1. \A k \in 1..Len(s) : k <= n /\ k <= n - 1
      BY <1>1, <2>4
    <3> QED
      BY <2>2, <2>4, <3>1 DEF UpTo
  <2> QED
    BY <2>3, <2>4
<1>7. {n \in 1..N : wave[n] # {}} = 1..Len(s)
  <2>1. \A n \in 1..Len(s) : n \in 1..N /\ s[n] # {}
    BY <1>1 DEF Layered
  <2> QED
    BY <1>6, <2>1
<1>8. Waves(Deps) = [n \in {m \in 1..N : wave[m] # {}} |-> wave[n]]
  BY <1>2 DEF Waves, RestrictValues, Restrict
<1>9. \A n \in 1..Len(s) : wave[n] = s[n]
  BY <1>1, <1>6
<1> QED
  BY <1>1, <1>7, <1>8, <1>9

----------------------------------------------------------------------------
(* What a selection keeps of the levels. *)

\* One iteration of the loop of FilterLevels.
Keep(t, w) == IF w = {} THEN t ELSE Append(t, w)

IsKept(kept, s, R, N) ==
  kept = [n \in 0..N |-> IF n = 0 THEN <<>> ELSE Keep(kept[n - 1], s[n] \intersect R)]

\* The loop has a result however long it runs.
LEMMA KeptExists ==
  ASSUME NEW s, NEW R, NEW N \in Nat
  PROVE  \E kept : IsKept(kept, s, R, N)
<1> DEFINE Off == {n \in Nat : ~\E kept : IsKept(kept, s, R, n)}
<1>1. SUFFICES ASSUME Off # {} PROVE FALSE
  OBVIOUS
<1>2. PICK n \in Off : \A m \in Off : n <= m
  <2>1. Off \subseteq Nat
    OBVIOUS
  <2> QED
    BY <1>1, <2>1, Least
<1>3. n # 0
  <2>1. IsKept([m \in 0..0 |-> <<>>], s, R, 0)
    BY DEF IsKept
  <2> QED
    BY <2>1
<1>4. n \in Nat /\ n - 1 \in Nat /\ ~(n <= n - 1)
  BY <1>3
<1>5. PICK f : IsKept(f, s, R, n - 1)
  BY <1>2, <1>4
<1> DEFINE g == [m \in 0..n |-> IF m = n THEN Keep(f[n - 1], s[n] \intersect R) ELSE f[m]]
<1>6. ASSUME NEW m \in 0..n
      PROVE  g[m] = IF m = 0 THEN <<>> ELSE Keep(g[m - 1], s[m] \intersect R)
  <2>1. CASE m = n
    <3>1. n - 1 \in 0..n /\ n - 1 # n
      BY <1>4
    <3> QED
      BY <1>3, <2>1, <3>1
  <2>2. CASE m # n
    <3>1. m \in 0..(n - 1) /\ (m # 0 => m - 1 \in 0..n /\ m - 1 # n)
      BY <1>4, <2>2
    <3>2. f[m] = IF m = 0 THEN <<>> ELSE Keep(f[m - 1], s[m] \intersect R)
      BY <1>5, <3>1 DEF IsKept
    <3> QED
      BY <2>2, <3>1, <3>2
  <2> QED
    BY <2>1, <2>2
<1>7. IsKept(g, s, R, n)
  BY <1>6 DEF IsKept
<1> QED
  BY <1>2, <1>7

\* What is kept of the first n levels: the selected packages of each, in the order of the
\* levels, none of them empty.
Picked(t, s, R, n) ==
  /\ t \in Levels
  /\ Members(t) = UpTo(s, n) \intersect R
  /\ \A a \in 1..Len(t) : t[a] # {} /\ \E i \in 1..Len(s) : i <= n /\ t[a] \subseteq s[i]
  /\ \A a, b \in 1..Len(t) : a < b =>
       \E i, j \in 1..Len(s) : i < j /\ j <= n /\ t[a] \subseteq s[i] /\ t[b] \subseteq s[j]

LEMMA RoundMore ==
  ASSUME NEW s \in Levels, NEW n \in 1..Len(s)
  PROVE  /\ Len(s) \in Nat /\ n \in Nat /\ n - 1 \in Nat
         /\ \A i \in 1..Len(s) : (i <= n <=> i <= n - 1 \/ i = n) /\ (i <= n - 1 => i < n /\ i <= n)
         /\ UpTo(s, n) = UpTo(s, n - 1) \union s[n]
<1>1. /\ Len(s) \in Nat /\ n \in Nat /\ n - 1 \in Nat
      /\ \A i \in 1..Len(s) : (i <= n <=> i <= n - 1 \/ i = n) /\ (i <= n - 1 => i < n /\ i <= n)
  BY LevelsNumbered
<1>2. UpTo(s, n) = UpTo(s, n - 1) \union s[n]
  BY <1>1 DEF UpTo
<1> QED
  BY <1>1, <1>2

\* An iteration that keeps some of a level.
LEMMA KeepsSome ==
  ASSUME NEW s \in Levels, NEW R, NEW n \in 1..Len(s), NEW t, Picked(t, s, R, n - 1),
         NEW w, w # {}, \A p : p \in w <=> p \in s[n] /\ p \in R,
         NEW u \in Levels, Len(u) = Len(t) + 1, Members(u) = Members(t) \union w,
         \A a \in 1..Len(t) : u[a] = t[a], u[Len(t) + 1] = w
  PROVE  Picked(u, s, R, n)
<1> DEFINE L == Len(t)
<1>1. /\ Len(s) \in Nat /\ n \in Nat /\ n - 1 \in Nat
      /\ \A i \in 1..Len(s) : (i <= n <=> i <= n - 1 \/ i = n) /\ (i <= n - 1 => i < n /\ i <= n)
      /\ UpTo(s, n) = UpTo(s, n - 1) \union s[n]
  BY RoundMore
<1>2. t \in Levels /\ L \in Nat
  BY LevelsNumbered DEF Picked
<1>3. \A a \in 1..Len(u) : a \in 1..L \/ a = L + 1
  BY <1>2
<1>4. Members(u) = UpTo(s, n) \intersect R
  BY <1>1 DEF Picked
<1>5. ASSUME NEW a \in 1..Len(u)
      PROVE  u[a] # {} /\ \E i \in 1..Len(s) : i <= n /\ u[a] \subseteq s[i]
  <2>1. CASE a \in 1..L
    <3>1. PICK i \in 1..Len(s) : i <= n - 1 /\ t[a] \subseteq s[i] /\ t[a] # {}
      BY <2>1 DEF Picked
    <3>2. u[a] = t[a] /\ i <= n
      BY <1>1, <2>1, <3>1
    <3> QED
      BY <3>1, <3>2
  <2>2. CASE a = L + 1
    <3>1. n \in 1..Len(s) /\ n <= n /\ u[a] \subseteq s[n] /\ u[a] # {}
      BY <1>1, <2>2
    <3> QED
      BY <3>1
  <2> QED
    BY <1>3, <2>1, <2>2
<1>6. ASSUME NEW a \in 1..Len(u), NEW b \in 1..Len(u), a < b
      PROVE  \E i, j \in 1..Len(s) :
               i < j /\ j <= n /\ u[a] \subseteq s[i] /\ u[b] \subseteq s[j]
  <2>1. a \in 1..L /\ (b \in 1..L \/ b = L + 1)
    BY <1>2, <1>6
  <2>2. CASE b \in 1..L
    <3>1. PICK i \in 1..Len(s), j \in 1..Len(s) :
            i < j /\ j <= n - 1 /\ t[a] \subseteq s[i] /\ t[b] \subseteq s[j]
      <4>1. a \in 1..Len(t) /\ b \in 1..Len(t)
        BY <2>1, <2>2
      <4>2. \A c, d \in 1..Len(t) : c < d =>
              \E i, j \in 1..Len(s) :
                i < j /\ j <= n - 1 /\ t[c] \subseteq s[i] /\ t[d] \subseteq s[j]
        BY DEF Picked
      <4>3. \E i, j \in 1..Len(s) :
              i < j /\ j <= n - 1 /\ t[a] \subseteq s[i] /\ t[b] \subseteq s[j]
        BY <1>6, <4>1, <4>2
      <4> QED
        BY <4>3
    <3>2. u[a] = t[a] /\ u[b] = t[b] /\ j <= n
      BY <1>1, <2>1, <2>2, <3>1
    <3> QED
      BY <3>1, <3>2
  <2>3. CASE b = L + 1
    <3>1. PICK i \in 1..Len(s) : i <= n - 1 /\ t[a] \subseteq s[i]
      BY <2>1 DEF Picked
    <3>2. i < n /\ n <= n /\ n \in 1..Len(s) /\ u[a] \subseteq s[i] /\ u[b] \subseteq s[n]
      BY <1>1, <2>1, <2>3, <3>1
    <3> QED
      BY <3>2
  <2> QED
    BY <2>1, <2>2, <2>3
<1>7. \A a, b \in 1..Len(u) : a < b =>
        \E i, j \in 1..Len(s) : i < j /\ j <= n /\ u[a] \subseteq s[i] /\ u[b] \subseteq s[j]
  BY <1>6
<1> QED
  BY <1>4, <1>5, <1>7 DEF Picked

\* An iteration that keeps nothing of a level.
LEMMA KeepsNone ==
  ASSUME NEW s \in Levels, NEW R, NEW n \in 1..Len(s), NEW t, Picked(t, s, R, n - 1),
         s[n] \intersect R = {}
  PROVE  Picked(t, s, R, n)
<1>1. UpTo(s, n) \intersect R = UpTo(s, n - 1) \intersect R
  BY RoundMore
<1> QED
  <2>1. /\ t \in Levels /\ Members(t) = UpTo(s, n) \intersect R
        /\ \A a \in 1..Len(t) :
             t[a] # {} /\ \E i \in 1..Len(s) : i <= n - 1 /\ t[a] \subseteq s[i]
        /\ \A a, b \in 1..Len(t) : a < b =>
             \E i, j \in 1..Len(s) : i < j /\ j <= n - 1 /\ t[a] \subseteq s[i] /\ t[b] \subseteq s[j]
    BY <1>1 DEF Picked
  <2>2. \A i \in 1..Len(s) : i <= n - 1 => i <= n
    BY RoundMore
  <2>3. \A a \in 1..Len(t) : t[a] # {} /\ \E i \in 1..Len(s) : i <= n /\ t[a] \subseteq s[i]
    BY <2>1, <2>2
  <2>4. \A a, b \in 1..Len(t) : a < b =>
          \E i, j \in 1..Len(s) : i < j /\ j <= n /\ t[a] \subseteq s[i] /\ t[b] \subseteq s[j]
    BY <2>1, <2>2
  <2> QED
    BY <2>1, <2>3, <2>4 DEF Picked

LEMMA KeepsOn ==
  ASSUME NEW s \in Levels, NEW R, NEW n \in 1..Len(s), NEW t, Picked(t, s, R, n - 1)
  PROVE  Picked(Keep(t, s[n] \intersect R), s, R, n)
<1>1. ASSUME NEW w, w \subseteq Packages, w # {}
      PROVE  /\ Keep(t, w) \in Levels /\ Len(Keep(t, w)) = Len(t) + 1
             /\ Members(Keep(t, w)) = Members(t) \union w
             /\ \A a \in 1..Len(t) : Keep(t, w)[a] = t[a]
             /\ Keep(t, w)[Len(t) + 1] = w
  <2>1. Keep(t, w) = Append(t, w) /\ t \in Levels
    BY <1>1 DEF Keep, Picked
  <2>2. PICK u : u = Append(t, w)
    OBVIOUS
  <2>3. /\ u \in Levels /\ Len(u) = Len(t) + 1
        /\ Members(u) = Members(t) \union w
        /\ \A a \in 1..Len(t) : u[a] = t[a]
        /\ u[Len(t) + 1] = w
    <3>1. u \in Levels
      BY <1>1, <2>1, <2>2, LevelAppended
    <3>2. Len(u) = Len(t) + 1
      BY <1>1, <2>1, <2>2, LevelAppended
    <3>3. Members(u) = Members(t) \union w
      BY <1>1, <2>1, <2>2, MembersAppended
    <3>4. \A a \in 1..Len(t) : u[a] = t[a]
      BY <1>1, <2>1, <2>2, LevelAppended
    <3>5. u[Len(t) + 1] = w
      BY <1>1, <2>1, <2>2, LevelAppended
    <3> QED
      BY <3>1, <3>2, <3>3, <3>4, <3>5
  <2> QED
    BY <2>1, <2>2, <2>3
<1>2. s[n] \intersect R \subseteq Packages
  BY LevelsNumbered
<1>3. CASE s[n] \intersect R = {}
  BY <1>3, KeepsNone DEF Keep
<1>4. CASE s[n] \intersect R # {}
  <2>1. PICK w : w = s[n] \intersect R
    OBVIOUS
  <2>2. Picked(Keep(t, w), s, R, n)
    BY <1>1, <1>2, <1>4, <2>1, KeepsSome
  <2> QED
    BY <2>1, <2>2
<1> QED
  BY <1>3, <1>4

LEMMA KeptIsSelected ==
  ASSUME NEW s \in Levels, NEW R, NEW kept, IsKept(kept, s, R, Len(s))
  PROVE  \A n \in 0..Len(s) : Picked(kept[n], s, R, n)
<1> DEFINE Off == {n \in 0..Len(s) : ~Picked(kept[n], s, R, n)}
<1>0. Len(s) \in Nat
  BY LevelsNumbered
<1>1. SUFFICES ASSUME Off # {} PROVE FALSE
  OBVIOUS
<1>2. PICK n \in Off : \A m \in Off : n <= m
  <2>1. Off \subseteq Nat
    BY <1>0
  <2> QED
    BY <1>1, <2>1, Least
<1>3. n # 0
  <2>1. kept[0] = <<>>
    BY <1>0 DEF IsKept
  <2>2. UpTo(s, 0) = {}
    BY <1>0 DEF UpTo
  <2>3. Picked(<<>>, s, R, 0)
    BY <2>2 DEF Picked, Members, Levels
  <2> QED
    BY <2>1, <2>3
<1>4. n \in 1..Len(s) /\ n - 1 \in 0..Len(s) /\ ~(n <= n - 1)
  BY <1>0, <1>3
<1>5. Picked(kept[n - 1], s, R, n - 1)
  BY <1>2, <1>4
<1>6. kept[n] = Keep(kept[n - 1], s[n] \intersect R)
  BY <1>3, <1>4 DEF IsKept
<1> QED
  BY <1>4, <1>5, <1>6, KeepsOn

LEMMA KeepSelects ==
  ASSUME NEW s \in Levels, Layered(s), Members(s) = Packages, NEW R, R # {}
  PROVE  Picked(KeepRequested(s, R), s, R, Len(s))
<1> DEFINE kept == CHOOSE f : IsKept(f, s, R, Len(s))
<1>1. Len(s) \in Nat
  BY LevelsNumbered
<1>2. IsKept(kept, s, R, Len(s))
  BY <1>1, KeptExists
<1>3. KeepRequested(s, R) = kept[Len(s)]
  BY DEF KeepRequested, IsKept, Keep
<1> QED
  BY <1>1, <1>2, <1>3, KeptIsSelected

\* Without a selection all the levels stay.
LEMMA AllSelected ==
  ASSUME NEW s \in Levels, Layered(s), Members(s) = Packages
  PROVE  Picked(KeepRequested(s, {}), s, Packages, Len(s))
<1>1. Len(s) \in Nat /\ DOMAIN s = 1..Len(s) /\ \A i \in 1..Len(s) : i <= Len(s)
  BY LevelsNumbered
<1>2. KeepRequested(s, {}) = s
  BY DEF KeepRequested
<1>3. UpTo(s, Len(s)) = Packages
  BY <1>1 DEF UpTo, Members
<1> QED
  BY <1>1, <1>2, <1>3 DEF Picked, Layered

\* The levels that are left have what a package reaches before the package.
LEMMA InOrder ==
  ASSUME NEW s \in Levels, Layered(s), NEW R, NEW t, Picked(t, s, R, Len(s)),
         NEW p \in Members(t), NEW q \in Members(t), q \in Above(p)
  PROVE  Position(t, q) < Position(t, p)
<1> DEFINE a == Position(t, p)
           b == Position(t, q)
<1>1. DOMAIN t = 1..Len(t) /\ Len(t) \in Nat /\ Len(s) \in Nat
  BY LevelsNumbered DEF Picked
<1>2. a \in 1..Len(t) /\ p \in t[a] /\ b \in 1..Len(t) /\ q \in t[b]
  BY <1>1 DEF Position, Members
<1>3. PICK i \in 1..Len(s) : t[a] \subseteq s[i]
  BY <1>2 DEF Picked
<1>4. PICK j \in 1..Len(s) : j < i /\ q \in s[j]
  BY <1>2, <1>3, Downward
<1>5. a # b
  <2>1. q \notin s[i]
    BY <1>1, <1>4, OneLevel
  <2> QED
    BY <1>2, <1>3, <2>1
<1>6. ~(a < b)
  <2> SUFFICES ASSUME a < b PROVE FALSE
    OBVIOUS
  <2>1. PICK k \in 1..Len(s), l \in 1..Len(s) : k < l /\ t[a] \subseteq s[k] /\ t[b] \subseteq s[l]
    BY <1>2 DEF Picked
  <2>2. k = i
    BY <1>2, <1>3, <2>1, OneLevel
  <2>3. l = j
    BY <1>2, <1>4, <2>1, OneLevel
  <2> QED
    BY <1>1, <1>4, <2>1, <2>2, <2>3
<1> QED
  BY <1>1, <1>2, <1>5, <1>6

----------------------------------------------------------------------------
(* The levels of every run. *)

\* What holds of the levels while they are built.
Levelled ==
  /\ Types
  /\ pc \in {"build", "dfs"} => levels = <<>>
  /\ pc \in {"kahn", "filter"} => Layered(levels) /\ Len(levels) + remaining <= Cardinality(Packages)
  /\ pc = "kahn" => Counting
  /\ pc = "filter" => InLevel = Packages
  /\ LevelsAreWaves

\* What a selection leaves of them.
Chosen ==
  LET kept == IF request = {} THEN Packages ELSE request
  IN /\ InLevel = kept
     /\ \A i \in DOMAIN levels : levels[i] # {}
     /\ \A p, q \in kept : q \in Ancestors(Deps)[p] => Position(levels, q) < Position(levels, p)

LEMMA WavesMeans ==
  LevelsAreWaves <=> /\ Types /\ answer # "levelsCycle"
                     /\ pc = "filter" => levels = Waves(Deps)
                     /\ answer = "ok" => Chosen
BY DEF LevelsAreWaves, Chosen

LEMMA LevelledAtFirst == GraphInit => Levelled
<1> SUFFICES ASSUME GraphInit PROVE Levelled
  OBVIOUS
<1>1. Types
  BY GraphAssumption DEF GraphInit, Types
<1> QED
  BY <1>1, WavesMeans DEF GraphInit, Levelled

\* The search changes no level.
LEMMA SearchLeavesLevels ==
  ASSUME Levelled, Resolution, Resolution', BuildEdges \/ DFSRoot \/ DFSEdge \/ DFSReturn
  PROVE  Levelled'
<1>1. /\ edges' = edges /\ request' = request /\ inDegree' = inDegree
      /\ remaining' = remaining /\ levels' = levels /\ levels = <<>>
      /\ pc' \in {"dfs", "done"}
      /\ pc' = "done" => visited' = visited /\ stack' = stack
      /\ answer' \in {"none", "unknownDependency", "cycle"}
  BY DEF BuildEdges, DFSRoot, DFSEdge, DFSReturn, Return, Levelled, Resolution
<1>2. /\ visited' \subseteq Packages
      /\ \A i \in DOMAIN stack' : stack'[i].name \in Packages /\ stack'[i].todo \subseteq Packages
  <2>1. CASE pc' = "done"
    BY <1>1, <2>1 DEF Levelled, Types
  <2>2. CASE pc' = "dfs"
    <3>1. stack' \in Seq(Frames) /\ visited' \subseteq Packages
      BY <2>2 DEF Resolution, Search, Shape
    <3>2. \A i \in DOMAIN stack' : stack'[i] \in Frames
      BY <3>1
    <3> QED
      BY <3>1, <3>2 DEF Frames
  <2> QED
    BY <1>1, <2>1, <2>2
<1>3. Types'
  BY <1>1, <1>2 DEF Levelled, Types
<1>4. LevelsAreWaves'
  BY <1>1, <1>3, WavesMeans DEF LevelsAreWaves
<1> QED
  BY <1>1, <1>3, <1>4 DEF Levelled

\* The counters start with every package.
LEMMA CountsAtFirst ==
  ASSUME Levelled, Resolution, CountInDegrees
  PROVE  Levelled'
<1>1. /\ pc = "dfs" /\ pc' = "kahn" /\ edges' = edges /\ request' = request /\ levels' = <<>>
      /\ levels = <<>> /\ answer' = answer /\ visited' = visited /\ stack' = stack
      /\ remaining' = Cardinality(Packages)
      /\ inDegree' = [p \in Packages |-> Cardinality(Entries(p, Name))]
      /\ answer = "none"
  BY DEF CountInDegrees, Levelled, Resolution
<1>2. EdgesType /\ Packages \subseteq Name /\ \A p \in Packages : Deps[p] \subseteq Packages
  BY <1>1, GraphAssumption DEF EdgesType, Levelled, Types, Resolution
<1>3. ASSUME NEW p \in Packages PROVE Entries(p, Name) = Entries(p, Packages)
  <2>1. Entries(p, Packages) \subseteq Entries(p, Name)
    BY <1>2 DEF Entries
  <2>2. ASSUME NEW e \in Entries(p, Name) PROVE e \in Entries(p, Packages)
    <3>1. e \in Name \X (1..MaxRepeat) /\ e[2] <= edges[p][e[1]] /\ e[1] \in Name
      BY DEF Entries
    <3>2. edges[p][e[1]] \in 0..MaxRepeat /\ e[2] \in 1..MaxRepeat
      BY <1>2, <3>1 DEF EdgesType
    <3>3. edges[p][e[1]] > 0
      BY <3>1, <3>2, GraphAssumption
    <3>4. e[1] \in Packages
      BY <1>2, <3>1, <3>3 DEF Deps
    <3>5. e \in Packages \X (1..MaxRepeat)
      BY <3>1, <3>4
    <3> QED
      BY <3>1, <3>5 DEF Entries
  <2> QED
    BY <2>1, <2>2
<1>4. InLevel' = {} /\ Unplaced' = Packages
  BY <1>1 DEF InLevel, Members, Unplaced
<1>5. Counting'
  <2>1. \A p, S : Entries(p, S)' = Entries(p, S)
    BY <1>1 DEF Entries
  <2> QED
    BY <1>1, <1>3, <1>4, <2>1 DEF Counting
<1>6. Cardinality(Packages) \in Nat
  BY GraphAssumption, FS_Subset, FS_CardinalityType
<1>7. Types'
  <2>1. \A p \in Packages : Cardinality(Entries(p, Name)) \in Nat
    BY <1>2, EntriesCount
  <2> QED
    BY <1>1, <1>6, <2>1 DEF Levelled, Types
<1>8. Layered(levels)' /\ Len(levels') + remaining' <= Cardinality(Packages)
  BY <1>1, <1>6 DEF Layered
<1> QED
  BY <1>1, <1>5, <1>7, <1>8, WavesMeans DEF Levelled, LevelsAreWaves

\* A wave keeps the levels layered, and there always is one.
LEMMA WavesOn ==
  ASSUME Levelled, Resolution, KahnLevel
  PROVE  Levelled'
<1>1. /\ pc = "kahn" /\ remaining > 0 /\ edges' = edges /\ request' = request
      /\ visited' = visited /\ stack' = stack /\ answer = "none"
  BY DEF KahnLevel, Resolution
<1>2. /\ EdgesType /\ Counting /\ levels \in Levels /\ Layered(levels) /\ remaining \in Nat
      /\ Len(levels) + remaining <= Cardinality(Packages)
      /\ Acyclic(Deps) /\ \A p \in Packages : Deps[p] \subseteq Packages
  BY <1>1 DEF EdgesType, Levelled, Types, Levels, Resolution, CycleVerdict, Validated
<1>3. CurrentLevel # {}
  BY <1>1, <1>2, LevelFound
<1>4. /\ levels' = Append(levels, CurrentLevel) /\ remaining' = remaining - Cardinality(CurrentLevel)
      /\ inDegree' = Relax(CurrentLevel) /\ pc' = pc /\ answer' = answer
  BY <1>3 DEF KahnLevel
<1>5. Counting' /\ remaining' \in Nat /\ remaining' < remaining
  BY <1>1, <1>2, <1>3, <1>4, CountsOn
<1>6. levels' \in Levels /\ Layered(levels)' /\ Len(levels') = Len(levels) + 1
  BY <1>1, <1>2, <1>3, <1>4, LayersGrow
<1>7. Len(levels') + remaining' <= Cardinality(Packages)
  <2>1. Len(levels) \in Nat /\ Cardinality(Packages) \in Nat
    BY <1>2, LevelsNumbered, GraphAssumption, FS_Subset, FS_CardinalityType
  <2> QED
    BY <1>2, <1>5, <1>6, <2>1
<1>8. Types'
  <2>1. inDegree' \in [Packages -> Nat \union {-1}]
    <3>1. Unplaced' \subseteq Name /\ EdgesType'
      BY <1>1, <1>2, GraphAssumption DEF Unplaced, EdgesType
    <3>2. \A p \in Packages : Cardinality(Entries(p, Unplaced))' \in Nat
      <4>1. \A p, S : Entries(p, S)' = Entries(p, S)
        BY <1>1 DEF Entries
      <4>2. \A p \in Packages : Cardinality(Entries(p, Unplaced')) \in Nat
        BY <1>2, <3>1, EntriesCount
      <4> QED
        BY <1>1, <4>2 DEF Entries
    <3> QED
      BY <1>5, <3>2 DEF Counting
  <2> QED
    BY <1>1, <1>4, <1>5, <1>6, <2>1 DEF Levelled, Types, Levels
<1>9. LevelsAreWaves'
  BY <1>1, <1>4, <1>8 DEF LevelsAreWaves
<1> QED
  BY <1>1, <1>4, <1>5, <1>6, <1>7, <1>8, <1>9 DEF Levelled

\* At the end every package is in a level, and the levels are the waves.
LEMMA WavesDone ==
  ASSUME Levelled, Resolution, KahnDone
  PROVE  Levelled'
<1>1. /\ pc = "kahn" /\ pc' = "filter" /\ remaining <= 0 /\ answer = "none"
      /\ UNCHANGED <<edges, request, visited, stack, inDegree, remaining, levels, answer>>
  BY DEF KahnDone, Resolution
<1>2. /\ EdgesType /\ Counting /\ levels \in Levels /\ Layered(levels) /\ remaining \in Nat
      /\ Len(levels) + remaining <= Cardinality(Packages)
  BY <1>1 DEF EdgesType, Levelled, Types, Levels, Resolution
<1>3. remaining = 0
  BY <1>1, <1>2
<1>4. Unplaced = {}
  <2>1. IsFiniteSet(Unplaced)
    BY GraphAssumption, FS_Subset DEF Unplaced
  <2> QED
    BY <1>2, <1>3, <2>1, FS_EmptySet DEF Counting
<1>5. InLevel = Packages
  <2>1. InLevel \subseteq Packages
    BY <1>2, LevelsNumbered DEF InLevel, Members
  <2> QED
    BY <1>4, <2>1 DEF Unplaced
<1>6. levels = Waves(Deps)
  <2>1. Len(levels) \in Nat /\ Len(levels) <= Cardinality(Packages)
    BY <1>2, <1>3, LevelsNumbered, GraphAssumption, FS_Subset, FS_CardinalityType
  <2> QED
    BY <1>2, <1>5, <2>1, LevelsAreThose DEF InLevel
<1>7. Deps' = Deps /\ Waves(Deps)' = Waves(Deps)
  BY <1>1, SameGraph
<1>8. Types' /\ InLevel' = InLevel /\ Layered(levels)'
  BY <1>1, <1>2, <1>7 DEF Levelled, Types, InLevel, Layered
<1>9. LevelsAreWaves'
  BY <1>1, <1>6, <1>7, <1>8 DEF LevelsAreWaves
<1> QED
  BY <1>1, <1>2, <1>5, <1>8, <1>9 DEF Levelled

\* The selection.
LEMMA ChosenFrom ==
  ASSUME Levelled, Resolution, FilterLevels
  PROVE  Levelled'
<1>1. /\ pc = "filter" /\ pc' = "done" /\ answer = "none"
      /\ UNCHANGED <<edges, request, visited, stack, inDegree, remaining>>
      /\ \/ request \subseteq Packages /\ levels' = KeepRequested(levels, request) /\ answer' = "ok"
         \/ levels' = levels /\ answer' = "unknownPackage"
  BY DEF FilterLevels, Return, Resolution
<1>2. levels \in Levels /\ Layered(levels) /\ Members(levels) = Packages
  BY <1>1 DEF Levelled, Types, Levels, InLevel
<1>3. CASE levels' = levels /\ answer' = "unknownPackage"
  <2>1. Types'
    BY <1>1, <1>3 DEF Levelled, Types
  <2>2. LevelsAreWaves'
    BY <1>1, <1>3, <2>1 DEF LevelsAreWaves
  <2> QED
    BY <1>1, <2>1, <2>2 DEF Levelled
<1>4. CASE request \subseteq Packages /\ levels' = KeepRequested(levels, request) /\ answer' = "ok"
  <2>1. PICK kept : kept = IF request = {} THEN Packages ELSE request
    OBVIOUS
  <2>2. Picked(levels', levels, kept, Len(levels)) /\ kept \subseteq Packages
    <3>1. CASE request = {}
      BY <1>2, <1>4, <2>1, <3>1, AllSelected
    <3>2. CASE request # {}
      BY <1>2, <1>4, <2>1, <3>2, KeepSelects
    <3> QED
      BY <3>1, <3>2
  <2>3. /\ levels' \in Levels /\ Members(levels') = UpTo(levels, Len(levels)) \intersect kept
        /\ \A i \in 1..Len(levels') : levels'[i] # {}
    BY <2>2 DEF Picked
  <2>4. InLevel' = kept
    <3>1. Len(levels) \in Nat /\ DOMAIN levels = 1..Len(levels)
      BY <1>2, LevelsNumbered
    <3>2. UpTo(levels, Len(levels)) = Packages
      BY <1>2, <3>1 DEF UpTo, Members
    <3> QED
      BY <2>2, <2>3, <3>2 DEF InLevel
  <2>5. \A i \in DOMAIN levels' : levels'[i] # {}
    BY <2>3, LevelsNumbered
  <2>6. ASSUME NEW p \in kept, NEW q \in kept, q \in Above(p)
        PROVE  Position(levels', q) < Position(levels', p)
    <3>1. p \in Members(levels') /\ q \in Members(levels')
      BY <2>4 DEF InLevel
    <3> QED
      BY <1>2, <2>2, <2>6, <3>1, InOrder
  <2>7. Chosen'
    <3>1. Deps' = Deps /\ request' = request
      BY <1>1, SameGraph
    <3>2. \A p \in kept : Ancestors(Deps)'[p] = Above(p)
      BY <3>1 DEF Above
    <3> QED
      BY <2>1, <2>4, <2>5, <2>6, <3>1, <3>2 DEF Chosen
  <2>8. Types'
    BY <1>1, <1>4, <2>3 DEF Levelled, Types, Levels
  <2>9. LevelsAreWaves'
    BY <1>1, <1>4, <2>7, <2>8 DEF LevelsAreWaves, Chosen
  <2> QED
    BY <1>1, <2>8, <2>9 DEF Levelled
<1> QED
  BY <1>1, <1>3, <1>4

LEMMA LevelledAlways == Levelled /\ Resolution /\ Resolution' /\ [GraphNext]_graphVars => Levelled'
<1> SUFFICES ASSUME Levelled, Resolution, Resolution', [GraphNext]_graphVars PROVE Levelled'
  OBVIOUS
<1>1. CASE UNCHANGED graphVars
  <2>1. /\ Types' = Types /\ Layered(levels)' = Layered(levels) /\ Counting' = Counting
        /\ InLevel' = InLevel /\ pc' = pc /\ levels' = levels /\ remaining' = remaining
        /\ LevelsAreWaves' = LevelsAreWaves
    <3>1. Types' = Types /\ InLevel' = InLevel /\ Deps' = Deps
      BY <1>1 DEF graphVars, Types, InLevel, Deps
    <3>2. Layered(levels)' = Layered(levels) /\ Counting' = Counting
      BY <1>1, <3>1 DEF graphVars, Layered, Counting, Unplaced, Entries
    <3>3. LevelsAreWaves' = LevelsAreWaves
      BY <1>1, <3>1 DEF graphVars, LevelsAreWaves
    <3> QED
      BY <1>1, <3>1, <3>2, <3>3 DEF graphVars
  <2> QED
    BY <2>1 DEF Levelled
<1> QED
  BY <1>1, SearchLeavesLevels, CountsAtFirst, WavesOn, WavesDone, ChosenFrom DEF GraphNext, Resolved

\* The levels are the reference waves, and a selection keeps what was asked for in order.
THEOREM LevelsHold == GraphSpec => []LevelsAreWaves
<1>1. Levelled => LevelsAreWaves
  BY DEF Levelled
<1> QED
  BY <1>1, ResolvesAtFirst, ResolvesOn, LevelledAtFirst, LevelledAlways, PTL DEF GraphSpec

\* The search refuses a bundle if and only if its dependencies form a cycle.
THEOREM SearchFindsCycles == GraphSpec => []CycleVerdict
<1>1. Resolution => CycleVerdict
  BY DEF Resolution
<1> QED
  BY <1>1, ResolvesAtFirst, ResolvesOn, PTL DEF GraphSpec

THEOREM SelectionsClosed == GraphSpec => []DirectChecksSuffice
BY Closures, ResolvesAtFirst, ResolvesOn, PTL DEF GraphSpec
=============================================================================
