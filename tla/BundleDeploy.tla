----------------------------- MODULE BundleDeploy -----------------------------
(***************************************************************************)
(* One deployment of a bundle, from the command to its result: the deploy  *)
(* commands (internal/cli/bundle/deploy.go, dev_deploy.go), their runner   *)
(* (deploy_runner.go), the library's Deploy and PrepareDeploySource        *)
(* (pkg/bundle/deploy.go) and ZarfDeployer.DeployBundle                    *)
(* (internal/zarf/deploy.go).                                              *)
(*                                                                         *)
(* The orchestrator in the middle is taken at its word: between "run" and  *)
(* "post" the steps are those of DeployContract, which DeployOrchestrator  *)
(* implements.  os.RemoveAll is taken to succeed: the code only logs when  *)
(* it does not.  A clean-up runs when the call ends only if it had been    *)
(* deferred by then; what fails earlier has to clean up after itself.      *)
(*                                                                         *)
(*   pull -> prepare -> extract -> values -> read -> parse -> relate       *)
(*     -> defaults -> select -> prompt -> deploy -> plan -> hook           *)
(*     -> run -> post -> close -> done        (any error goes to close)    *)
(***************************************************************************)
EXTENDS BundleGraph

CONSTANTS
  Package,         \* the packages of the bundle
  Call,            \* deployments to run: see CallType
  MaxConcurrency,  \* bundle.MaxConcurrency
  HookLimits       \* the limits a PreDeploy hook may leave in the configuration

Source == {"oci", "artifact", "definition", "library"}

\* requested may name packages the bundle does not have.
CallType(c) ==
  /\ c.source \in Source
  /\ c.deps \in [Package -> SUBSET Package]
  /\ IsFiniteSet(c.requested)
  /\ c.force \in BOOLEAN /\ c.prompt \in BOOLEAN
  /\ c.limit \in Nat
  /\ c.found \subseteq Package            \* on the cluster when the call begins

ASSUME DeployCallAssumption ==
  /\ IsFiniteSet(Package) /\ Package # {}
  /\ MaxConcurrency \in Nat \ {0}
  /\ HookLimits \subseteq Nat
  /\ \A c \in Call : CallType(c)

VARIABLES
  call,        \* the arguments; never change
  stage,       \* program counter of the call chain
  workspaces,  \* temporary directories alive: "pull", "extract"
  deferred,    \* those the call chain has deferred the removal of
  cluster,     \* packages with a deployment on the cluster
  outcome,     \* what the caller gets: [kind, listed]
  order, running, succeeded, failed, cancelled, verdict  \* of DeployContract

dirs == <<workspaces, deferred>>
vars == <<call, stage, workspaces, deferred, cluster, outcome,
          order, running, succeeded, failed, cancelled, verdict>>

Run == INSTANCE DeployContract
runVars == <<order, running, succeeded, failed, cancelled, verdict>>

\* What Plan hands to Run: FilterLevels, over names known by then.
Selected == IF call.requested = {} THEN Package ELSE call.requested \intersect Package

----------------------------------------------------------------------------
Entry(source) ==
  CASE source = "oci" -> "pull"
    [] source \in {"artifact", "definition"} -> "prepare"
    [] source = "library" -> "deploy"

Init ==
  /\ call \in Call
  /\ stage = Entry(call.source)
  /\ workspaces = {} /\ deferred = {} /\ cluster = call.found
  /\ outcome = [kind |-> "none", listed |-> {}]
  /\ order = [deps |-> call.deps, selected |-> Selected, limit |-> call.limit]
  /\ running = {} /\ succeeded = {} /\ failed = {}
  /\ cancelled = FALSE
  /\ verdict = Run!Pending

Goto(from, to) == stage = from /\ stage' = to
Finish(kind, listed) == outcome' = [kind |-> kind, listed |-> listed]

\* An early return: the deferred clean-ups run next.
Fail(from) ==
  Goto(from, "close") /\ Finish("error", {}) /\ UNCHANGED <<call, dirs, cluster, runVars>>

\* Step from one stage to the next with nothing else changed.
Advance(from, to) == Goto(from, to) /\ UNCHANGED <<call, dirs, cluster, outcome, runVars>>

\* The caller cancels; what is not bound to the context goes on.
Interrupt ==
  /\ stage # "done" /\ ~cancelled
  /\ cancelled' = TRUE
  /\ UNCHANGED <<call, stage, dirs, cluster, outcome,
                 order, running, succeeded, failed, verdict>>

----------------------------------------------------------------------------
(* Fetching and unpacking. *)

\* runOCIArtifact: a directory of its own for the pulled artifact.
Pull ==
  \/ Fail("pull")
  \/ /\ Goto("pull", "pulling")
     /\ workspaces' = workspaces \union {"pull"}
     /\ deferred' = deferred \union {"pull"}
     /\ UNCHANGED <<call, cluster, outcome, runVars>>

Pulled == Fail("pulling") \/ Advance("pulling", "prepare")

\* PrepareDeploySource: a definition is used in place, an artifact is unpacked
\* into a directory nobody else knows of.
Prepare ==
  \/ Fail("prepare")
  \/ call.source = "definition" /\ Advance("prepare", "select")
  \/ /\ call.source # "definition"
     /\ Goto("prepare", "extract")
     /\ workspaces' = workspaces \union {"extract"}
     /\ UNCHANGED <<call, deferred, cluster, outcome, runVars>>

\* An error of PrepareDeploySource after that: the runner gets no source it could
\* close, so the directory is removed here.
Discard(from) ==
  /\ Goto(from, "close") /\ Finish("error", {})
  /\ workspaces' = workspaces \ {"extract"}
  /\ UNCHANGED <<call, deferred, cluster, runVars>>

ExtractArtifact      == Discard("extract") \/ Advance("extract", "values")
ValuesFilesByPackage == Discard("values")  \/ Advance("values", "read")
ReadDefinition       == Discard("read")    \/ Advance("read", "parse")

\* Faulty variant: the one failure that forgets the directory.
ParseAndForget       == Fail("parse")      \/ Advance("parse", "relate")
ParseBundleBytes     == Discard("parse")   \/ Advance("parse", "relate")

ApplyArtifactValuesFiles == Discard("relate") \/ Advance("relate", "defaults")

\* With the defaults found the source is complete, and its Close is deferred.
AdjacentDefaultsPath ==
  \/ Discard("defaults")
  \/ /\ Goto("defaults", "select")
     /\ deferred' = deferred \union {"extract"}
     /\ UNCHANGED <<call, workspaces, cluster, outcome, runVars>>

Unpack ==
  \/ ExtractArtifact \/ ValuesFilesByPackage \/ ReadDefinition
  \/ ParseBundleBytes \/ ApplyArtifactValuesFiles \/ AdjacentDefaultsPath

----------------------------------------------------------------------------
(* Checks. *)

\* UDSBundle.Validate: no package depends on itself (unknown names are the
\* concern of DependencyGraph).
ValidBundle == \A p \in Package : p \notin call.deps[p]

\* ValidatePackageNames.
KnownNames == call.requested \subseteq Package

\* DeployViolations, unless forced.  Names the bundle lacks have no edges.
Allowed ==
  call.force \/ call.requested = {} \/ DeploySafe(call.deps, call.requested \intersect Package)

Checked(from, ok, to) == IF ok THEN Advance(from, to) ELSE Fail(from)

\* The runner refuses before it prompts.
Select ==
  \/ Fail("select")                       \* the definition does not parse
  \/ Checked("select", ValidBundle /\ KnownNames /\ Allowed,
             IF call.prompt THEN "prompt" ELSE "deploy")

Prompt ==
  \/ Fail("prompt")
  \/ Advance("prompt", "deploy")
  \/ /\ Goto("prompt", "close") /\ Finish("declined", {})
     /\ UNCHANGED <<call, dirs, cluster, runVars>>

\* Deploy checks again, for callers that do not come through the command.
Deploy ==
  \/ Fail("deploy")                       \* defaults or definition unreadable
  \/ Checked("deploy", call.limit \in 1..MaxConcurrency /\ ValidBundle /\ Allowed, "plan")

\* DeployBundle, up to the first hook: levels and names.
Plan == Checked("plan", Acyclic(call.deps) /\ KnownNames, "hook")

\* BundleDeployHooks.PreDeploy: the configuration it leaves is the one used; a
\* missing one is refused, its values are not validated again.
PreDeploy ==
  \/ Fail("hook")
  \/ /\ Goto("hook", "run")
     /\ \E n \in HookLimits \union {order.limit} : order' = [order EXCEPT !.limit = n]
     /\ UNCHANGED <<call, dirs, cluster, outcome,
                    running, succeeded, failed, cancelled, verdict>>

----------------------------------------------------------------------------
(* deployOrchestrator.Run. *)

StartPackage(p) ==
  /\ stage = "run" /\ Run!Start(p)
  /\ UNCHANGED <<call, stage, dirs, cluster, outcome>>

\* A deployment that fails may have reached the cluster.
FinishPackage(p) ==
  /\ stage = "run" /\ Run!Finish(p)
  /\ cluster' \in {cluster, cluster \union {p}}
  /\ p \in succeeded' => p \in cluster'
  /\ UNCHANGED <<call, stage, dirs, outcome>>

\* Faulty variant: the error of Run is dropped.
ReturnUnchecked ==
  /\ Run!Return /\ Goto("run", "post")
  /\ UNCHANGED <<call, dirs, cluster, outcome>>

\* An error of Run is returned without a result, whatever was deployed.
ReturnFromRun ==
  /\ Run!Return
  /\ IF verdict'.kind = "ok"
     THEN Goto("run", "post") /\ UNCHANGED outcome
     ELSE Goto("run", "close") /\ Finish("error", {})
  /\ UNCHANGED <<call, dirs, cluster>>

\* PostDeploy and the result: if the hook fails the packages are listed all the
\* same, next to the error.
PostDeploy ==
  /\ Goto("post", "close")
  /\ \E kind \in {"ok", "posthook"} : Finish(kind, succeeded)
  /\ UNCHANGED <<call, dirs, cluster, runVars>>

\* The deferred Close of the source and removal of the pulled artifact.
Close ==
  /\ Goto("close", "done")
  /\ workspaces' = workspaces \ deferred
  /\ UNCHANGED <<call, deferred, cluster, outcome, runVars>>

----------------------------------------------------------------------------
Terminating == stage = "done" /\ UNCHANGED vars

Step ==
  \/ Pull \/ Pulled \/ Prepare \/ Unpack
  \/ Select \/ Prompt \/ Deploy \/ Plan \/ PreDeploy
  \/ \E p \in Package : StartPackage(p) \/ FinishPackage(p)
  \/ ReturnFromRun \/ PostDeploy \/ Close

Next == Interrupt \/ Step \/ Terminating

\* The chain is one sequential call; hooks, prompts and package deployments
\* return, and Run makes progress (DeployContract, implemented and proved live
\* for DeployOrchestrator by TLC).
Spec == Init /\ [][Next]_vars /\ WF_vars(Step)

----------------------------------------------------------------------------
TypeOK ==
  /\ CallType(call)
  /\ stage \in {"pull", "pulling", "prepare", "extract", "values", "read", "parse",
                "relate", "defaults", "select", "prompt", "deploy", "plan",
                "hook", "run", "post", "close", "done"}
  /\ workspaces \subseteq {"pull", "extract"} /\ deferred \subseteq {"pull", "extract"}
  /\ order.selected \subseteq Package /\ order.limit \in Nat
  /\ cluster \subseteq Package
  /\ outcome.kind \in {"none", "error", "declined", "ok", "posthook"}
  /\ outcome.listed \subseteq Package

Contract == INSTANCE ClusterContract WITH deps <- call.deps

\* Without --force no package reaches the cluster without everything it depends
\* on, at any moment: not while packages run side by side, not when one fails, not
\* with a partial selection, not after a cancellation.
DeploysDependenciesFirst ==
  [][~call.force => Contract!Next \/ UNCHANGED cluster]_vars

\* What the caller is told matches the cluster: a listed result is the whole
\* selection and all of it is deployed; a declined prompt leaves it alone; an
\* error over a changed cluster has a failure or a cancellation behind it.
ResultTellsTruth ==
  /\ TypeOK
  /\ outcome.kind \in {"ok", "posthook"} =>
       outcome.listed = Selected /\ Selected \subseteq cluster
  /\ outcome.kind = "declined" => cluster = call.found
  /\ outcome.kind = "error" /\ cluster # call.found => failed # {} \/ cancelled

\* The unpacked artifact is there as long as packages are loaded from it, and
\* gone, like the pulled one, when the call is over, wherever it failed: also
\* where the directory is there and its removal is not deferred yet.
WorkspacesReclaimed ==
  /\ stage = "run" /\ call.source \in {"oci", "artifact"} => "extract" \in workspaces
  /\ stage = "done" => workspaces = {}
=============================================================================
