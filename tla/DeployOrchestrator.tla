-------------------------- MODULE DeployOrchestrator --------------------------
(***************************************************************************)
(* deployOrchestrator.Run (internal/zarf/deploy_orchestrator.go): a        *)
(* scheduler walks the levels of the plan; within a level one goroutine    *)
(* per package runs under an errgroup with a concurrency limit; the next   *)
(* level starts when the group has drained without an error.               *)
(*                                                                         *)
(* sched is the program counter of Run, task[p] that of the goroutine of   *)
(* package p.  Every read of a context or of the accumulator, and every    *)
(* write to shared state, is a step of its own, so a cancellation or a     *)
(* sibling's failure can fall between any two of them.                     *)
(*                                                                         *)
(*   task    idle -> queued -> cleared -> deploying -> succeeded -> listed *)
(*                     |                      |                       |    *)
(*                     v                      v                       v    *)
(*                  skipped ------------> unwinding ------------->  ended  *)
(*                                            ^                            *)
(*           deploying -> failed -> added ----+                            *)
(***************************************************************************)
EXTENDS Naturals, Sequences, FiniteSets

CONSTANTS
  Package,      \* the packages a bundle can name
  Concurrency,  \* Options.Concurrency, validated to be at least 1
  Plans         \* the plans to run: [deps, levels]

Elements(s) == {s[i] : i \in DOMAIN s}

\* What TopologicalLevels and FilterLevels guarantee of the levels they return
\* (DependencyGraph): every package at one place, after what it depends on.
WellFormed(pl) ==
  /\ pl.deps \in [Package -> SUBSET Package]
  /\ pl.levels \in Seq(Seq(Package))
  /\ pl.levels # <<>>
  /\ \A i, k \in DOMAIN pl.levels :
       \A j \in DOMAIN pl.levels[i], l \in DOMAIN pl.levels[k] :
         /\ pl.levels[i][j] = pl.levels[k][l] => i = k /\ j = l
         /\ pl.levels[k][l] \in pl.deps[pl.levels[i][j]] => k < i

ASSUME DeployAssumption ==
  /\ IsFiniteSet(Package)
  /\ Concurrency \in Nat \ {0}
  /\ \A pl \in Plans : WellFormed(pl)

VARIABLES
  plan,           \* the plan being run; never changes
  sched,          \* program counter of Run
  lvl,            \* the current level
  nxt,            \* index in the level of the next package to admit
  ctxErr,         \* ctx.Err() # nil: the caller cancelled
  groupCancelled, \* the errgroup cancelled its derived context gctx
  task,           \* program counter of each package's goroutine
  levelErrs,      \* the accumulator of the level: packages with an error in it
  deployed,       \* o.deployed
  result,         \* what Run returned: none, ok, failed, cancelled
  cluster,        \* packages with a deployment on the cluster
  failures        \* history: packages whose DeployPackage returned an error

groupVars  == <<groupCancelled, levelErrs>>
worldVars  == <<cluster, failures>>
vars == <<plan, sched, lvl, nxt, ctxErr, groupCancelled, task, levelErrs,
          deployed, result, cluster, failures>>

Level == plan.levels[lvl]

Selected == UNION {Elements(plan.levels[i]) : i \in DOMAIN plan.levels}

\* gctx.Err() # nil: the group's context ends with its parent.
GctxErr == ctxErr \/ groupCancelled

\* The packages whose goroutine occupies a slot of the errgroup's semaphore.
Holding == {p \in Package : task[p] \notin {"idle", "ended"}}

Deploying == {p \in Package : task[p] = "deploying"}

----------------------------------------------------------------------------
Init ==
  /\ plan \in Plans
  /\ sched = "boundary" /\ lvl = 1 /\ nxt = 1
  /\ ctxErr \in BOOLEAN
  /\ groupCancelled = FALSE
  /\ task = [p \in Package |-> "idle"]
  /\ levelErrs = {} /\ deployed = {}
  /\ result = "none"
  /\ cluster = {} /\ failures = {}

\* The caller cancels ctx (Ctrl+C) at any moment.
Interrupt ==
  /\ result = "none" /\ ~ctxErr
  /\ ctxErr' = TRUE
  /\ UNCHANGED <<plan, sched, lvl, nxt, groupVars, task, deployed, result, worldVars>>

----------------------------------------------------------------------------
(* The scheduler. *)

Return(r) == sched' = "returned" /\ result' = r

\* Head of the loop over the levels: honour a cancellation, then set up a fresh
\* errgroup and accumulator.
LevelBoundary ==
  /\ sched = "boundary"
  /\ IF lvl > Len(plan.levels)
     THEN Return("ok") /\ UNCHANGED <<nxt, groupVars>>
     ELSE IF ctxErr
     THEN Return("cancelled") /\ UNCHANGED <<nxt, groupVars>>
     ELSE /\ sched' = "admit" /\ nxt' = 1
          /\ groupCancelled' = FALSE /\ levelErrs' = {}
          /\ UNCHANGED result
  /\ UNCHANGED <<plan, lvl, ctxErr, task, deployed, worldVars>>

\* Head of the admission loop: leave it when the level is through or gctx has
\* ended, otherwise call g.Go.
AdmitNext ==
  /\ sched = "admit"
  /\ sched' = IF nxt > Len(Level) \/ GctxErr THEN "wait" ELSE "slot"
  /\ UNCHANGED <<plan, lvl, nxt, ctxErr, groupVars, task, deployed, result, worldVars>>

\* g.Go blocks for a slot, then starts the goroutine.
TakeSlot ==
  /\ sched = "slot"
  /\ Cardinality(Holding) < Concurrency
  /\ task' = [task EXCEPT ![Level[nxt]] = "queued"]
  /\ nxt' = nxt + 1 /\ sched' = "admit"
  /\ UNCHANGED <<plan, lvl, ctxErr, groupVars, deployed, result, worldVars>>

\* Faulty variant: the level is left while deploys are in flight.
DrainNot ==
  /\ sched = "wait"
  /\ sched' = "collect"
  /\ UNCHANGED <<plan, lvl, nxt, ctxErr, groupVars, task, deployed, result, worldVars>>

\* g.Wait returns once every goroutine of the level has released its slot.
Drain ==
  /\ sched = "wait" /\ Holding = {}
  /\ sched' = "collect"
  /\ UNCHANGED <<plan, lvl, nxt, ctxErr, groupVars, task, deployed, result, worldVars>>

\* Faulty variant: a level with an error is treated as complete.
CollectNothing ==
  /\ sched = "collect"
  /\ sched' = "recheck" /\ UNCHANGED result
  /\ UNCHANGED <<plan, lvl, nxt, ctxErr, groupVars, task, deployed, worldVars>>

\* levelErrs.Err(): the joined failures of the level end the run.
Collect ==
  /\ sched = "collect"
  /\ IF levelErrs # {}
     THEN Return("failed")
     ELSE sched' = "recheck" /\ UNCHANGED result
  /\ UNCHANGED <<plan, lvl, nxt, ctxErr, groupVars, task, deployed, worldVars>>

\* Faulty variant: no look at ctx after the level.
RecheckBlind ==
  /\ sched = "recheck"
  /\ lvl' = lvl + 1 /\ sched' = "boundary" /\ UNCHANGED result
  /\ UNCHANGED <<plan, nxt, ctxErr, groupVars, task, deployed, worldVars>>

\* ctx.Err() after the level: admission may have stopped because of it.
Recheck ==
  /\ sched = "recheck"
  /\ IF ctxErr
     THEN Return("cancelled") /\ UNCHANGED lvl
     ELSE lvl' = lvl + 1 /\ sched' = "boundary" /\ UNCHANGED result
  /\ UNCHANGED <<plan, nxt, ctxErr, groupVars, task, deployed, worldVars>>

Scheduler ==
  LevelBoundary \/ AdmitNext \/ TakeSlot \/ Drain \/ Collect \/ Recheck

----------------------------------------------------------------------------
(* The goroutine of package p. *)

Goto(p, from, to) == task[p] \in from /\ task' = [task EXCEPT ![p] = to]

\* Faulty variant: a queued package does not look at gctx again.
ClearUnchecked(p) ==
  /\ Goto(p, {"queued"}, "cleared")
  /\ UNCHANGED <<plan, sched, lvl, nxt, ctxErr, groupVars, deployed, result, worldVars>>

\* The re-check once the slot is held: a queued package whose sibling failed is
\* skipped, and that is no failure of its own.
Clear(p) ==
  /\ Goto(p, {"queued"}, IF GctxErr THEN "skipped" ELSE "cleared")
  /\ UNCHANGED <<plan, sched, lvl, nxt, ctxErr, groupVars, deployed, result, worldVars>>

BeginDeploy(p) ==
  /\ Goto(p, {"cleared"}, "deploying")
  /\ UNCHANGED <<plan, sched, lvl, nxt, ctxErr, groupVars, deployed, result, worldVars>>

DeploySucceeds(p) ==
  /\ Goto(p, {"deploying"}, "succeeded")
  /\ cluster' = cluster \union {p}
  /\ UNCHANGED <<plan, sched, lvl, nxt, ctxErr, groupVars, deployed, result, failures>>

\* DeployPackage returns an error; it may have reached the cluster before (a
\* failing PostDeploy hook, a failure part way through).
DeployFails(p) ==
  /\ Goto(p, {"deploying"}, "failed")
  /\ cluster' \in {cluster, cluster \union {p}}
  /\ failures' = failures \union {p}
  /\ UNCHANGED <<plan, sched, lvl, nxt, ctxErr, groupVars, deployed, result>>

\* Faulty variant: the accumulator keeps the first error only.
RecordFirstError(p) ==
  /\ Goto(p, {"failed"}, "added")
  /\ levelErrs' = IF levelErrs = {} THEN {p} ELSE levelErrs
  /\ UNCHANGED <<plan, sched, lvl, nxt, ctxErr, groupCancelled, deployed, result, worldVars>>

\* levelErrs.Add, before the error is returned to the group.
RecordError(p) ==
  /\ Goto(p, {"failed"}, "added")
  /\ levelErrs' = levelErrs \union {p}
  /\ UNCHANGED <<plan, sched, lvl, nxt, ctxErr, groupCancelled, deployed, result, worldVars>>

RecordDeployed(p) ==
  /\ Goto(p, {"succeeded"}, "listed")
  /\ deployed' = deployed \union {p}
  /\ UNCHANGED <<plan, sched, lvl, nxt, ctxErr, groupVars, result, worldVars>>

\* Faulty variant: a failing goroutine leaves without giving its slot back.
ReleaseListedOnly(p) ==
  /\ Goto(p, {"listed"}, "ended")
  /\ UNCHANGED <<plan, sched, lvl, nxt, ctxErr, groupVars, deployed, result, worldVars>>

\* The errgroup cancels gctx on an error return, and only then frees the slot.
CancelGroup(p) ==
  /\ Goto(p, {"added", "skipped"}, "unwinding")
  /\ groupCancelled' = TRUE
  /\ UNCHANGED <<plan, sched, lvl, nxt, ctxErr, levelErrs, deployed, result, worldVars>>

ReleaseSlot(p) ==
  /\ Goto(p, {"unwinding", "listed"}, "ended")
  /\ UNCHANGED <<plan, sched, lvl, nxt, ctxErr, groupVars, deployed, result, worldVars>>

Goroutine(p) ==
  \/ Clear(p) \/ BeginDeploy(p)
  \/ DeploySucceeds(p) \/ DeployFails(p)
  \/ RecordError(p) \/ RecordDeployed(p)
  \/ CancelGroup(p) \/ ReleaseSlot(p)

----------------------------------------------------------------------------
Terminating == sched = "returned" /\ UNCHANGED vars

Next ==
  \/ Interrupt
  \/ Scheduler
  \/ \E p \in Package : Goroutine(p)
  \/ Terminating

\* Run and its goroutines are scheduled by the Go runtime, and every
\* DeployPackage call returns (Zarf bounds its waits with timeouts).
Fairness ==
  /\ WF_vars(Scheduler)
  /\ \A p \in Package : WF_vars(Goroutine(p))

Spec == Init /\ [][Next]_vars /\ Fairness

----------------------------------------------------------------------------
SchedState == {"boundary", "admit", "slot", "wait", "collect", "recheck", "returned"}

TaskState == {"idle", "queued", "cleared", "deploying", "succeeded", "listed",
              "failed", "added", "skipped", "unwinding", "ended"}

TypeOK ==
  /\ WellFormed(plan)
  /\ sched \in SchedState
  /\ lvl \in 1..(Len(plan.levels) + 1)
  /\ sched \notin {"boundary", "returned"} => lvl \in DOMAIN plan.levels
  /\ nxt \in Nat \ {0}
  /\ sched = "slot" => nxt \in DOMAIN Level
  /\ ctxErr \in BOOLEAN /\ groupCancelled \in BOOLEAN
  /\ task \in [Package -> TaskState]
  /\ levelErrs \subseteq Package /\ deployed \subseteq Package
  /\ cluster \subseteq Package /\ failures \subseteq Package
  /\ result \in {"none", "ok", "failed", "cancelled"}

\* No package is touched before everything in an earlier level, hence every
\* selected package it depends on, is deployed: Run's "level N+1 only starts
\* after level N finishes".
LevelBarrier ==
  \A i, k \in DOMAIN plan.levels : k < i =>
    \A p \in Elements(plan.levels[i]), d \in Elements(plan.levels[k]) :
      task[p] # "idle" => d \in deployed

\* The point of the barrier: a package starts only on top of the selected
\* packages it depends on.
DependencyOrder ==
  \A p \in Package : \A d \in plan.deps[p] \intersect Selected :
    task[p] # "idle" => d \in deployed

\* errgroup's limit: no more than Concurrency deploys at once, however
\* completions and admissions interleave.
BoundedParallelism == Cardinality(Deploying) <= Concurrency

\* Run returns with no goroutine left behind, whichever way it returns.
NoStragglers == sched = "returned" => Holding = {}

\* Every per-package failure of the run is in the returned error, and a package
\* that was merely skipped is not.
AllFailuresReported ==
  sched = "returned" =>
    /\ (result = "failed") <=> (failures # {})
    /\ result = "failed" => levelErrs = failures

\* Success means that every selected package is deployed: neither a
\* cancellation nor an early end of admission can pass for it.
SuccessIsComplete ==
  result = "ok" => deployed = Selected /\ Selected \subseteq cluster

\* After a failure has ended gctx no further package passes the re-check: only
\* deploys already cleared run to their end.
NoLateDeploy ==
  [][\A p \in Package :
       groupCancelled /\ groupCancelled' /\ task[p] \in {"idle", "queued"}
         => task'[p] \notin {"cleared", "deploying"}]_vars

\* Run returns.
Terminates == <>(sched = "returned")

----------------------------------------------------------------------------
\* Run keeps the promise made to the callers of DeployBundle.
Contract == INSTANCE DeployContract WITH
  order     <- [deps |-> plan.deps, selected |-> Selected, limit |-> Concurrency],
  running   <- Deploying,
  succeeded <- deployed \union {p \in Package : task[p] = "succeeded"},
  failed    <- failures,
  cancelled <- ctxErr,
  verdict   <- [kind |-> result,
                failures |-> IF result = "failed" THEN levelErrs ELSE {}]

RefinesContract == Contract!Spec
=============================================================================
