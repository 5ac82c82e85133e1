----------------------- MODULE DeployOrchestratorProofs -----------------------
(***************************************************************************)
(* Proofs about DeployOrchestrator, for every finite set of packages, every*)
(* concurrency limit and every set of well-formed plans.                   *)
(***************************************************************************)
EXTENDS DeployOrchestrator, FiniteSetTheorems, TLAPS

\* p sits at index j of level i of the plan.
At(p, i, j) ==
  i \in DOMAIN plan.levels /\ j \in DOMAIN plan.levels[i] /\ plan.levels[i][j] = p

\* Only packages the scheduler has passed are out of "idle".
Placed ==
  \A p \in Package : task[p] # "idle" =>
    \E i, j \in Nat : At(p, i, j) /\ (i < lvl \/ (i = lvl /\ j < nxt /\ sched # "boundary"))

\* Conversely, every package the scheduler has passed has a goroutine.
Passed ==
  \A p \in Package : \A j \in Nat :
    At(p, lvl, j) /\ j < nxt /\ sched \notin {"boundary", "returned"} => task[p] # "idle"

\* Levels behind the scheduler are complete.
EarlierDeployed ==
  \A p \in Package : \A i, j \in Nat :
    At(p, i, j) /\ i < lvl => task[p] = "ended" /\ p \in deployed

\* Outside the admission loop and g.Wait no goroutine is alive.
Quiet ==
  sched \in {"boundary", "collect", "recheck", "returned"} =>
    \A p \in Package : task[p] \in {"idle", "ended"}

\* Admission stops early only for an ended gctx.
Admitted ==
  sched \in {"wait", "collect", "recheck"} => nxt > Len(Level) \/ GctxErr

\* gctx ends only for a recorded error or a cancelled parent, and no package
\* leaves without a deployment otherwise.
Excused == levelErrs # {} \/ ctxErr

Causes ==
  /\ groupCancelled => Excused
  /\ \A p \in Package :
       /\ task[p] = "added" => p \in levelErrs
       /\ task[p] = "skipped" => Excused
       /\ task[p] \in {"unwinding", "ended"} => p \in deployed \/ Excused

\* The records agree with the goroutines and with the cluster.
Records ==
  /\ failures = levelErrs \union {p \in Package : task[p] = "failed"}
  /\ \A p \in failures : task[p] \in {"failed", "added", "unwinding", "ended"}
  /\ \A p \in Package : task[p] \in {"succeeded", "listed"} => p \in cluster
  /\ \A p \in Package : task[p] = "listed" => p \in deployed
  /\ \A p \in deployed : task[p] \in {"listed", "ended"} /\ p \in cluster
  /\ sched \in {"boundary", "recheck"} => levelErrs = {}

\* The value returned is the one its program point allows.
Verdict ==
  /\ (sched = "returned") <=> (result # "none")
  /\ result = "ok" => lvl = Len(plan.levels) + 1
  /\ result = "failed" <=> (sched = "returned" /\ levelErrs # {})

SlotBound == Cardinality(Holding) <= Concurrency

Inv ==
  /\ TypeOK /\ Placed /\ Passed /\ EarlierDeployed /\ Quiet /\ Admitted
  /\ Causes /\ Records /\ Verdict

----------------------------------------------------------------------------
LEMMA PlanFacts ==
  ASSUME WellFormed(plan)
  PROVE  /\ Len(plan.levels) \in Nat
         /\ DOMAIN plan.levels = 1..Len(plan.levels)
         /\ plan.levels # <<>>
         /\ Len(plan.levels) >= 1
         /\ \A i \in DOMAIN plan.levels :
              /\ plan.levels[i] \in Seq(Package)
              /\ Len(plan.levels[i]) \in Nat
              /\ DOMAIN plan.levels[i] = 1..Len(plan.levels[i])
              /\ \A j \in DOMAIN plan.levels[i] : plan.levels[i][j] \in Package
BY DEF WellFormed

LEMMA InitInv == Init => Inv
<1> SUFFICES ASSUME Init PROVE Inv
  OBVIOUS
<1>1. WellFormed(plan)
  BY DeployAssumption DEF Init
<1>2. Len(plan.levels) \in Nat /\ Len(plan.levels) >= 1
  BY <1>1, PlanFacts
<1>3. TypeOK
  <2>1. task \in [Package -> TaskState]
    BY DEF Init, TaskState
  <2>2. lvl \in 1..(Len(plan.levels) + 1)
    BY <1>2 DEF Init
  <2>3. sched \in SchedState /\ sched = "boundary"
    BY DEF Init, SchedState
  <2>4. nxt \in Nat \ {0}
    BY DEF Init
  <2>6. ctxErr \in BOOLEAN /\ groupCancelled \in BOOLEAN
    BY Zenon DEF Init
  <2>5. levelErrs = {} /\ deployed = {} /\ cluster = {} /\ failures = {} /\ result = "none"
    BY DEF Init
  <2> QED
    BY <1>1, <2>1, <2>2, <2>3, <2>4, <2>5, <2>6 DEF TypeOK
<1> QED
  BY <1>1, <1>2, <1>3
  DEF Init, Inv, Placed, Passed, EarlierDeployed, Quiet, Admitted, Causes, Excused,
      Records, Verdict, At
----------------------------------------------------------------------------
(* Type correctness. *)

\* The two flags take truth values only.
LEMMA FlagsStep ==
  ASSUME TypeOK, [Next]_vars
  PROVE  ctxErr' \in BOOLEAN /\ groupCancelled' \in BOOLEAN
<1> ctxErr \in BOOLEAN /\ groupCancelled \in BOOLEAN
  BY DEF TypeOK
<1>1. CASE Interrupt
  BY <1>1, Zenon DEF Interrupt, groupVars
<1>2. CASE Scheduler
  BY <1>2, Zenon DEF Scheduler, LevelBoundary, AdmitNext, TakeSlot, Drain, Collect, Recheck,
                     groupVars
<1>3. ASSUME NEW p \in Package, Goroutine(p)
      PROVE  ctxErr' \in BOOLEAN /\ groupCancelled' \in BOOLEAN
  BY <1>3, Zenon DEF Goroutine, Clear, BeginDeploy, DeploySucceeds, DeployFails, RecordError,
                     RecordDeployed, CancelGroup, ReleaseSlot, groupVars
<1>4. CASE UNCHANGED vars
  BY <1>4, Zenon DEF vars
<1> QED
  BY <1>1, <1>2, <1>3, <1>4 DEF Next, Terminating

LEMMA TypeStep ==
  ASSUME TypeOK, [Next]_vars
  PROVE  TypeOK'
<1> /\ WellFormed(plan) /\ sched \in SchedState /\ nxt \in Nat \ {0}
    /\ lvl \in 1..(Len(plan.levels) + 1)
    /\ sched \notin {"boundary", "returned"} => lvl \in DOMAIN plan.levels
    /\ sched = "slot" => nxt \in DOMAIN Level
    /\ task \in [Package -> TaskState]
    /\ levelErrs \subseteq Package /\ deployed \subseteq Package
    /\ cluster \subseteq Package /\ failures \subseteq Package
    /\ result \in {"none", "ok", "failed", "cancelled"}
  BY DEF TypeOK
<1> DEFINE Core ==
      /\ WellFormed(plan) /\ sched \in SchedState /\ nxt \in Nat \ {0}
      /\ lvl \in 1..(Len(plan.levels) + 1)
      /\ sched \notin {"boundary", "returned"} => lvl \in DOMAIN plan.levels
      /\ sched = "slot" => nxt \in DOMAIN Level
      /\ task \in [Package -> TaskState]
      /\ levelErrs \subseteq Package /\ deployed \subseteq Package
      /\ cluster \subseteq Package /\ failures \subseteq Package
      /\ result \in {"none", "ok", "failed", "cancelled"}
<1> USE PlanFacts DEF SchedState, TaskState, groupVars, worldVars, Level
<1>1. ASSUME Interrupt PROVE Core'
  BY <1>1 DEF Interrupt
<1>2. ASSUME LevelBoundary PROVE Core'
  BY <1>2 DEF LevelBoundary, Return
<1>3. ASSUME AdmitNext PROVE Core'
  BY <1>3 DEF AdmitNext
<1>4. ASSUME TakeSlot PROVE Core'
  BY <1>4 DEF TakeSlot
<1>5. ASSUME Drain PROVE Core'
  BY <1>5 DEF Drain
<1>6. ASSUME Collect PROVE Core'
  BY <1>6 DEF Collect, Return
<1>7. ASSUME Recheck PROVE Core'
  BY <1>7 DEF Recheck, Return
<1>8. ASSUME NEW p \in Package, Goroutine(p) PROVE Core'
  BY <1>8 DEF Goroutine, Clear, BeginDeploy, DeploySucceeds, DeployFails, RecordError,
              RecordDeployed, CancelGroup, ReleaseSlot, Goto
<1>9. ASSUME UNCHANGED vars PROVE Core'
  BY <1>9 DEF vars
<1>10. Core'
  BY <1>1, <1>2, <1>3, <1>4, <1>5, <1>6, <1>7, <1>8, <1>9 DEF Next, Scheduler, Terminating
<1> QED
  BY <1>10, FlagsStep DEF TypeOK

----------------------------------------------------------------------------
(* The inductive invariant. *)

\* A package has one place in the plan.
LEMMA OnePlace ==
  ASSUME WellFormed(plan),
         NEW p, NEW i, NEW j, NEW k, NEW l, At(p, i, j), At(p, k, l)
  PROVE  i = k /\ j = l
BY DEF At, WellFormed

\* The package the scheduler admits next has no goroutine yet.
LEMMA NextIsIdle ==
  ASSUME Inv, sched = "slot"
  PROVE  Level[nxt] \in Package /\ At(Level[nxt], lvl, nxt) /\ task[Level[nxt]] = "idle"
<1>1. WellFormed(plan) /\ lvl \in DOMAIN plan.levels /\ nxt \in DOMAIN Level
  BY DEF Inv, TypeOK
<1>2. Level[nxt] \in Package /\ At(Level[nxt], lvl, nxt)
  BY <1>1, PlanFacts DEF At, Level
<1>3. lvl \in Nat /\ nxt \in Nat
  BY DEF Inv, TypeOK
<1>4. SUFFICES ASSUME task[Level[nxt]] # "idle" PROVE FALSE
  BY <1>2
<1>5. PICK i, j \in Nat : At(Level[nxt], i, j) /\ (i < lvl \/ (i = lvl /\ j < nxt))
  BY <1>2, <1>4 DEF Inv, Placed
<1>6. i = lvl /\ j = nxt
  BY <1>1, <1>2, <1>5, OnePlace
<1> QED
  BY <1>3, <1>5, <1>6

LEMMA PlacedStep ==
  ASSUME Inv, [Next]_vars
  PROVE  Placed'
<1> WellFormed(plan) /\ lvl \in Nat /\ nxt \in Nat /\ sched \in SchedState
    /\ task \in [Package -> TaskState] /\ Placed
  BY DEF Inv, TypeOK
<1> USE DEF Placed, At, Level, groupVars, worldVars, SchedState
<1>1. ASSUME Interrupt PROVE Placed'
  BY <1>1 DEF Interrupt
<1>2. ASSUME LevelBoundary PROVE Placed'
  BY <1>2 DEF LevelBoundary, Return
<1>3. ASSUME AdmitNext PROVE Placed'
  BY <1>3 DEF AdmitNext
<1>4. ASSUME TakeSlot PROVE Placed'
  <2>1. /\ sched = "slot" /\ sched' = "admit" /\ lvl' = lvl /\ nxt' = nxt + 1 /\ plan' = plan
        /\ task' = [task EXCEPT ![Level[nxt]] = "queued"]
    BY <1>4 DEF TakeSlot
  <2>2. Level[nxt] \in Package /\ At(Level[nxt], lvl, nxt)
    BY <2>1, NextIsIdle
  <2>3. SUFFICES ASSUME NEW p \in Package, task'[p] # "idle"
                 PROVE  \E i, j \in Nat : At(p, i, j) /\ (i < lvl \/ (i = lvl /\ j < nxt + 1))
    BY <2>1
  <2>4. CASE p = Level[nxt]
    BY <2>2, <2>4
  <2>5. CASE p # Level[nxt]
    <3>1. task[p] # "idle"
      BY <2>1, <2>3, <2>5
    <3>2. PICK i, j \in Nat : At(p, i, j) /\ (i < lvl \/ (i = lvl /\ j < nxt))
      BY <3>1
    <3> QED
      BY <3>2
  <2> QED
    BY <2>4, <2>5
<1>5. ASSUME Drain PROVE Placed'
  BY <1>5 DEF Drain
<1>6. ASSUME Collect PROVE Placed'
  BY <1>6 DEF Collect, Return
<1>7. ASSUME Recheck PROVE Placed'
  BY <1>7 DEF Recheck, Return
<1>8. ASSUME NEW p \in Package, Goroutine(p) PROVE Placed'
  BY <1>8 DEF Goroutine, Clear, BeginDeploy, DeploySucceeds, DeployFails, RecordError,
              RecordDeployed, CancelGroup, ReleaseSlot, Goto
<1>9. ASSUME UNCHANGED vars PROVE Placed'
  BY <1>9 DEF vars
<1> QED
  BY <1>1, <1>2, <1>3, <1>4, <1>5, <1>6, <1>7, <1>8, <1>9 DEF Next, Scheduler, Terminating

LEMMA PassedStep ==
  ASSUME Inv, [Next]_vars
  PROVE  Passed'
<1> WellFormed(plan) /\ lvl \in Nat /\ nxt \in Nat /\ sched \in SchedState
    /\ task \in [Package -> TaskState] /\ Passed
    /\ (sched \notin {"boundary", "returned"} => lvl \in DOMAIN plan.levels)
  BY DEF Inv, TypeOK
<1> USE DEF Passed, At, Level, groupVars, worldVars, SchedState
<1>1. ASSUME Interrupt PROVE Passed'
  BY <1>1 DEF Interrupt
<1>2. ASSUME LevelBoundary PROVE Passed'
  BY <1>2, PlanFacts DEF LevelBoundary, Return
<1>3. ASSUME AdmitNext PROVE Passed'
  BY <1>3 DEF AdmitNext
<1>4. ASSUME TakeSlot PROVE Passed'
  BY <1>4, NextIsIdle DEF TakeSlot
<1>5. ASSUME Drain PROVE Passed'
  BY <1>5 DEF Drain
<1>6. ASSUME Collect PROVE Passed'
  BY <1>6 DEF Collect, Return
<1>7. ASSUME Recheck PROVE Passed'
  BY <1>7 DEF Recheck, Return
<1>8. ASSUME NEW p \in Package, Goroutine(p) PROVE Passed'
  BY <1>8 DEF Goroutine, Clear, BeginDeploy, DeploySucceeds, DeployFails, RecordError,
              RecordDeployed, CancelGroup, ReleaseSlot, Goto
<1>9. ASSUME UNCHANGED vars PROVE Passed'
  BY <1>9 DEF vars
<1> QED
  BY <1>1, <1>2, <1>3, <1>4, <1>5, <1>6, <1>7, <1>8, <1>9 DEF Next, Scheduler, Terminating

LEMMA QuietStep ==
  ASSUME Inv, [Next]_vars
  PROVE  Quiet'
<1> /\ WellFormed(plan) /\ lvl \in Nat /\ nxt \in Nat /\ sched \in SchedState
    /\ task \in [Package -> TaskState]
    /\ sched \notin {"boundary", "returned"} => lvl \in DOMAIN plan.levels
    /\ Quiet
  BY DEF Inv, TypeOK
<1> USE DEF At, Level, groupVars, worldVars, SchedState, Quiet
<1>1. ASSUME Interrupt PROVE Quiet'
  BY <1>1 DEF Interrupt
<1>2. ASSUME LevelBoundary PROVE Quiet'
  BY <1>2 DEF LevelBoundary, Return
<1>3. ASSUME AdmitNext PROVE Quiet'
  BY <1>3 DEF AdmitNext
<1>4. ASSUME TakeSlot PROVE Quiet'
  BY <1>4 DEF TakeSlot
<1>5. ASSUME Drain PROVE Quiet'
  BY <1>5 DEF Drain, Holding, TaskState
<1>6. ASSUME Collect PROVE Quiet'
  BY <1>6 DEF Collect, Return
<1>7. ASSUME Recheck PROVE Quiet'
  BY <1>7 DEF Recheck, Return
<1>8. ASSUME NEW p \in Package, Goroutine(p) PROVE Quiet'
  BY <1>8 DEF Goroutine, Clear, BeginDeploy, DeploySucceeds, DeployFails, RecordError,
              RecordDeployed, CancelGroup, ReleaseSlot, Goto
<1>9. ASSUME UNCHANGED vars PROVE Quiet'
  BY <1>9 DEF vars
<1> QED
  BY <1>1, <1>2, <1>3, <1>4, <1>5, <1>6, <1>7, <1>8, <1>9 DEF Next, Scheduler, Terminating

LEMMA AdmittedStep ==
  ASSUME Inv, [Next]_vars
  PROVE  Admitted'
<1> /\ WellFormed(plan) /\ lvl \in Nat /\ nxt \in Nat /\ sched \in SchedState
    /\ task \in [Package -> TaskState]
    /\ sched \notin {"boundary", "returned"} => lvl \in DOMAIN plan.levels
    /\ Admitted
  BY DEF Inv, TypeOK
<1> USE DEF At, Level, groupVars, worldVars, SchedState, Admitted, GctxErr
<1>1. ASSUME Interrupt PROVE Admitted'
  BY <1>1 DEF Interrupt
<1>2. ASSUME LevelBoundary PROVE Admitted'
  BY <1>2 DEF LevelBoundary, Return
<1>3. ASSUME AdmitNext PROVE Admitted'
  BY <1>3 DEF AdmitNext
<1>4. ASSUME TakeSlot PROVE Admitted'
  BY <1>4 DEF TakeSlot
<1>5. ASSUME Drain PROVE Admitted'
  BY <1>5 DEF Drain
<1>6. ASSUME Collect PROVE Admitted'
  BY <1>6 DEF Collect, Return
<1>7. ASSUME Recheck PROVE Admitted'
  BY <1>7 DEF Recheck, Return
<1>8. ASSUME NEW p \in Package, Goroutine(p) PROVE Admitted'
  BY <1>8 DEF Goroutine, Clear, BeginDeploy, DeploySucceeds, DeployFails, RecordError,
              RecordDeployed, CancelGroup, ReleaseSlot, Goto
<1>9. ASSUME UNCHANGED vars PROVE Admitted'
  BY <1>9 DEF vars
<1> QED
  BY <1>1, <1>2, <1>3, <1>4, <1>5, <1>6, <1>7, <1>8, <1>9 DEF Next, Scheduler, Terminating

LEMMA EarlierDeployedStep ==
  ASSUME Inv, [Next]_vars
  PROVE  EarlierDeployed'
<1> /\ WellFormed(plan) /\ lvl \in Nat /\ nxt \in Nat /\ sched \in SchedState
    /\ task \in [Package -> TaskState]
    /\ sched \notin {"boundary", "returned"} => lvl \in DOMAIN plan.levels
    /\ EarlierDeployed
  BY DEF Inv, TypeOK
<1> USE DEF At, Level, groupVars, worldVars, SchedState, EarlierDeployed
<1>1. ASSUME Interrupt PROVE EarlierDeployed'
  BY <1>1 DEF Interrupt
<1>2. ASSUME LevelBoundary PROVE EarlierDeployed'
  BY <1>2 DEF LevelBoundary, Return
<1>3. ASSUME AdmitNext PROVE EarlierDeployed'
  BY <1>3 DEF AdmitNext
<1>4. ASSUME TakeSlot PROVE EarlierDeployed'
  BY <1>4, NextIsIdle DEF TakeSlot
<1>5. ASSUME Drain PROVE EarlierDeployed'
  BY <1>5 DEF Drain
<1>6. ASSUME Collect PROVE EarlierDeployed'
  BY <1>6 DEF Collect, Return
<1>7. ASSUME Recheck PROVE EarlierDeployed'
  <2>1. /\ sched = "recheck" /\ plan' = plan /\ task' = task /\ deployed' = deployed
        /\ lvl' = lvl \/ (~ctxErr /\ lvl' = lvl + 1)
    BY <1>7 DEF Recheck, Return
  <2>2. CASE lvl' = lvl
    BY <2>1, <2>2
  <2>3. CASE ~ctxErr /\ lvl' = lvl + 1
    <3>1. levelErrs = {} /\ ~groupCancelled /\ ~GctxErr
      BY <2>1, <2>3 DEF Inv, Records, Causes, Excused, GctxErr
    <3>2. nxt > Len(Level)
      BY <2>1, <3>1 DEF Inv, Admitted
    <3>3. SUFFICES ASSUME NEW p \in Package, NEW i \in Nat, NEW j \in Nat,
                          At(p, i, j), i < lvl + 1
                   PROVE  task[p] = "ended" /\ p \in deployed
      BY <2>1, <2>3
    <3>4. CASE i < lvl
      BY <3>3, <3>4
    <3>5. CASE i = lvl
      <4>1. j < nxt
        BY <3>2, <3>3, <3>5, PlanFacts
      <4>2. task[p] # "idle"
        BY <2>1, <3>3, <3>5, <4>1 DEF Inv, Passed
      <4>3. task[p] = "ended"
        BY <2>1, <4>2 DEF Inv, Quiet
      <4> QED
        BY <2>3, <3>1, <4>3 DEF Inv, Causes, Excused
    <3> QED
      BY <3>3, <3>4, <3>5
  <2> QED
    BY <2>1, <2>2, <2>3
<1>8. ASSUME NEW p \in Package, Goroutine(p) PROVE EarlierDeployed'
  BY <1>8 DEF Goroutine, Clear, BeginDeploy, DeploySucceeds, DeployFails, RecordError,
              RecordDeployed, CancelGroup, ReleaseSlot, Goto
<1>9. ASSUME UNCHANGED vars PROVE EarlierDeployed'
  BY <1>9 DEF vars
<1> QED
  BY <1>1, <1>2, <1>3, <1>4, <1>5, <1>6, <1>7, <1>8, <1>9 DEF Next, Scheduler, Terminating

LEMMA CausesStep ==
  ASSUME Inv, [Next]_vars
  PROVE  Causes'
<1> /\ WellFormed(plan) /\ lvl \in Nat /\ nxt \in Nat /\ sched \in SchedState
    /\ task \in [Package -> TaskState]
    /\ sched \notin {"boundary", "returned"} => lvl \in DOMAIN plan.levels
    /\ Causes
    /\ Records
  BY DEF Inv, TypeOK
<1> USE DEF At, Level, groupVars, worldVars, SchedState, Causes, Excused, GctxErr, Records
<1>1. ASSUME Interrupt PROVE Causes'
  BY <1>1 DEF Interrupt
<1>2. ASSUME LevelBoundary PROVE Causes'
  <2>1. /\ sched = "boundary" /\ task' = task /\ deployed' = deployed /\ ctxErr' = ctxErr
    BY <1>2 DEF LevelBoundary
  <2>2. ASSUME NEW p \in Package, task[p] # "idle" PROVE task[p] = "ended" /\ p \in deployed
    <3>1. PICK i, j \in Nat : At(p, i, j) /\ i < lvl
      BY <2>1, <2>2 DEF Inv, Placed
    <3> QED
      BY <3>1 DEF Inv, EarlierDeployed
  <2> QED
    BY <1>2, <2>1, <2>2 DEF LevelBoundary, Return
<1>3. ASSUME AdmitNext PROVE Causes'
  BY <1>3 DEF AdmitNext
<1>4. ASSUME TakeSlot PROVE Causes'
  BY <1>4, NextIsIdle DEF TakeSlot
<1>5. ASSUME Drain PROVE Causes'
  BY <1>5 DEF Drain
<1>6. ASSUME Collect PROVE Causes'
  BY <1>6 DEF Collect, Return
<1>7. ASSUME Recheck PROVE Causes'
  BY <1>7 DEF Recheck, Return
<1>8. ASSUME NEW p \in Package, Goroutine(p) PROVE Causes'
  <2>1. ASSUME Clear(p) PROVE Causes'
    BY <2>1 DEF Clear, Goto
  <2>2. ASSUME BeginDeploy(p) PROVE Causes'
    BY <2>2 DEF BeginDeploy, Goto
  <2>3. ASSUME DeploySucceeds(p) PROVE Causes'
    BY <2>3 DEF DeploySucceeds, Goto
  <2>4. ASSUME DeployFails(p) PROVE Causes'
    BY <2>4 DEF DeployFails, Goto
  <2>5. ASSUME RecordError(p) PROVE Causes'
    BY <2>5 DEF RecordError, Goto
  <2>6. ASSUME RecordDeployed(p) PROVE Causes'
    BY <2>6 DEF RecordDeployed, Goto
  <2>7. ASSUME CancelGroup(p) PROVE Causes'
    BY <2>7 DEF CancelGroup, Goto
  <2>8. ASSUME ReleaseSlot(p) PROVE Causes'
    BY <2>8 DEF ReleaseSlot, Goto
  <2> QED
    BY <1>8, <2>1, <2>2, <2>3, <2>4, <2>5, <2>6, <2>7, <2>8 DEF Goroutine
<1>9. ASSUME UNCHANGED vars PROVE Causes'
  BY <1>9 DEF vars
<1> QED
  BY <1>1, <1>2, <1>3, <1>4, <1>5, <1>6, <1>7, <1>8, <1>9 DEF Next, Scheduler, Terminating

LEMMA RecordsStep ==
  ASSUME Inv, [Next]_vars
  PROVE  Records'
<1> /\ WellFormed(plan) /\ lvl \in Nat /\ nxt \in Nat /\ sched \in SchedState
    /\ task \in [Package -> TaskState]
    /\ sched \notin {"boundary", "returned"} => lvl \in DOMAIN plan.levels
    /\ Records
    /\ Quiet
    /\ levelErrs \subseteq Package
  BY DEF Inv, TypeOK
<1> USE DEF At, Level, groupVars, worldVars, SchedState, Records, Quiet
<1>1. ASSUME Interrupt PROVE Records'
  BY <1>1 DEF Interrupt
<1>2. ASSUME LevelBoundary PROVE Records'
  BY <1>2 DEF LevelBoundary, Return
<1>3. ASSUME AdmitNext PROVE Records'
  BY <1>3 DEF AdmitNext
<1>4. ASSUME TakeSlot PROVE Records'
  BY <1>4, NextIsIdle DEF TakeSlot
<1>5. ASSUME Drain PROVE Records'
  BY <1>5 DEF Drain
<1>6. ASSUME Collect PROVE Records'
  BY <1>6 DEF Collect, Return
<1>7. ASSUME Recheck PROVE Records'
  BY <1>7 DEF Recheck, Return
<1>8. ASSUME NEW p \in Package, Goroutine(p) PROVE Records'
  <2>1. ASSUME Clear(p) PROVE Records'
    BY <2>1 DEF Clear, Goto
  <2>2. ASSUME BeginDeploy(p) PROVE Records'
    BY <2>2 DEF BeginDeploy, Goto
  <2>3. ASSUME DeploySucceeds(p) PROVE Records'
    BY <2>3 DEF DeploySucceeds, Goto
  <2>4. ASSUME DeployFails(p) PROVE Records'
    BY <2>4 DEF DeployFails, Goto
  <2>5. ASSUME RecordError(p) PROVE Records'
    BY <2>5 DEF RecordError, Goto
  <2>6. ASSUME RecordDeployed(p) PROVE Records'
    BY <2>6 DEF RecordDeployed, Goto
  <2>7. ASSUME CancelGroup(p) PROVE Records'
    BY <2>7 DEF CancelGroup, Goto
  <2>8. ASSUME ReleaseSlot(p) PROVE Records'
    BY <2>8 DEF ReleaseSlot, Goto
  <2> QED
    BY <1>8, <2>1, <2>2, <2>3, <2>4, <2>5, <2>6, <2>7, <2>8 DEF Goroutine
<1>9. ASSUME UNCHANGED vars PROVE Records'
  BY <1>9 DEF vars
<1> QED
  BY <1>1, <1>2, <1>3, <1>4, <1>5, <1>6, <1>7, <1>8, <1>9 DEF Next, Scheduler, Terminating

LEMMA VerdictStep ==
  ASSUME Inv, [Next]_vars
  PROVE  Verdict'
<1> /\ WellFormed(plan) /\ lvl \in Nat /\ nxt \in Nat /\ sched \in SchedState
    /\ task \in [Package -> TaskState]
    /\ sched \notin {"boundary", "returned"} => lvl \in DOMAIN plan.levels
    /\ Verdict
    /\ Quiet
    /\ lvl \in 1..(Len(plan.levels) + 1)
    /\ (sched = "boundary" => levelErrs = {})
    /\ (sched = "recheck" => levelErrs = {})
  BY DEF Inv, TypeOK, Records
<1> USE DEF At, Level, groupVars, worldVars, SchedState, Verdict, Quiet
<1>1. ASSUME Interrupt PROVE Verdict'
  BY <1>1 DEF Interrupt
<1>2. ASSUME LevelBoundary PROVE Verdict'
  BY <1>2, PlanFacts DEF LevelBoundary, Return
<1>3. ASSUME AdmitNext PROVE Verdict'
  BY <1>3 DEF AdmitNext
<1>4. ASSUME TakeSlot PROVE Verdict'
  BY <1>4 DEF TakeSlot
<1>5. ASSUME Drain PROVE Verdict'
  BY <1>5 DEF Drain
<1>6. ASSUME Collect PROVE Verdict'
  BY <1>6 DEF Collect, Return
<1>7. ASSUME Recheck PROVE Verdict'
  BY <1>7, PlanFacts DEF Recheck, Return
<1>8. ASSUME NEW p \in Package, Goroutine(p) PROVE Verdict'
  <2>1. ASSUME Clear(p) PROVE Verdict'
    BY <2>1 DEF Clear, Goto
  <2>2. ASSUME BeginDeploy(p) PROVE Verdict'
    BY <2>2 DEF BeginDeploy, Goto
  <2>3. ASSUME DeploySucceeds(p) PROVE Verdict'
    BY <2>3 DEF DeploySucceeds, Goto
  <2>4. ASSUME DeployFails(p) PROVE Verdict'
    BY <2>4 DEF DeployFails, Goto
  <2>5. ASSUME RecordError(p) PROVE Verdict'
    BY <2>5 DEF RecordError, Goto
  <2>6. ASSUME RecordDeployed(p) PROVE Verdict'
    BY <2>6 DEF RecordDeployed, Goto
  <2>7. ASSUME CancelGroup(p) PROVE Verdict'
    BY <2>7 DEF CancelGroup, Goto
  <2>8. ASSUME ReleaseSlot(p) PROVE Verdict'
    BY <2>8 DEF ReleaseSlot, Goto
  <2> QED
    BY <1>8, <2>1, <2>2, <2>3, <2>4, <2>5, <2>6, <2>7, <2>8 DEF Goroutine
<1>9. ASSUME UNCHANGED vars PROVE Verdict'
  BY <1>9 DEF vars
<1> QED
  BY <1>1, <1>2, <1>3, <1>4, <1>5, <1>6, <1>7, <1>8, <1>9 DEF Next, Scheduler, Terminating

LEMMA InvStep == Inv /\ [Next]_vars => Inv'
BY TypeStep, PlacedStep, PassedStep, EarlierDeployedStep, QuietStep, AdmittedStep,
   CausesStep, RecordsStep, VerdictStep DEF Inv

\* The invariant every theorem below rests on.
THEOREM Invariance == Spec => []Inv
<1>1. Init => Inv
  BY InitInv
<1>2. Inv /\ [Next]_vars => Inv'
  BY InvStep
<1> QED
  BY <1>1, <1>2, PTL DEF Spec

----------------------------------------------------------------------------
(* The safety properties. *)

\* Type correctness: in particular Run never indexes the levels, or a level,
\* out of range, whatever the plan.
THEOREM TypeCorrect == Spec => []TypeOK
<1>1. Inv => TypeOK
  BY DEF Inv
<1> QED
  BY <1>1, Invariance, PTL

\* What LevelBarrier and DependencyOrder have in common: a goroutine finds every
\* package of an earlier level deployed.
LEMMA StartedOnTop ==
  ASSUME Inv, NEW p \in Package, task[p] # "idle",
         NEW i, NEW j, At(p, i, j),
         NEW d \in Package, NEW k, NEW l, At(d, k, l), k < i
  PROVE  d \in deployed
<1>1. WellFormed(plan) /\ lvl \in Nat
  BY DEF Inv, TypeOK
<1>2. i \in Nat /\ k \in Nat /\ l \in Nat
  BY <1>1, PlanFacts DEF At
<1>3. PICK m, n \in Nat : At(p, m, n) /\ m <= lvl
  BY <1>1 DEF Inv, Placed
<1>4. m = i
  BY <1>1, <1>3, OnePlace
<1> QED
  BY <1>1, <1>2, <1>3, <1>4 DEF Inv, EarlierDeployed

\* "Level N+1 only starts after level N finishes" (deploy_orchestrator.go), for
\* every plan, limit, failure and cancellation.
THEOREM BarrierHolds == Spec => []LevelBarrier
<1>1. ASSUME Inv PROVE LevelBarrier
  <2>1. WellFormed(plan)
    BY <1>1 DEF Inv, TypeOK
  <2>2. SUFFICES ASSUME NEW i \in DOMAIN plan.levels, NEW k \in DOMAIN plan.levels, k < i,
                        NEW p \in Elements(plan.levels[i]), NEW d \in Elements(plan.levels[k]),
                        task[p] # "idle"
                 PROVE  d \in deployed
    BY DEF LevelBarrier
  <2>3. PICK j, l : /\ j \in DOMAIN plan.levels[i] /\ l \in DOMAIN plan.levels[k]
                    /\ p = plan.levels[i][j] /\ d = plan.levels[k][l]
    BY DEF Elements
  <2>4. p \in Package /\ d \in Package /\ At(p, i, j) /\ At(d, k, l)
    BY <2>1, <2>3, PlanFacts DEF At
  <2> QED
    BY <1>1, <2>2, <2>4, StartedOnTop
<1> QED
  BY <1>1, Invariance, PTL

LEMMA OrderFromInv == Inv => DependencyOrder
<1> SUFFICES ASSUME Inv, NEW p \in Package, NEW d \in plan.deps[p] \intersect Selected,
                    task[p] # "idle"
             PROVE  d \in deployed
  BY DEF DependencyOrder
<1>1. WellFormed(plan) /\ plan.deps \in [Package -> SUBSET Package]
  BY DEF Inv, TypeOK, WellFormed
<1>2. PICK k, l : At(d, k, l)
  BY DEF Selected, Elements, At
<1>3. PICK i, j \in Nat : At(p, i, j)
  BY DEF Inv, Placed
<1>4. k < i
  BY <1>1, <1>2, <1>3 DEF WellFormed, At
<1> QED
  BY <1>1, <1>2, <1>3, <1>4, StartedOnTop

\* A package starts only on top of the selected packages it depends on.
THEOREM OrderHolds == Spec => []DependencyOrder
BY OrderFromInv, Invariance, PTL

\* Whichever way Run returns, it leaves no goroutine behind.
THEOREM NoStragglersHolds == Spec => []NoStragglers
<1>1. Inv => NoStragglers
  BY DEF Inv, Quiet, NoStragglers, Holding
<1> QED
  BY <1>1, Invariance, PTL

\* The error Run returns holds every failure of the run and nothing else.
THEOREM ReportsAllFailures == Spec => []AllFailuresReported
<1>1. ASSUME Inv PROVE AllFailuresReported
  BY <1>1 DEF Inv, Quiet, Records, Verdict, AllFailuresReported
<1> QED
  BY <1>1, Invariance, PTL

\* Past the last level everything selected is deployed.
LEMMA CompleteAtEnd ==
  ASSUME Inv, lvl = Len(plan.levels) + 1
  PROVE  deployed = Selected
<1>1. WellFormed(plan) /\ deployed \subseteq Package
  BY DEF Inv, TypeOK
<1>2. ASSUME NEW p \in Selected PROVE p \in deployed
  <2>1. PICK i, j : At(p, i, j)
    BY <1>2 DEF Selected, Elements, At
  <2>2. p \in Package /\ i \in Nat /\ j \in Nat /\ i < lvl
    BY <1>1, <2>1, PlanFacts DEF At
  <2> QED
    BY <2>1, <2>2 DEF Inv, EarlierDeployed
<1>3. ASSUME NEW p \in deployed PROVE p \in Selected
  <2>1. p \in Package /\ task[p] # "idle"
    BY <1>1, <1>3 DEF Inv, Records
  <2>2. PICK i, j \in Nat : At(p, i, j)
    BY <2>1 DEF Inv, Placed
  <2> QED
    BY <2>2 DEF Selected, Elements, At
<1> QED
  BY <1>2, <1>3

\* A successful Run deployed every package of the plan.
THEOREM SuccessHolds == Spec => []SuccessIsComplete
<1>1. Inv => SuccessIsComplete
  BY CompleteAtEnd DEF Inv, Verdict, Records, SuccessIsComplete
<1> QED
  BY <1>1, Invariance, PTL

\* The limit of the errgroup holds between any admission and any completion.
LEMMA SlotStep == TypeOK /\ SlotBound /\ [Next]_vars => SlotBound'
<1> SUFFICES ASSUME TypeOK, SlotBound, [Next]_vars PROVE SlotBound'
  OBVIOUS
<1>1. task \in [Package -> TaskState] /\ Concurrency \in Nat
  BY DeployAssumption DEF TypeOK
<1>2. Holding \subseteq Package /\ IsFiniteSet(Holding) /\ Cardinality(Holding) \in Nat
  BY DeployAssumption, FS_Subset, FS_CardinalityType DEF Holding
<1>3. ASSUME TakeSlot PROVE SlotBound'
  <2>1. Holding' \subseteq Holding \union {Level[nxt]}
    BY <1>1, <1>3 DEF TakeSlot, Holding
  <2>2. /\ IsFiniteSet(Holding \union {Level[nxt]})
        /\ Cardinality(Holding \union {Level[nxt]}) <= Cardinality(Holding) + 1
    BY <1>2, FS_AddElement
  <2>3. Cardinality(Holding') <= Cardinality(Holding \union {Level[nxt]})
    BY <2>1, <2>2, FS_Subset
  <2>4. /\ Cardinality(Holding') \in Nat
        /\ Cardinality(Holding \union {Level[nxt]}) \in Nat
    BY <2>1, <2>2, FS_Subset, FS_CardinalityType
  <2>5. Cardinality(Holding) < Concurrency
    BY <1>3 DEF TakeSlot
  <2> QED
    BY <1>1, <1>2, <2>2, <2>3, <2>4, <2>5 DEF SlotBound
<1>4. ASSUME ~TakeSlot PROVE SlotBound'
  <2>1. Holding' \subseteq Holding
    <3>1. ASSUME NEW p \in Package, Goroutine(p) PROVE Holding' \subseteq Holding
      BY <1>1, <3>1 DEF Goroutine, Clear, BeginDeploy, DeploySucceeds, DeployFails, RecordError,
                        RecordDeployed, CancelGroup, ReleaseSlot, Goto, Holding
    <3>2. CASE task' = task
      BY <3>2 DEF Holding
    <3> QED
      BY <1>4, <3>1, <3>2 DEF Next, Interrupt, Scheduler, LevelBoundary, AdmitNext, Drain,
                              Collect, Recheck, Terminating, vars
  <2>2. Cardinality(Holding') <= Cardinality(Holding) /\ Cardinality(Holding') \in Nat
    BY <1>2, <2>1, FS_Subset, FS_CardinalityType
  <2> QED
    BY <1>1, <1>2, <2>2 DEF SlotBound
<1> QED
  BY <1>3, <1>4

LEMMA EmptyStart == Init => SlotBound
<1>1. ASSUME Init PROVE Holding = {}
  BY <1>1 DEF Init, Holding
<1> QED
  BY <1>1, FS_EmptySet, DeployAssumption DEF SlotBound

\* No more than Concurrency packages are deployed at once.
THEOREM ParallelismBounded == Spec => []BoundedParallelism
<1>1. Init => SlotBound
  BY EmptyStart
<1>2. SlotBound /\ TypeOK => BoundedParallelism
  <2> SUFFICES ASSUME SlotBound, TypeOK PROVE BoundedParallelism
    OBVIOUS
  <2>1. Deploying \subseteq Holding /\ IsFiniteSet(Holding)
    BY DeployAssumption, FS_Subset DEF Deploying, Holding
  <2>2. /\ Cardinality(Deploying) <= Cardinality(Holding)
        /\ Cardinality(Deploying) \in Nat /\ Cardinality(Holding) \in Nat
    BY <2>1, FS_Subset, FS_CardinalityType
  <2> QED
    BY <2>2, DeployAssumption DEF SlotBound, BoundedParallelism
<1> QED
  BY <1>1, <1>2, SlotStep, TypeCorrect, PTL DEF Spec

\* Once a failure has ended gctx, no package that was not cleared before is
\* deployed, however many wait for a slot.
THEOREM FailureStopsLevel == Spec => NoLateDeploy
<1> DEFINE Step == \A p \in Package :
         groupCancelled /\ groupCancelled' /\ task[p] \in {"idle", "queued"}
           => task'[p] \notin {"cleared", "deploying"}
<1>1. ASSUME TypeOK, [Next]_vars, NEW p \in Package,
             groupCancelled, task[p] \in {"idle", "queued"}
      PROVE  task'[p] \notin {"cleared", "deploying"}
  <2>1. task \in [Package -> TaskState]
    BY <1>1 DEF TypeOK
  <2>2. CASE TakeSlot
    BY <1>1, <2>1, <2>2 DEF TakeSlot
  <2>3. ASSUME NEW q \in Package, Goroutine(q)
        PROVE  task'[p] \notin {"cleared", "deploying"}
    BY <1>1, <2>1, <2>3 DEF Goroutine, Clear, BeginDeploy, DeploySucceeds, DeployFails,
                    RecordError, RecordDeployed, CancelGroup, ReleaseSlot, Goto, GctxErr
  <2>4. CASE task' = task
    BY <1>1, <2>4
  <2> QED
    BY <1>1, <2>2, <2>3, <2>4 DEF Next, Interrupt, Scheduler, LevelBoundary, AdmitNext, Drain,
                            Collect, Recheck, Terminating, vars
<1>2. TypeOK /\ [Next]_vars => [Step]_vars
  BY <1>1
<1> QED
  BY <1>2, TypeCorrect, PTL DEF Spec, NoLateDeploy

----------------------------------------------------------------------------
(* Run implements DeployContract (the safety part; its liveness is checked *)
(* by TLC).                                                                *)

\* Starting a deploy is the contract's Start.
LEMMA BeginIsStart ==
  ASSUME Inv, SlotBound, NEW p \in Package, BeginDeploy(p)
  PROVE  Contract!Start(p)
<1>1. /\ task \in [Package -> TaskState] /\ task[p] = "cleared"
      /\ task' = [task EXCEPT ![p] = "deploying"]
      /\ UNCHANGED <<plan, sched, lvl, nxt, ctxErr, groupVars, deployed, result, worldVars>>
  BY DEF BeginDeploy, Goto, Inv, TypeOK
<1>2. result = "none" /\ result' = "none"
  BY <1>1 DEF Inv, Quiet, Verdict, TypeOK, SchedState
<1>3. p \in Selected
  <2>1. PICK i, j \in Nat : At(p, i, j)
    BY <1>1 DEF Inv, Placed
  <2> QED
    BY <2>1 DEF Selected, Elements, At
<1>4. p \notin Deploying /\ p \notin deployed /\ p \notin failures
  BY <1>1 DEF Inv, Records, Deploying
<1>5. plan.deps[p] \intersect Selected \subseteq deployed
  BY <1>1, OrderFromInv DEF DependencyOrder
<1>6. Cardinality(Deploying) < Concurrency
  <2>1. Deploying \union {p} \subseteq Holding /\ IsFiniteSet(Holding) /\ IsFiniteSet(Deploying)
    BY <1>1, DeployAssumption, FS_Subset DEF Deploying, Holding
  <2>2. Cardinality(Deploying \union {p}) = Cardinality(Deploying) + 1
    BY <1>4, <2>1, FS_AddElement
  <2>3. Cardinality(Deploying \union {p}) <= Cardinality(Holding)
    BY <2>1, FS_Subset
  <2>4. Cardinality(Holding) \in Nat /\ Cardinality(Deploying) \in Nat
    BY <2>1, FS_CardinalityType
  <2> QED
    BY <2>2, <2>3, <2>4, DeployAssumption DEF SlotBound
<1>7. Deploying' = Deploying \union {p}
  BY <1>1 DEF Deploying
<1>8. {q \in Package : task'[q] = "succeeded"} = {q \in Package : task[q] = "succeeded"}
  BY <1>1
<1>9. Selected' = Selected
  BY <1>1 DEF Selected
<1>10. p \notin {q \in Package : task[q] = "succeeded"}
  BY <1>1
<1>11. UNCHANGED <<plan, ctxErr, levelErrs, failures, deployed>>
  BY <1>1 DEF groupVars, worldVars
<1> DEFINE order     == [deps |-> plan.deps, selected |-> Selected, limit |-> Concurrency]
           succeeded == deployed \union {q \in Package : task[q] = "succeeded"}
           verdict   == [kind |-> result,
                         failures |-> IF result = "failed" THEN levelErrs ELSE {}]
<1>12. verdict = Contract!Pending /\ verdict' = verdict
  BY <1>2 DEF Contract!Pending
<1>13. p \in order.selected \ (Deploying \union succeeded \union failures)
  BY <1>3, <1>4, <1>10
<1>14. order.deps[p] \intersect order.selected \subseteq succeeded
  BY <1>5
<1>15. order' = order /\ succeeded' = succeeded
  BY <1>8, <1>9, <1>11
<1>16. Contract!Cardinality(Deploying) = Cardinality(Deploying)
  BY Zenon DEF Contract!Cardinality, Cardinality
<1> QED
  BY <1>6, <1>7, <1>11, <1>12, <1>13, <1>14, <1>15, <1>16 DEF Contract!Start

\* The end of a deploy is the contract's Finish.
LEMMA EndIsFinish ==
  ASSUME Inv, NEW p \in Package, DeploySucceeds(p) \/ DeployFails(p)
  PROVE  Contract!Finish(p)
<1>1. /\ task \in [Package -> TaskState] /\ task[p] = "deploying"
      /\ UNCHANGED <<plan, ctxErr, groupVars, deployed, result>>
      /\ \/ task' = [task EXCEPT ![p] = "succeeded"] /\ failures' = failures
         \/ task' = [task EXCEPT ![p] = "failed"] /\ failures' = failures \union {p}
  BY DEF DeploySucceeds, DeployFails, Goto, Inv, TypeOK
<1>2. p \in Deploying /\ Deploying' = Deploying \ {p}
  BY <1>1 DEF Deploying
<1>3. Selected' = Selected
  BY <1>1 DEF Selected
<1> DEFINE Fresh == {q \in Package : task[q] = "succeeded"}
<1>4. \/ failures' = failures /\ Fresh' = Fresh \union {p}
      \/ failures' = failures \union {p} /\ Fresh' = Fresh
  BY <1>1
<1> QED
  BY <1>1, <1>2, <1>3, <1>4 DEF Contract!Finish, groupVars

\* What the contract sees at the points where Run can return.
LEMMA QuietView ==
  ASSUME Inv, sched \in {"boundary", "collect", "recheck"}
  PROVE  /\ Deploying = {} /\ {q \in Package : task[q] = "succeeded"} = {}
         /\ result = "none" /\ failures = levelErrs
         /\ sched # "collect" => levelErrs = {}
BY DEF Inv, Quiet, Verdict, Records, Deploying, TypeOK

\* A return of Run is the contract's Return.
LEMMA ReturnIsReturn ==
  ASSUME Inv, LevelBoundary \/ Collect \/ Recheck, sched' = "returned"
  PROVE  Contract!Return
<1>1. /\ sched \in {"boundary", "collect", "recheck"}
      /\ UNCHANGED <<plan, ctxErr, levelErrs, task, deployed, failures>>
  BY DEF LevelBoundary, Collect, Recheck, Return, groupVars, worldVars
<1>2. /\ Deploying = {} /\ {q \in Package : task[q] = "succeeded"} = {}
      /\ result = "none" /\ failures = levelErrs
      /\ sched # "collect" => levelErrs = {}
  BY <1>1, QuietView
<1>3. Deploying' = Deploying /\ Selected' = Selected
  BY <1>1 DEF Deploying, Selected
<1>4. \/ result' = "failed" /\ levelErrs # {}
      \/ result' = "cancelled" /\ ctxErr /\ levelErrs = {}
      \/ result' = "ok" /\ deployed = Selected /\ levelErrs = {}
  <2>1. CASE LevelBoundary
    <3>1. lvl > Len(plan.levels) => lvl = Len(plan.levels) + 1
      BY PlanFacts DEF Inv, TypeOK
    <3> QED
      BY <1>2, <2>1, <3>1, CompleteAtEnd DEF LevelBoundary, Return
  <2>2. CASE Collect
    BY <2>2 DEF Collect, Return
  <2>3. CASE Recheck
    BY <1>2, <2>3 DEF Recheck, Return
  <2> QED
    BY <2>1, <2>2, <2>3
<1> QED
  BY <1>1, <1>2, <1>3, <1>4 DEF Contract!Return, Contract!Pending

\* Every other step is invisible to the contract.
LEMMA Invisible ==
  ASSUME Inv, UNCHANGED <<plan, ctxErr, result, failures>>,
         Deploying' = Deploying,
         (deployed \union {q \in Package : task[q] = "succeeded"})'
           = deployed \union {q \in Package : task[q] = "succeeded"},
         result = "failed" => levelErrs' = levelErrs
  PROVE  UNCHANGED Contract!vars
BY DEF Contract!vars, Selected

LEMMA StepRefines ==
  ASSUME Inv, SlotBound, [Next]_vars
  PROVE  [Contract!Next]_(Contract!vars)
<1> task \in [Package -> TaskState]
  BY DEF Inv, TypeOK
<1> USE DEF groupVars, worldVars
<1>1. ASSUME Interrupt PROVE Contract!Cancel
  BY <1>1 DEF Interrupt, Contract!Cancel, Contract!Pending, Deploying, Selected
<1>2. ASSUME LevelBoundary \/ Collect \/ Recheck, sched' = "returned" PROVE Contract!Return
  BY <1>2, ReturnIsReturn
<1>3. ASSUME LevelBoundary \/ Collect \/ Recheck, sched' # "returned"
      PROVE  UNCHANGED Contract!vars
  <2>1. result = "none"
    BY <1>3, QuietView DEF LevelBoundary, Collect, Recheck
  <2> QED
    BY <1>3, <2>1, Invisible DEF LevelBoundary, Collect, Recheck, Return, Deploying
<1>4. ASSUME AdmitNext \/ Drain PROVE UNCHANGED Contract!vars
  BY <1>4, Invisible DEF AdmitNext, Drain, Deploying
<1>5. ASSUME TakeSlot PROVE UNCHANGED Contract!vars
  <2>1. task[Level[nxt]] = "idle"
    BY <1>5, NextIsIdle DEF TakeSlot
  <2> QED
    BY <1>5, <2>1, Invisible DEF TakeSlot, Deploying
<1>6. ASSUME NEW p \in Package, BeginDeploy(p) PROVE Contract!Start(p)
  BY <1>6, BeginIsStart
<1>7. ASSUME NEW p \in Package, DeploySucceeds(p) \/ DeployFails(p) PROVE Contract!Finish(p)
  BY <1>7, EndIsFinish
<1>8. ASSUME NEW p \in Package, Clear(p) \/ CancelGroup(p) \/ ReleaseSlot(p)
      PROVE  UNCHANGED Contract!vars
  BY <1>8, Invisible DEF Clear, CancelGroup, ReleaseSlot, Goto, Deploying
<1>9. ASSUME NEW p \in Package, RecordError(p) \/ RecordDeployed(p)
      PROVE  UNCHANGED Contract!vars
  <2>1. result # "failed"
    BY <1>9 DEF Inv, Quiet, Verdict, RecordError, RecordDeployed, Goto
  <2> QED
    BY <1>9, <2>1, Invisible DEF RecordError, RecordDeployed, Goto, Deploying
<1>10. ASSUME UNCHANGED vars PROVE UNCHANGED Contract!vars
  BY <1>10, Invisible DEF vars, Deploying
<1> QED
  BY <1>1, <1>2, <1>3, <1>4, <1>5, <1>6, <1>7, <1>8, <1>9, <1>10
  DEF Next, Scheduler, Goroutine, Terminating, Contract!Next, Contract!Progress

\* Seen through running, succeeded and failed packages only, Run behaves as the
\* contract of DeployBundle says.
THEOREM RunKeepsContract == Spec => Contract!Init /\ [][Contract!Next]_(Contract!vars)
<1>1. Init => Contract!Init
  <2> SUFFICES ASSUME Init PROVE Contract!Init
    OBVIOUS
  <2>1. plan.deps \in [Package -> SUBSET Package] /\ Selected \subseteq Package
    BY PlanFacts, DeployAssumption DEF Init, Selected, Elements, WellFormed
  <2>2. ctxErr \in BOOLEAN
    BY Zenon DEF Init
  <2> QED
    BY <2>1, <2>2, DeployAssumption DEF Init, Contract!Init, Contract!Pending, Deploying
<1>2. Spec => []SlotBound
  <2>1. Init => SlotBound
    BY EmptyStart
  <2> QED
    BY <2>1, SlotStep, TypeCorrect, PTL DEF Spec
<1>3. Inv /\ SlotBound /\ [Next]_vars => [Contract!Next]_(Contract!vars)
  BY StepRefines
<1> QED
  BY <1>1, <1>2, <1>3, Invariance, PTL DEF Spec
=============================================================================
