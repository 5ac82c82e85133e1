--------------------------- MODULE DeployContract ---------------------------
(***************************************************************************)
(* What deploying a bundle promises its caller, with no levels, scheduler, *)
(* semaphore or goroutines (internal/zarf/deploy.go, "deploys packages in  *)
(* dependency order with bounded parallelism").                            *)
(*                                                                         *)
(*   - a package starts only when every selected package it depends on is  *)
(*     deployed, and no more than the limit run at once;                   *)
(*   - the call returns only when nothing runs any more;                   *)
(*   - it returns every failure there was, success only when every         *)
(*     selected package is deployed, and cancellation only if the caller   *)
(*     cancelled.                                                          *)
(***************************************************************************)
EXTENDS Naturals, FiniteSets

CONSTANT Package

VARIABLES
  order,      \* [deps, selected, limit]: what to deploy, how many at once; fixed
  running,    \* packages being deployed
  succeeded,  \* packages deployed
  failed,     \* packages whose deployment failed
  cancelled,  \* the caller has cancelled
  verdict     \* none, or what the call returned: [kind, failures]

vars == <<order, running, succeeded, failed, cancelled, verdict>>

Pending == [kind |-> "none", failures |-> {}]

Init ==
  /\ order.deps \in [Package -> SUBSET Package]
  /\ order.selected \subseteq Package
  /\ order.limit \in Nat
  /\ running = {} /\ succeeded = {} /\ failed = {}
  /\ cancelled \in BOOLEAN
  /\ verdict = Pending

Cancel ==
  /\ verdict = Pending
  /\ cancelled' = TRUE
  /\ UNCHANGED <<order, running, succeeded, failed, verdict>>

Start(p) ==
  /\ verdict = Pending
  /\ p \in order.selected \ (running \union succeeded \union failed)
  /\ order.deps[p] \intersect order.selected \subseteq succeeded
  /\ Cardinality(running) < order.limit
  /\ running' = running \union {p}
  /\ UNCHANGED <<order, succeeded, failed, cancelled, verdict>>

Finish(p) ==
  /\ p \in running
  /\ running' = running \ {p}
  /\ \/ succeeded' = succeeded \union {p} /\ UNCHANGED failed
     \/ failed' = failed \union {p} /\ UNCHANGED succeeded
  /\ UNCHANGED <<order, cancelled, verdict>>

Return ==
  /\ verdict = Pending /\ running = {}
  /\ \/ /\ failed # {}
        /\ verdict' = [kind |-> "failed", failures |-> failed]
     \/ /\ failed = {} /\ cancelled
        /\ verdict' = [kind |-> "cancelled", failures |-> {}]
     \/ /\ failed = {} /\ succeeded = order.selected
        /\ verdict' = [kind |-> "ok", failures |-> {}]
  /\ UNCHANGED <<order, running, succeeded, failed, cancelled>>

Progress == Return \/ \E p \in Package : Start(p) \/ Finish(p)

Next == Cancel \/ Progress

\* The call makes progress; whether the caller cancels is up to the caller.
Spec == Init /\ [][Next]_vars /\ WF_vars(Progress)
=============================================================================
