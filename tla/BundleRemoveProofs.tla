-------------------------- MODULE BundleRemoveProofs --------------------------
(***************************************************************************)
(* An unforced removal that has the cluster to itself only takes steps     *)
(* ClusterContract allows, uninstalls only what is deployed, and a removal *)
(* that succeeds has seen everything it lists off the cluster, others or   *)
(* no others: for every bundle, selection, naming and level order.         *)
(*                                                                         *)
(* The invariant relates the cached set of deployments to the cluster.     *)
(* With the cluster to itself the cluster is what was read minus what was  *)
(* removed since; with others, what was not read has been off the cluster  *)
(* at the moment of reading.  That, and not the cluster itself, is what a  *)
(* skipped package stands on.                                              *)
(***************************************************************************)
EXTENDS BundleRemove, TLAPS

Types ==
  /\ CallType(call)
  /\ removed \subseteq Package /\ skipped \subseteq Package /\ current \subseteq Package
  /\ Settled \subseteq Members(Levels) \/ stage = "done"

\* Refusals come before the first package.
Vetted == stage = "remove" => Allowed /\ KnownNames /\ Acyclic(call.deps)

Untouched ==
  /\ ~deployed.loaded => removed = {} /\ skipped = {} /\ current = {}
  /\ stage \in {"validate", "prompt", "check"} => ~deployed.loaded

\* The remover, alone on the cluster: the cached set minus what it removed.
CacheCurrent ==
  ~meddled /\ stage = "remove" /\ deployed.loaded =>
    cluster = deployed.set \ {Deployed(p) : p \in removed}

\* What was read and what was removed has been off the cluster.
CacheSeen ==
  /\ Own \ cluster \subseteq absent
  /\ deployed.loaded => Own \ deployed.set \subseteq absent
  /\ \A p \in removed : Deployed(p) \in absent

SkippedUnread == \A p \in skipped : deployed.loaded /\ Deployed(p) \notin deployed.set

\* The package being uninstalled was read, is not settled, and is next in line.
CurrentInLine ==
  \A p \in current :
    /\ stage = "remove" /\ deployed.loaded
    /\ Deployed(p) \in deployed.set /\ p \notin removed
    /\ InTurn(p)
    /\ \A q \in current : q = p

Reported == outcome = "ok" => Settled = Requested(call) /\ stage = "done"

Inv ==
  /\ Types /\ Vetted /\ Untouched /\ CacheCurrent /\ CacheSeen
  /\ SkippedUnread /\ CurrentInLine /\ Reported

----------------------------------------------------------------------------
LEMMA Begins == Init => Inv
<1> SUFFICES ASSUME Init PROVE Inv
  OBVIOUS
<1>1. CallType(call)
  BY RemoveCallAssumption DEF Init
<1>2. removed = {} /\ skipped = {} /\ current = {} /\ ~deployed.loaded /\ outcome = "none"
  BY DEF Init
<1>3. stage # "remove"
  BY DEF Init
<1> QED
  BY <1>1, <1>2, <1>3 DEF Init, Inv, Types, Settled, Vetted, Untouched, CacheCurrent, CacheSeen,
     SkippedUnread, CurrentInLine, Reported

\* A step that only moves the stage: past the checks, or out with an answer.
LEMMA StageStep ==
  ASSUME Inv, current = {},
         UNCHANGED <<call, cluster, deployed, current, removed, skipped, absent, meddled>>,
         stage' = "remove" => Allowed /\ KnownNames /\ Acyclic(call.deps),
         stage' = "remove" => CacheCurrent',
         stage' \in {"validate", "prompt", "check"} => ~deployed.loaded,
         stage' = "done" \/ (Settled \subseteq Members(Levels)),
         outcome' = "ok" => Settled = Requested(call) /\ stage' = "done"
  PROVE  Inv'
<1>1. Types'
  BY DEF Inv, Types, CallType, Settled, Levels
<1>2. Vetted'
  BY DEF Vetted, Allowed, KnownNames
<1>3. Untouched' /\ SkippedUnread' /\ CurrentInLine'
  BY DEF Inv, Untouched, SkippedUnread, Deployed, CurrentInLine
<1>4. CacheCurrent'
  BY DEF CacheCurrent
<1>5. CacheSeen'
  BY DEF Inv, CacheSeen, Own, Deployed
<1>6. Reported'
  BY DEF Reported, Settled
<1> QED
  BY <1>1, <1>2, <1>3, <1>4, <1>5, <1>6 DEF Inv

\* The checks, up to the first package.
LEMMA Checks == ASSUME Inv, Validate \/ Prompt \/ Check PROVE Inv' /\ UNCHANGED cluster
<1>1. stage \in {"validate", "prompt", "check"}
  BY DEF Validate, Prompt, Check, Checked, Refuse, Leave, Advance
<1>2. ~deployed.loaded /\ current = {} /\ removed = {} /\ skipped = {}
  BY <1>1 DEF Inv, Untouched
<1>3. UNCHANGED <<call, cluster, deployed, current, removed, skipped, absent, meddled>>
  BY DEF Validate, Prompt, Check, Checked, Refuse, Leave, Advance
<1>4. /\ stage' = "remove" => Allowed /\ KnownNames /\ Acyclic(call.deps)
      /\ outcome' # "ok" \/ outcome' = outcome
  BY DEF Validate, Prompt, Check, Checked, Refuse, Leave, Advance
<1>5. outcome # "ok"
  BY <1>1 DEF Inv, Reported
<1>6. Settled \subseteq Members(Levels)
  BY <1>2 DEF Settled
<1>7. CacheCurrent'
  BY <1>2, <1>3 DEF CacheCurrent
<1> QED
  BY <1>2, <1>3, <1>4, <1>5, <1>6, <1>7, StageStep

\* The plan of a removal that has begun covers the selection, in order.
LEMMA PlanFacts ==
  ASSUME Inv, stage = "remove"
  PROVE  /\ Levels \in Seq(SUBSET Package)
         /\ Members(Levels) = Requested(call)
         /\ \A i, k \in DOMAIN Levels : \A p \in Levels[i], q \in Levels[k] :
              (p = q => i = k) /\ (q \in call.deps[p] => k < i)
         /\ Settled \subseteq Members(Levels)
<1>1. PlanFits(call) /\ call.levels \in Seq(SUBSET Package) /\ Settled \subseteq Members(Levels)
  BY DEF Inv, Vetted, Types, CallType, KnownNames
<1> QED
  BY <1>1 DEF PlanFits, Levels

\* The end: everything selected is settled.
LEMMA Ends == ASSUME Inv, Finished PROVE Inv' /\ UNCHANGED cluster
<1>1. stage = "remove" /\ stage' = "done" /\ outcome' = "ok"
      /\ UNCHANGED <<call, cluster, deployed, current, removed, skipped, absent, meddled>>
  BY DEF Finished, Refuse, Leave
<1>2. Settled = Requested(call)
  BY <1>1, PlanFacts DEF Finished
<1>3. current = {}
  <2>1. \A p \in current : InTurn(p)
    BY DEF Inv, CurrentInLine
  <2>2. \A p : ~InTurn(p)
    BY DEF Finished, InTurn, Members
  <2> QED
    BY <2>1, <2>2
<1> QED
  BY <1>1, <1>2, <1>3, StageStep

\* A lookup: an error, a skip, or a package to uninstall.
LEMMA Looks == ASSUME Inv, NEW p \in Package, LookUp(p) PROVE Inv' /\ UNCHANGED cluster
<1>1. stage = "remove" /\ current = {} /\ InTurn(p)
  BY DEF LookUp
<1>2. Settled \subseteq Members(Levels) /\ p \in Members(Levels) /\ p \notin Settled
  BY <1>1, PlanFacts DEF InTurn, Members
<1>3. CASE Refuse("remove", "error")
  <2>1. stage' = "done" /\ outcome' = "error"
        /\ UNCHANGED <<call, cluster, deployed, current, removed, skipped, absent, meddled>>
    BY <1>3 DEF Refuse, Leave
  <2> QED
    BY <1>1, <2>1, StageStep
<1>4. CASE ~Refuse("remove", "error")
  <2> DEFINE known == IF deployed.loaded THEN deployed.set ELSE cluster
  <2>1. /\ deployed' = [loaded |-> TRUE, set |-> known]
        /\ \/ Deployed(p) \in known /\ current' = {p} /\ skipped' = skipped
           \/ Deployed(p) \notin known /\ current' = {} /\ skipped' = skipped \union {p}
        /\ UNCHANGED <<call, stage, cluster, removed, outcome, absent, meddled>>
    BY <1>1, <1>4 DEF LookUp, DeployedKey, Deployed
  <2>2. deployed'.loaded /\ deployed'.set = known
    BY <2>1
  <2>3. ~deployed.loaded => removed = {} /\ skipped = {}
    BY DEF Inv, Untouched
  <2>4. Types' /\ Vetted' /\ Untouched'
    <3>1. Settled' \subseteq Members(Levels)' /\ current' \subseteq Package
          /\ skipped' \subseteq Package /\ removed' \subseteq Package
      BY <1>2, <2>1 DEF Inv, Types, Settled, Levels
    <3>2. CallType(call)'
      BY <2>1 DEF Inv, Types, CallType
    <3>3. Vetted' /\ Untouched'
      BY <1>1, <2>1, <2>2 DEF Inv, Vetted, Untouched, Allowed, KnownNames
    <3> QED
      BY <3>1, <3>2, <3>3 DEF Types
  <2>5. CacheCurrent'
    <3>1. ~meddled => cluster = known \ {Deployed(r) : r \in removed}
      BY <1>1, <2>3 DEF Inv, CacheCurrent
    <3>2. {Deployed(r) : r \in removed}' = {Deployed(r) : r \in removed}
      BY <2>1 DEF Deployed
    <3> QED
      BY <2>1, <2>2, <3>1, <3>2 DEF CacheCurrent
  <2>6. CacheSeen'
    <3>1. Own \ known \subseteq absent
      BY DEF Inv, CacheSeen
    <3> QED
      BY <2>1, <2>2, <3>1 DEF Inv, CacheSeen, Own, Deployed
  <2>7. SkippedUnread'
    BY <2>1, <2>2, <2>3 DEF Inv, SkippedUnread, Deployed
  <2>8. CurrentInLine'
    <3>1. current' = {p} => Settled' = Settled /\ Deployed(p) \in known
      BY <2>1 DEF Settled
    <3>2. current' = {p} => InTurn(p)'
      BY <1>1, <2>1, <3>1 DEF InTurn, Levels
    <3> QED
      BY <1>1, <1>2, <2>1, <2>2, <3>1, <3>2 DEF CurrentInLine, Deployed, Settled
  <2>9. Reported'
    BY <1>1, <2>1 DEF Inv, Reported
  <2> QED
    BY <2>1, <2>4, <2>5, <2>6, <2>7, <2>8, <2>9 DEF Inv
<1> QED
  BY <1>3, <1>4

\* A dependent that is deployed stays out of the way: alone on the cluster, what
\* depends on the package in line is gone.
LEMMA DependentsGone ==
  ASSUME Inv, ~meddled, ~call.force, NEW p \in current, NEW q \in Package,
         Deployed(q) \in cluster, p \in call.deps[q]
  PROVE  FALSE
<1>1. stage = "remove" /\ deployed.loaded /\ InTurn(p) /\ p \in Package
  BY DEF Inv, CurrentInLine, Types
<1>2. PICK k \in DOMAIN Levels : p \in Levels[k] /\ \A j \in (k + 1)..Len(Levels) : Levels[j] \subseteq Settled
  BY <1>1 DEF InTurn
<1>3. q \in Requested(call)
  <2>1. call.requested \subseteq Package /\ RemovalSafe(call.deps, call.requested)
        /\ call.deps \in [Package -> SUBSET Package]
    BY <1>1 DEF Inv, Vetted, Allowed, KnownNames, Types, CallType
  <2>2. p \in Requested(call)
    BY <1>1, <1>2, PlanFacts DEF Members
  <2>3. CASE call.requested = {}
    BY <2>3 DEF Requested
  <2>4. CASE call.requested # {}
    <3>1. p \in call.requested
      BY <2>2, <2>4 DEF Requested
    <3>2. \A r \in call.requested : {s \in Package \ call.requested : r \in call.deps[s]} = {}
      BY <2>1, <2>4 DEF RemovalSafe, DependentBlockers
    <3> QED
      BY <2>4, <3>1, <3>2 DEF Requested
  <2> QED
    BY <2>3, <2>4
<1>4. PICK i \in DOMAIN Levels : q \in Levels[i]
  BY <1>1, <1>3, PlanFacts DEF Members
<1>5. k < i
  BY <1>1, <1>2, <1>4, PlanFacts
<1>6. q \in Settled
  <2>1. i \in (k + 1)..Len(Levels)
    BY <1>1, <1>2, <1>4, <1>5, PlanFacts
  <2> QED
    BY <1>2, <1>4, <2>1
<1>7. cluster = deployed.set \ {Deployed(r) : r \in removed}
  BY <1>1 DEF Inv, CacheCurrent
<1>8. CASE q \in removed
  BY <1>7, <1>8
<1>9. CASE q \in skipped
  BY <1>7, <1>9 DEF Inv, SkippedUnread
<1> QED
  BY <1>6, <1>8, <1>9 DEF Settled

\* What the bundle sees of the cluster when one deployment goes.
LEMMA DropIsDrop ==
  ASSUME Inv, ~meddled, ~call.force, Distinct, NEW p \in current,
         UNCHANGED call, cluster' = cluster \/ cluster' = cluster \ {Deployed(p)}
  PROVE  Contract!Next \/ UNCHANGED cluster
<1> DEFINE Seen == {q \in Package : Deployed(q) \in cluster}
<1>1. p \in Package
  BY DEF Inv, Types
<1>2. CASE cluster' = cluster \ {Deployed(p)}
  <2>1. \A q \in Seen \ {p} : p \notin call.deps[q]
    BY DependentsGone
  <2>2. Seen' = Seen \ {p}
    BY <1>1, <1>2 DEF Distinct, Deployed
  <2>3. Contract!Drop(p)
    BY <2>1, <2>2 DEF Contract!Drop
  <2> QED
    BY <1>1, <2>3 DEF Contract!Next
<1> QED
  BY <1>2

\* A package is uninstalled.
LEMMA Uninstalls ==
  ASSUME Inv, NEW p \in Package, Uninstall(p)
  PROVE  Inv' /\ (~call.force /\ ~meddled /\ Distinct => Contract!Next \/ UNCHANGED cluster)
<1>1. /\ p \in current
      /\ cluster' = cluster \ {Deployed(p)}
      /\ absent' = absent \union (Own \ cluster')
      /\ removed' = removed \union {p} /\ current' = {}
      /\ UNCHANGED <<call, stage, deployed, skipped, outcome, meddled>>
  BY DEF Uninstall, SetCluster
<1>2. stage = "remove" /\ deployed.loaded /\ InTurn(p)
  BY <1>1 DEF Inv, CurrentInLine
<1>3. Types'
  <2>1. p \in Members(Levels) /\ Settled \subseteq Members(Levels)
    BY <1>2, PlanFacts DEF InTurn, Members
  <2>2. Settled' = Settled \union {p} /\ Levels' = Levels
    BY <1>1 DEF Settled, Levels
  <2>3. CallType(call)'
    BY <1>1 DEF Inv, Types, CallType
  <2> QED
    BY <1>1, <2>1, <2>2, <2>3 DEF Inv, Types
<1>4. Vetted' /\ Untouched' /\ CurrentInLine' /\ Reported'
  BY <1>1, <1>2 DEF Inv, Vetted, Allowed, KnownNames, Untouched, CurrentInLine, Reported
<1>5. /\ Own' = Own /\ \A q : Deployed(q)' = Deployed(q)
      /\ {Deployed(r) : r \in removed}' = {Deployed(r) : r \in removed} \union {Deployed(p)}
  BY <1>1 DEF Own, Deployed
<1>6. CacheCurrent'
  BY <1>1, <1>2, <1>5 DEF Inv, CacheCurrent
<1>7. CacheSeen'
  <2>1. Deployed(p) \in Own
    BY DEF Own
  <2>2. (Own \ cluster \subseteq absent)' /\ (deployed.loaded => Own \ deployed.set \subseteq absent)'
    BY <1>1, <1>5 DEF Inv, CacheSeen
  <2>3. \A q \in removed' : Deployed(q) \in absent'
    BY <1>1, <2>1, <1>5 DEF Inv, CacheSeen
  <2>4. \A q \in removed' : Deployed(q)' \in absent'
    BY <2>3, <1>5
  <2> QED
    BY <2>2, <2>4 DEF CacheSeen
<1>8. SkippedUnread'
  BY <1>1 DEF Inv, SkippedUnread, Deployed
<1> QED
  BY <1>1, <1>3, <1>4, <1>6, <1>7, <1>8, DropIsDrop DEF Inv

\* An uninstallation fails, half-way or at once.
LEMMA Fails ==
  ASSUME Inv, NEW p \in Package, UninstallFails(p)
  PROVE  Inv' /\ (~call.force /\ ~meddled /\ Distinct => Contract!Next \/ UNCHANGED cluster)
<1>1. /\ p \in current /\ current' = {}
      /\ stage = "remove" /\ stage' = "done" /\ outcome' = "error"
      /\ UNCHANGED <<call, deployed, removed, skipped, meddled>>
  BY DEF UninstallFails, Leave
<1>2. PICK gone \in SUBSET {Deployed(p)} :
        cluster' = cluster \ gone /\ absent' = absent \union (Own \ cluster')
  BY DEF UninstallFails, SetCluster
<1>3. /\ Own' = Own /\ \A q : Deployed(q)' = Deployed(q)
  BY <1>1 DEF Own, Deployed
<1>4. Types' /\ Vetted' /\ Untouched' /\ CacheCurrent' /\ CurrentInLine' /\ Reported'
  <2>1. CallType(call)'
    BY <1>1 DEF Inv, Types, CallType
  <2> QED
    BY <1>1, <2>1 DEF Inv, Types, Vetted, Untouched, CacheCurrent, CurrentInLine, Reported
<1>5. CacheSeen'
  <2>1. (Own \ cluster \subseteq absent)' /\ (deployed.loaded => Own \ deployed.set \subseteq absent)'
    BY <1>1, <1>2, <1>3 DEF Inv, CacheSeen
  <2>2. \A q \in removed' : Deployed(q)' \in absent'
    BY <1>1, <1>2, <1>3 DEF Inv, CacheSeen
  <2> QED
    BY <2>1, <2>2 DEF CacheSeen
<1>6. SkippedUnread'
  BY <1>1 DEF Inv, SkippedUnread, Deployed
<1>7. cluster' = cluster \/ cluster' = cluster \ {Deployed(p)}
  BY <1>2
<1> QED
  BY <1>1, <1>4, <1>5, <1>6, <1>7, DropIsDrop DEF Inv

\* Others change the cluster: what has been seen stays seen.
LEMMA Meddles == ASSUME Inv, Meddle PROVE Inv' /\ meddled'
<1>1. /\ UNCHANGED callVars /\ meddled'
      /\ absent' = absent \union (Own \ cluster')
  BY DEF Meddle, SetCluster
<1>2. /\ Own' = Own /\ \A q : Deployed(q)' = Deployed(q)
  BY <1>1 DEF Own, Deployed, callVars
<1>3. Types' /\ Vetted' /\ Untouched' /\ CacheCurrent' /\ Reported'
  <2>1. CallType(call)' /\ Settled' = Settled /\ Levels' = Levels
    BY <1>1 DEF Inv, Types, CallType, Settled, Levels, callVars
  <2> QED
    BY <1>1, <2>1 DEF Inv, Types, Vetted, Allowed, KnownNames, Untouched, CacheCurrent,
                      Reported, callVars
<1>4. CacheSeen'
  <2>1. (Own \ cluster \subseteq absent)' /\ (deployed.loaded => Own \ deployed.set \subseteq absent)'
    BY <1>1, <1>2 DEF Inv, CacheSeen, callVars
  <2>2. \A q \in removed' : Deployed(q)' \in absent'
    BY <1>1, <1>2 DEF Inv, CacheSeen, callVars
  <2> QED
    BY <2>1, <2>2 DEF CacheSeen
<1>5. SkippedUnread' /\ CurrentInLine'
  BY <1>1 DEF Inv, SkippedUnread, CurrentInLine, InTurn, Levels, Settled, Deployed, callVars
<1> QED
  BY <1>1, <1>3, <1>4, <1>5 DEF Inv

LEMMA Stutters == ASSUME Inv, UNCHANGED vars PROVE Inv'
<1>1. /\ UNCHANGED <<call, stage, deployed, current, removed, skipped, outcome, cluster, absent, meddled>>
  BY DEF vars, callVars
<1>2. /\ Own' = Own /\ \A q : Deployed(q)' = Deployed(q)
  BY <1>1 DEF Own, Deployed
<1>3. Types' /\ Vetted' /\ Untouched' /\ Reported'
  BY <1>1 DEF Inv, Types, CallType, Settled, Levels, Vetted, Allowed, KnownNames, Untouched, Reported
<1>4. CacheCurrent' /\ CacheSeen' /\ SkippedUnread' /\ CurrentInLine'
  BY <1>1, <1>2 DEF Inv, CacheCurrent, CacheSeen, SkippedUnread, CurrentInLine, InTurn, Levels,
                    Settled, Deployed
<1> QED
  BY <1>3, <1>4 DEF Inv

LEMMA EveryStep ==
  ASSUME Inv, [Next]_vars
  PROVE  /\ Inv'
         /\ ~call.force /\ ~meddled' /\ Distinct => Contract!Next \/ UNCHANGED cluster
<1>1. CASE Validate \/ Prompt \/ Check
  BY <1>1, Checks
<1>2. ASSUME NEW p \in Package, LookUp(p) PROVE Inv' /\ UNCHANGED cluster
  BY <1>2, Looks
<1>3. ASSUME NEW p \in Package, Uninstall(p) \/ UninstallFails(p)
      PROVE  Inv' /\ (~call.force /\ ~meddled' /\ Distinct => Contract!Next \/ UNCHANGED cluster)
  <2>1. meddled' = meddled
    BY <1>3 DEF Uninstall, UninstallFails, Leave
  <2> QED
    BY <1>3, <2>1, Uninstalls, Fails
<1>4. CASE Finished
  BY <1>4, Ends
<1>5. CASE Meddle
  BY <1>5, Meddles
<1>6. CASE UNCHANGED vars
  BY <1>6, Stutters DEF vars
<1> QED
  BY <1>1, <1>2, <1>3, <1>4, <1>5, <1>6 DEF Next, Step, Terminating

LEMMA Invariance == Spec => []Inv
<1>1. Inv /\ [Next]_vars => Inv'
  BY EveryStep
<1> QED
  BY <1>1, Begins, PTL DEF Spec

----------------------------------------------------------------------------
\* What an unforced removal that has the cluster to itself does to it, whatever the
\* bundle, the selection, what is deployed and what fails: one package at a time
\* goes, and it goes when nothing deployed depends on it.
THEOREM DependentsFirst == Spec => RemovesDependentsFirst
<1>1. Inv /\ [Next]_vars =>
        [~call.force /\ ~meddled' /\ Distinct => Contract!Next \/ UNCHANGED cluster]_vars
  BY EveryStep
<1> QED
  BY <1>1, Invariance, PTL DEF Spec, RemovesDependentsFirst

Unforced == ~call.force

\* The arguments of the call stay, and a cluster that was changed by others stays one.
LEMMA CallStays == ASSUME [Next]_vars PROVE UNCHANGED call /\ (meddled => meddled')
<1> USE DEF Leave, Refuse, Advance, Checked, callVars, vars
<1>1. CASE Meddle \/ Validate \/ Prompt \/ Check \/ Finished \/ UNCHANGED vars
  BY <1>1 DEF Meddle, Validate, Prompt, Check, Finished
<1>2. CASE \E p \in Package : LookUp(p) \/ Uninstall(p) \/ UninstallFails(p)
  BY <1>2 DEF LookUp, Uninstall, UninstallFails
<1> QED
  BY <1>1, <1>2 DEF Next, Step, Terminating

\* An unforced removal from a cluster whose packages have their dependencies leaves it
\* so at every moment, also when it fails half-way, as long as nobody else changes it.
THEOREM RemovesKeepClosed ==
  Spec /\ Unforced /\ Distinct /\ Contract!Closed => [](meddled \/ Contract!Closed)
<1>1. ASSUME Inv, Unforced, Distinct, meddled \/ Contract!Closed, [Next]_vars
      PROVE  Inv' /\ Unforced' /\ Distinct' /\ (meddled' \/ Contract!Closed')
  <2>1. Inv' /\ call' = call
    BY <1>1, CallStays, EveryStep
  <2>2. Unforced' /\ Distinct'
    BY <1>1, <2>1 DEF Unforced, Distinct, Deployed
  <2>3. ASSUME ~meddled' PROVE Contract!Closed'
    <3>1. Contract!Closed /\ (Contract!Next \/ UNCHANGED cluster)
      BY <1>1, <2>3, CallStays, EveryStep DEF Unforced
    <3>2. CASE UNCHANGED cluster
      BY <2>1, <3>1, <3>2 DEF Contract!Closed, Deployed
    <3>3. ASSUME NEW p \in Package, Contract!Add(p) PROVE Contract!Closed'
      BY <2>1, <3>1, <3>3 DEF Contract!Closed, Contract!Add
    <3>4. ASSUME NEW p \in Package, Contract!Drop(p) PROVE Contract!Closed'
      BY <2>1, <3>1, <3>4 DEF Contract!Closed, Contract!Drop
    <3> QED
      BY <3>1, <3>2, <3>3, <3>4 DEF Contract!Next
  <2> QED
    BY <2>1, <2>2, <2>3
<1> QED
  BY <1>1, Begins, PTL DEF Spec

\* A removal that succeeds has seen every selected package off the cluster, also
\* while others deploy and remove the same packages.
THEOREM SuccessHolds == Spec => []SuccessIsComplete
<1>1. Inv => SuccessIsComplete
  <2> SUFFICES ASSUME Inv, outcome = "ok" PROVE SuccessIsComplete
    BY DEF SuccessIsComplete
  <2>1. Settled = Requested(call) /\ Requested(call) \subseteq Package
    BY DEF Inv, Reported, Types, Settled
  <2>2. ASSUME NEW p \in Requested(call) PROVE Deployed(p) \in absent
    <3>1. CASE p \in removed
      BY <3>1 DEF Inv, CacheSeen
    <3>2. CASE p \in skipped
      <4>1. Deployed(p) \in Own /\ Deployed(p) \notin deployed.set /\ deployed.loaded
        BY <2>1, <3>2 DEF Inv, SkippedUnread, Own
      <4> QED
        BY <4>1 DEF Inv, CacheSeen
    <3> QED
      BY <2>1, <3>1, <3>2 DEF Settled
  <2> QED
    BY <2>1, <2>2 DEF SuccessIsComplete
<1> QED
  BY <1>1, Invariance, PTL

\* Alone on the cluster, the remover uninstalls only what is deployed: the cached
\* set is the cluster minus what this call removed.
THEOREM UninstallsOnlyDeployed == Spec => []UninstallsDeployed
<1>1. Inv => UninstallsDeployed
  <2> SUFFICES ASSUME Inv, ~meddled, Distinct, NEW p \in current PROVE Deployed(p) \in cluster
    BY DEF UninstallsDeployed
  <2>1. /\ stage = "remove" /\ deployed.loaded /\ Deployed(p) \in deployed.set
        /\ p \notin removed /\ p \in Package /\ removed \subseteq Package
    BY DEF Inv, CurrentInLine, Types
  <2>2. \A r \in removed : Deployed(r) # Deployed(p)
    BY <2>1 DEF Distinct
  <2>3. cluster = deployed.set \ {Deployed(r) : r \in removed}
    BY <2>1 DEF Inv, CacheCurrent
  <2> QED
    BY <2>1, <2>2, <2>3
<1> QED
  BY <1>1, Invariance, PTL
=============================================================================
