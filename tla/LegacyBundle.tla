----------------------------- MODULE LegacyBundle -----------------------------
(***************************************************************************)
(* The legacy engine: deploy, dev deploy and remove of one bundle, command *)
(* after command (pkg/legacy/bundle: deploy.go, remove.go, common.go,      *)
(* overrides.go, under internal/legacy/cli).                               *)
(*                                                                         *)
(* A bundle is an ordered list of entries, installed first to last and     *)
(* removed last to first, one at a time.  Variables an entry exports are   *)
(* kept for the rest of the command and handed to those that import them.  *)
(* The cluster keeps one deployment per lifecycle ID (name and namespace). *)
(* A command may fail or be killed anywhere; nothing is rolled back, and   *)
(* the next command goes by what it finds.                                 *)
(*                                                                         *)
(*   validate -> select [-> list] -> next -> install -> installing         *)
(*                                     ^------ record <-----/              *)
(***************************************************************************)
EXTENDS Naturals, Sequences, FiniteSets, Functions

CONSTANTS
  Name,        \* package names
  Namespace,   \* namespaces, one of which stands for "none given"
  Var,         \* names of exported variables, in upper case as Zarf has them
  Bundles,     \* bundles: see BundleType
  Commands,    \* commands: see CommandType
  MaxCommands, \* bound: how many commands are run
  Shared       \* somebody else may change the cluster, once

\* imports[v] is the package that variable v is imported from.
BundleType(b) ==
  /\ Len(b) \in Nat \ {0} /\ DOMAIN b = 1..Len(b)
  /\ \A i \in DOMAIN b :
       /\ b[i].name \in Name /\ b[i].ns \in Namespace
       /\ b[i].init \in BOOLEAN             \* kind: ZarfInitConfig
       /\ b[i].exports \subseteq Var
       /\ DOMAIN b[i].imports \subseteq Var

CommandType(c) ==
  /\ c.op \in {"deploy", "remove"}
  /\ IsFiniteSet(Range(c.packages))      \* --packages as typed, <<>> without it
  /\ c.resume \in BOOLEAN /\ c.dev \in BOOLEAN
  /\ c.ref \subseteq Name                \* --ref: packages to take another version of
  /\ c.user \subseteq Var                \* set by flag, environment or configuration

ASSUME LegacyAssumption ==
  /\ \A b \in Bundles : BundleType(b)
  /\ \A c \in Commands : CommandType(c)
  /\ MaxCommands \in Nat /\ Shared \in BOOLEAN

VARIABLES
  bundle,   \* the bundle; never changes
  cluster,  \* cluster[id]: absent, partial or deployed
  command,  \* the command being run, or run last
  pc,       \* its program counter; idle between commands
  todo,     \* the entries it has still to handle, by their place in the bundle
  exported, \* bundleExportedVars: [package name -> [variable -> exporting entry]]
  loaded,   \* loaded[i]: what entry i was loaded with, [vars, asked]
  outcome,  \* none, ok, error, panic or killed
  seen,     \* history: the states of each deployment since the command began
  blind,    \* history: the deployed packages could not be listed
  piecemeal,\* history: a selection or somebody else changed the cluster
  count     \* commands begun

vars == <<bundle, cluster, command, pc, todo, exported, loaded, outcome,
          seen, blind, piecemeal, count>>
history == <<blind, piecemeal, count>>

Index == DOMAIN bundle

\* bundlePackageLifecycleID, deployedPackageLifecycleID.
ID(i) == <<bundle[i].name, bundle[i].ns>>
IDs == {ID(i) : i \in Index}

\* validateBundleVars: each import names the last package so far, itself
\* included, that exports the variable; the first entry has no imports.
LastExporter(b, i, v, j) ==
  /\ j \in 1..i /\ v \in b[j].exports
  /\ \A k \in (j + 1)..i : v \notin b[k].exports

ValidVars(b) ==
  /\ DOMAIN b[1].imports = {}
  /\ \A i \in DOMAIN b : \A v \in DOMAIN b[i].imports :
       \E j \in DOMAIN b : LastExporter(b, i, v, j) /\ b[i].imports[v] = b[j].name

----------------------------------------------------------------------------
Init ==
  /\ bundle \in {b \in Bundles : ValidVars(b)}
  /\ cluster = [d \in IDs |-> "absent"]
  /\ command = [op |-> "none"] /\ pc = "idle"
  /\ todo = {} /\ exported = <<>> /\ loaded = <<>>
  /\ outcome = "none"
  /\ seen = [d \in IDs |-> {}]
  /\ blind = FALSE /\ piecemeal = FALSE /\ count = 0

SetCluster(c) ==
  /\ cluster' = c
  /\ seen' = [d \in IDs |-> seen[d] \union {c[d]}]

Begin(c) ==
  /\ pc = "idle" /\ count < MaxCommands
  /\ command' = c /\ pc' = "validate"
  /\ todo' = {} /\ exported' = <<>> /\ loaded' = <<>> /\ outcome' = "none"
  /\ seen' = [d \in IDs |-> {cluster[d]}]
  /\ blind' = FALSE /\ count' = count + 1
  /\ piecemeal' = (piecemeal \/ c.packages # <<>>)
  /\ UNCHANGED <<bundle, cluster>>

End(from, result) ==
  /\ pc = from /\ pc' = "idle" /\ outcome' = result
  /\ UNCHANGED <<bundle, command, todo, exported, loaded, history>>

Stop(from, result) == End(from, result) /\ UNCHANGED <<cluster, seen>>

Goto(from, to) == pc = from /\ pc' = to /\ UNCHANGED <<bundle, command, outcome>>
Still == UNCHANGED <<cluster, seen>>

\* The process is killed; the cluster stays as it is.
Kill ==
  /\ pc # "idle"
  /\ Stop(pc, "killed")

\* Somebody else deploys or removes a package.
Meddle ==
  /\ Shared /\ ~piecemeal
  /\ \E d \in IDs, s \in {"absent", "deployed"} : SetCluster([cluster EXCEPT ![d] = s])
  /\ piecemeal' = TRUE
  /\ UNCHANGED <<bundle, command, pc, todo, exported, loaded, outcome, blind, count>>

----------------------------------------------------------------------------
(* Which entries the command is about. *)

\* PreDeployValidation and the prompt, or what Remove reads first.
Validate ==
  \/ Stop("validate", "error")
  \/ Goto("validate", "select") /\ Still /\ UNCHANGED <<todo, exported, loaded, history>>

Named(c) == {i \in Index : bundle[i].name \in Range(c.packages)}

Selected(c) == IF c.packages = <<>> THEN Index ELSE Named(c)

\* --packages: refused unless as many entries were found as names typed.
Select ==
  /\ pc = "select"
  /\ IF command.packages # <<>> /\ Cardinality(Named(command)) # Len(command.packages)
     THEN Stop("select", "error")
     ELSE
     /\ Goto("select", IF command.op = "remove" \/ command.resume THEN "list" ELSE "next")
     /\ todo' = Selected(command)
     /\ Still /\ UNCHANGED <<exported, loaded, history>>

\* GetDeployedPackageIDs.
Deployed == {d \in IDs : cluster[d] # "absent"}

\* Faulty variant: what failed half-way counts as deployed.
SuccessfulInPart == Deployed

\* GetSuccessfullyDeployedPackageIDs: every component succeeded, none is missing.
Successful == {d \in IDs : cluster[d] = "deployed"}

\* removePackages skips what was not listed.
ToRemove(known) == {i \in todo : ID(i) \in known}

\* --resume skips what was listed.
ToResume(known) == {i \in todo : ID(i) \notin known}

\* The cluster is read once; a failure to read it means nothing is deployed.
List ==
  /\ Goto("list", "next")
  /\ blind' \in BOOLEAN
  /\ todo' = IF command.op = "remove"
             THEN ToRemove(IF blind' THEN {} ELSE Deployed)
             ELSE ToResume(IF blind' THEN {} ELSE Successful)
  /\ Still /\ UNCHANGED <<exported, loaded, piecemeal, count>>

Finished == todo = {} /\ Stop("next", "ok")

\* Faulty variant: packages are removed in the order they are deployed in.
InTurnForwards(i) == i \in todo /\ \A j \in todo : i <= j

\* The loops of deployPackages, first to last, and of removePackages, last to first.
InTurn(i) ==
  /\ i \in todo
  /\ \A j \in todo : IF command.op = "remove" THEN j <= i ELSE i <= j

----------------------------------------------------------------------------
(* deployPackages. *)

\* Where a value comes from; an export is known by the entry it is of.
Unset == <<"unset", 0>>
Blank == <<"blank", 0>>
User == <<"user", 0>>
Export(i) == <<"export", i>>

ExportedBy(p, v) ==
  IF p \in DOMAIN exported /\ v \in DOMAIN exported[p] THEN exported[p][v] ELSE Blank

AnyExport(v) == {ExportedBy(p, v) : p \in DOMAIN exported} \ {Blank}

\* Faulty variant: an export of any package comes before the import.
LoadVariablesAnyFirst(i) ==
  [v \in Var |->
     IF v \in command.user THEN {User}
     ELSE IF AnyExport(v) # {} THEN AnyExport(v)
     ELSE IF v \in DOMAIN bundle[i].imports THEN {Blank} ELSE {Unset}]

\* loadVariables: each variable from the most specific place that has it.  Of the
\* packages that export it, the last in the order of the map is heard.
LoadVariables(i) ==
  [v \in Var |->
     IF v \in command.user THEN {User}
     ELSE IF v \in DOMAIN bundle[i].imports THEN {ExportedBy(bundle[i].imports[v], v)}
     ELSE IF AnyExport(v) # {} THEN AnyExport(v) ELSE {Unset}]

\* The copy setPackageRef returns is put into the bundle and forgotten: this
\* iteration goes on with the reference the bundle was made with.
Reference(i) == "bundled"

\* From setPackageRef to LoadPackage and the state of the registry, any of which
\* may fail.  In dev mode LoadPackage has no layout for an init package, and the
\* next line looks at its kind.
Prepare(i) ==
  /\ pc = "next" /\ command.op = "deploy" /\ InTurn(i)
  /\ \/ Stop("next", "error")
     \/ command.dev /\ bundle[i].init /\ Stop("next", "panic")
     \/ /\ ~(command.dev /\ bundle[i].init)
        /\ Goto("next", "install")
        /\ \E values \in [Var -> UNION {LoadVariables(i)[v] : v \in Var}] :
             /\ \A v \in Var : values[v] \in LoadVariables(i)[v]
             /\ loaded' = [k \in DOMAIN loaded \union {i} |->
                             IF k = i THEN [vars |-> values, reference |-> Reference(i)]
                             ELSE loaded[k]]
        /\ Still /\ UNCHANGED <<todo, exported, history>>

\* packager.Deploy, which records components as it goes.
Install(i) ==
  /\ InTurn(i)
  /\ \/ Stop("install", "error")
     \/ /\ Goto("install", "installing")
        /\ SetCluster([cluster EXCEPT ![ID(i)] = "partial"])
        /\ UNCHANGED <<todo, exported, loaded, history>>

Installed(i) ==
  /\ InTurn(i)
  /\ \/ Stop("installing", "error")
     \/ /\ Goto("installing", "record")
        /\ SetCluster([cluster EXCEPT ![ID(i)] = "deployed"])
        /\ UNCHANGED <<todo, exported, loaded, history>>

\* The layout is cleaned up and the exports are read from the package's variables;
\* either may fail with the package on the cluster.
RecordExports(i) ==
  /\ InTurn(i)
  /\ \/ Stop("record", "error")
     \/ /\ Goto("record", "next")
        /\ exported' = [p \in DOMAIN exported \union {bundle[i].name} |->
                          IF p = bundle[i].name THEN [v \in bundle[i].exports |-> Export(i)]
                          ELSE exported[p]]
        /\ todo' = todo \ {i}
        /\ Still /\ UNCHANGED <<loaded, history>>

----------------------------------------------------------------------------
(* removePackages. *)

\* The package is read from the cluster and removed component by component.
Uninstall(i) ==
  /\ pc = "next" /\ command.op = "remove" /\ InTurn(i)
  /\ \/ Stop("next", "error")
     \/ /\ cluster[ID(i)] # "absent"
        /\ End("next", "error")
        /\ SetCluster([cluster EXCEPT ![ID(i)] = "partial"])
     \/ /\ cluster[ID(i)] # "absent"
        /\ Goto("next", "next")
        /\ SetCluster([cluster EXCEPT ![ID(i)] = "absent"])
        /\ todo' = todo \ {i}
        /\ UNCHANGED <<exported, loaded, history>>

----------------------------------------------------------------------------
Next ==
  \/ \E c \in Commands : Begin(c)
  \/ Validate \/ Select \/ List \/ Finished
  \/ \E i \in Index :
       Prepare(i) \/ Install(i) \/ Installed(i) \/ RecordExports(i) \/ Uninstall(i)
  \/ Kill \/ Meddle

Spec == Init /\ [][Next]_vars

----------------------------------------------------------------------------
TypeOK ==
  /\ \A d \in IDs : cluster[d] \in {"absent", "partial", "deployed"}
  /\ pc \in {"idle", "validate", "select", "list", "next", "install", "installing", "record"}
  /\ todo \subseteq Index
  /\ DOMAIN exported \subseteq Name
  /\ DOMAIN loaded \subseteq Index
  /\ outcome \in {"none", "ok", "error", "panic", "killed"}

DistinctIDs == \A i, j \in Index : ID(i) = ID(j) => i = j
DistinctNames == \A i, j \in Index : bundle[i].name = bundle[j].name => i = j

\* Deploys, resumed deploys and removals of the whole bundle, in any order, however
\* each of them fails or is killed, leave the first entries of the bundle on the
\* cluster and none after them: an entry is there only with everything before it.
WholeCommandsKeepPrefix ==
  DistinctIDs /\ ~piecemeal =>
    \A i, j \in Index : i < j /\ ID(j) \in Deployed => ID(i) \in Deployed

\* A command that reports success has seen each of its packages completely
\* deployed, or gone, while it ran: what --resume skips was complete, and what a
\* removal skips was absent, if it could list the packages at all.
SuccessIsSeen ==
  /\ TypeOK
  /\ outcome = "ok" =>
       \A i \in Selected(command) :
         IF command.op = "deploy" THEN "deployed" \in seen[ID(i)]
         ELSE blind \/ "absent" \in seen[ID(i)]

\* An import comes from the package it names and from no other that exports the
\* same variable, and is blank only if that package is not installed by this
\* command: it was not selected, or skipped by --resume.
ImportsFollowExports ==
  DistinctNames =>
    \A i \in DOMAIN loaded : \A v \in DOMAIN bundle[i].imports \ command.user :
      \A j \in Index \ {i} : bundle[j].name = bundle[i].imports[v] =>
        loaded[i].vars[v] = IF j \in DOMAIN loaded THEN Export(j) ELSE Blank
=============================================================================
