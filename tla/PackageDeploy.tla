----------------------------- MODULE PackageDeploy -----------------------------
(***************************************************************************)
(* ZarfDeployer.DeployPackage (internal/zarf/deploy.go): stage, template    *)
(* the values files, load the package, run the hooks around the cluster    *)
(* deploy, and give back every temporary file and directory on the way     *)
(* out, whichever way that is.                                             *)
(*                                                                         *)
(* Directories are named by where they are: "colocated" next to the OCI    *)
(* blobs of an unpacked artifact, "configured" under options.tmp_dir.      *)
(* Values files are numbered; the user's own and the rendered copies are   *)
(* kept apart as <<"user", i>> and <<"copy", i>>.                          *)
(*                                                                         *)
(*   stage -> render -> parse -> load, see PackageSource -> predeploy      *)
(*     -> cluster -> postdeploy -> cleanup -> done                         *)
(*                                                                         *)
(* Any error goes to cleanup.  The package's part of create is here too.   *)
(***************************************************************************)
EXTENDS Configuration, PackageSource

CONSTANTS
  MaxFiles,  \* bound: values files of the package
  Layers     \* what defaults.uds.hcl and config.uds.hcl may hold, see Configuration

ASSUME FilesAssumption ==
  /\ MaxFiles \in Nat
  /\ \A i \in Inputs : i.files \in 0..MaxFiles /\ {i.defaults, i.config} \subseteq Layers
  /\ \A l \in Layers : l.vars \in Maps

VARIABLES
  files,     \* values files that exist
  toParse,   \* filesToParse of prepareValuesAndVariables
  setVars    \* the variables for Zarf, flattened

valuesVars == <<files, toParse, setVars>>
vars == <<input, stage, outcome, stagingVars, sourceVars, valuesVars>>

User(n) == {<<"user", i>> : i \in 1..n}
Copy(i) == <<"copy", i>>

\* The variables the command resolved for all its packages.
Variables == Resolve(input.defaults, input.config)
HasVars == Variables.present

Init ==
  /\ SourceInit
  /\ files = User(input.files) /\ toParse = {} /\ setVars = NoKeys

MakeDir(d) == pkgTmp' = d /\ dirs' = dirs \union {d}

----------------------------------------------------------------------------
\* A staging directory next to the blobs if there is a root for it, else, or if
\* that fails, under the configured one.
Stage ==
  /\ \/ /\ Goto("stage", "render")
        /\ \/ MakeDir("configured")
           \/ input.source = "artifact" /\ MakeDir("colocated")
     \/ Fail("stage") /\ UNCHANGED <<pkgTmp, dirs>>
  /\ UNCHANGED <<layout, sourceVars, valuesVars>>

Rendered == Cardinality(toParse)

\* templateValuesFiles: without variables the user's files are used as they are.
\* With variables the next file is rendered into a copy that is noted before it is
\* written.
Render ==
  /\ \/ /\ ~HasVars \/ input.files = 0
        /\ toParse' = User(input.files)
        /\ Goto("render", "parse") /\ UNCHANGED files
     \/ /\ HasVars /\ Rendered < input.files
        /\ files' = files \union {Copy(Rendered + 1)}
        /\ toParse' = toParse \union {Copy(Rendered + 1)}
        /\ Goto("render", IF Rendered + 1 = input.files THEN "parse" ELSE "render")
  /\ UNCHANGED <<setVars, stagingVars, sourceVars>>

\* Reading, templating or creating fails before there is a copy, writing or
\* closing after; the copies made so far are removed.
RenderFails ==
  /\ HasVars /\ input.files > 0
  /\ Fail("render")
  /\ \E fresh \in SUBSET {Copy(Rendered + 1)} :
       files' = (files \union fresh) \ (toParse \union fresh)
  /\ UNCHANGED <<toParse, setVars, stagingVars, sourceVars>>

\* Faulty variant: what was parsed is removed, without looking whose it is.
ToRemove == toParse
\* The deferred cleanupTempFiles is there only if the copies are.
TempFiles == IF HasVars THEN toParse ELSE {}

\* value.ParseFiles, the copies being removed on the way out in either case, and
\* Flatten.
Parse ==
  /\ \/ Goto("parse", "load") /\ setVars' \in Flatten(Variables.vars)
     \/ Fail("parse") /\ input.files > 0 /\ UNCHANGED setVars
  /\ files' = files \ TempFiles
  /\ UNCHANGED <<toParse, stagingVars, sourceVars>>

----------------------------------------------------------------------------
\* The hooks and the cluster deploy, with a context that may end; each sees the
\* loaded layout.  If PostDeploy fails the package is reported as failed although it
\* is on the cluster.
PreDeploy ==
  /\ Goto("predeploy", "cluster") \/ Fail("predeploy")
  /\ UNCHANGED <<stagingVars, sourceVars, valuesVars>>

\* What a write to a staged file changes: a linked one is the blob itself.
Written(t) == {u \in {t} \intersect DOMAIN staged : staged[u].linked}

ClusterDeploy ==
  /\ Goto("cluster", "postdeploy") \/ Fail("cluster")
  /\ blobs' \in {blobs, blobs \ Written(Mutable)}
  /\ UNCHANGED <<stagingVars, origin, pinned, staged, stored, valuesVars>>

PostDeploy ==
  /\ stage = "postdeploy" /\ stage' = "cleanup" /\ outcome' \in {"ok", "error"}
  /\ UNCHANGED <<input, stagingVars, sourceVars, valuesVars>>

\* Faulty variant: the directory chosen first is the one removed.
CleanupFirst ==
  /\ input.command = "deploy"
  /\ Goto("cleanup", "done")
  /\ layout' = "none" /\ staged' = Empty
  /\ dirs' = dirs \ {IF input.source = "artifact" THEN "colocated" ELSE "configured"}
  /\ UNCHANGED <<pkgTmp, origin, pinned, blobs, stored, valuesVars>>

\* The deferred calls, last one first: PackageLayout.Cleanup, then the staging
\* directory pkgTmp names by now.  Removing a link leaves the blob.
Cleanup ==
  /\ input.command = "deploy"
  /\ Goto("cleanup", "done")
  /\ layout' = "none" /\ staged' = Empty
  /\ dirs' = dirs \ {pkgTmp}
  /\ UNCHANGED <<pkgTmp, origin, pinned, blobs, stored, valuesVars>>

----------------------------------------------------------------------------
Terminating == stage = "done" /\ UNCHANGED vars

Step ==
  \/ Stage \/ Render \/ RenderFails \/ Parse
  \/ SourceStep /\ UNCHANGED valuesVars
  \/ PreDeploy \/ ClusterDeploy \/ PostDeploy \/ Cleanup

Next == Step \/ (Replaced /\ UNCHANGED valuesVars) \/ Terminating

Spec == Init /\ [][Next]_vars /\ WF_vars(Step)

----------------------------------------------------------------------------
Types ==
  /\ SourceTypes
  /\ files \union toParse \subseteq User(MaxFiles) \union {Copy(i) : i \in 1..MaxFiles}

\* Hooks and cluster deploy find the whole of one version of the package where it was
\* loaded, also when it had to be loaded a second time elsewhere, and what they write
\* there never reaches the blobs of the artifact.  However the command ends, no
\* temporary directory and no rendered values file (they hold configuration values)
\* outlives it, and the values files the bundle names are never removed: they are the
\* user's own when the configuration has no variables to render them with.
StagedWhileUsed ==
  /\ Types
  /\ stage \in {"predeploy", "cluster", "postdeploy"} =>
       layout \in dirs /\ layout = pkgTmp /\ Complete
  /\ blobs = Title
  /\ stage = "done" => dirs = {} /\ files \subseteq User(input.files)
  /\ User(input.files) \subseteq files

Paths == LET keys == DOMAIN Upper IN {<<k>> : k \in keys} \union (keys \X keys)

\* The values files are rendered with what the user's configuration says, key by key,
\* and below an object with what only the bundle's defaults say; a default under a key
\* to which the user gives a scalar or a list is gone.
LayersResolved ==
  stage = "render" =>
    \A path \in Paths :
      At(Variables.vars, path).kind # "object" \/ Effective(input.defaults.vars, input.config.vars, path).kind # "object"
        => At(Variables.vars, path) = Effective(input.defaults.vars, input.config.vars, path)

TopLevel == [k \in DOMAIN Upper |-> Effective(input.defaults.vars, input.config.vars, <<k>>)]

\* Every top-level scalar in force reaches Zarf under its upper-case name and nothing
\* else does.  Two keys that differ in case only are one name: then it is one of the
\* two values, and not in every package of the bundle the same one.
SetVariablesFaithful ==
  stage \in {"predeploy", "cluster", "postdeploy"} =>
    LET Of(n) == {k \in DOMAIN Upper : Upper[k] = n /\ TopLevel[k].kind = "scalar"}
    IN /\ DOMAIN setVars = {n \in {Upper[k] : k \in DOMAIN Upper} : Of(n) # {}}
       /\ \A n \in DOMAIN setVars : setVars[n] \in {TopLevel[k].is : k \in Of(n)}
=============================================================================
