----------------------------- MODULE PackageSource -----------------------------
(***************************************************************************)
(* A Zarf package on its way from its source (internal/zarf/layout.go,     *)
(* source.go, local.go, remote.go) into a layout that is deployed, or, for *)
(* create, into the store of the bundle (internal/artifact/create.go).     *)
(*                                                                         *)
(* A source is an unpacked artifact, whose blobs no other process touches, *)
(* or a directory, an archive or a registry tag that others may replace at *)
(* any time.  The content of a file is the version of the package it       *)
(* belongs to.  Zarf's LoadFromDir holds every file against the package's  *)
(* checksums, so it refuses a mixture of versions.                         *)
(*                                                                         *)
(*   load -> files -> [advise ->] predeploy        (deploy)                *)
(*   workspace -> load -> files -> store -> cleanup -> done   (create)     *)
(***************************************************************************)
EXTENDS Naturals, FiniteSets

CONSTANTS
  Title,    \* files of a package
  Mutable,  \* the file the cluster deploy writes: images/index.json
  Signed,   \* the versions a trusted signer signed
  Inputs    \* what a command may be given, see input

ASSUME SourceAssumption ==
  /\ Mutable \in Title /\ Signed \subseteq Nat \ {0}
  /\ \A i \in Inputs :
       /\ i.command \in {"deploy", "verify", "ingest"}
       /\ i.source \in {"artifact", "directory", "archive", "registry"}
       /\ i.source = "artifact" => i.command = "deploy"
       /\ i.versions \in Nat \ {0} /\ i.selected \subseteq Title

VARIABLES
  input,     \* command: deploy, or create with (verify) or without (ingest) the
             \* verification of the package's signature; source; selected: the files the
             \* component filter selects; versions: bound on the source's replacements;
             \* files, defaults, config: see PackageDeploy
  stage,     \* program counter
  pkgTmp,    \* the staging directory in use, or "none"
  dirs,      \* temporary directories that exist
  layout,    \* the directory the loaded layout lives in, or "none"
  outcome,   \* none, ok or error
  origin,    \* the version the source holds, 0 when it is gone
  pinned,    \* the version that was resolved when the source was opened
  staged,    \* title -> [version, linked], the files in the staging directory
  blobs,     \* the artifact's blobs that still hold what was verified
  stored     \* title -> version, the files in the bundle's store

sourceVars  == <<origin, pinned, staged, blobs, stored>>
stagingVars == <<pkgTmp, dirs, layout>>

Empty == [t \in {} |-> 0]

\* One file more.
With(files, t, x) == [u \in DOMAIN files \union {t} |-> IF u = t THEN x ELSE files[u]]

SourceInit ==
  /\ input \in Inputs
  /\ stage = (IF input.command = "deploy" THEN "stage" ELSE "workspace")
  /\ pkgTmp = "none" /\ dirs = {} /\ layout = "none"
  /\ outcome = "none"
  /\ origin = 1 /\ pinned = 0 /\ staged = Empty /\ blobs = Title /\ stored = Empty

Goto(from, to) == stage = from /\ stage' = to /\ UNCHANGED <<input, outcome>>

\* An error return: the deferred clean-ups run next.
Fail(from) == stage = from /\ stage' = "cleanup" /\ outcome' = "error" /\ UNCHANGED input

\* Somebody replaces the directory, the archive or what the tag names.
Replaced ==
  /\ input.source # "artifact" /\ stage # "done"
  /\ origin \in 1..(input.versions - 1) /\ origin' = origin + 1
  /\ UNCHANGED <<input, stage, outcome, stagingVars, pinned, staged, blobs, stored>>

----------------------------------------------------------------------------
\* create without verification reads a directory where it is.
InPlace == input.command = "ingest" /\ input.source = "directory"

\* ingestSource makes its verification workspace whether or not it verifies, and
\* a package workspace in it; IngestFiltered makes one of its own for what it
\* does not read in place.
Workspace ==
  /\ \/ /\ Goto("workspace", "load")
        /\ IF InPlace THEN pkgTmp' = "none" ELSE pkgTmp' = "package"
        /\ dirs' = {"verify"} \union ({pkgTmp'} \ {"none"})
     \/ /\ Fail("workspace")
        /\ dirs' \in {{}, {"verify"}} /\ UNCHANGED pkgTmp
  /\ UNCHANGED <<layout, sourceVars>>

Opened ==
  /\ Goto("load", "files")
  /\ pinned' = origin
  /\ UNCHANGED <<stagingVars, origin, staged, blobs, stored>>

\* The package's manifest in the artifact's index and store.
OpenArtifact == input.source = "artifact" /\ Opened
\* The local path is a package, without symbolic links.
OpenLocal == input.source \in {"directory", "archive"} /\ Opened
\* The tag is resolved once, to a digest.
OpenRemote == input.source = "registry" /\ Opened

Selected == input.selected

\* Faulty variant: every blob of the workspace is linked.
MayLinkAll(t) == pkgTmp = "colocated"
\* Blobs are linked within one workspace only, and never the file that is written.
MayLink(t) == pkgTmp = "colocated" /\ t # Mutable

Put(t, version, linked) ==
  /\ stage = "files"
  /\ staged' = With(staged, t, [version |-> version, linked |-> linked])
  /\ UNCHANGED <<input, stage, outcome, stagingVars, origin, pinned, blobs, stored>>

\* A link that cannot be made is a copy; a copy is renamed into place when complete.
StageBlob ==
  /\ input.source = "artifact"
  /\ \E t \in Selected \ DOMAIN staged, linked \in BOOLEAN :
       (linked => MayLink(t)) /\ Put(t, pinned, linked)

\* A directory is copied, or read in place, file by file; an archive stays the one
\* that was opened, and the layers of a pinned manifest have their digests.
VersionRead == IF input.source = "directory" THEN origin ELSE pinned

PullFile ==
  /\ input.source # "artifact"
  /\ \E t \in Selected \ DOMAIN staged : Put(t, VersionRead, FALSE)

Versions(files) == {files[t].version : t \in DOMAIN files}

Complete == DOMAIN staged = Selected /\ Cardinality(Versions(staged)) <= 1

\* The signature policy of the package, VerifyAlways or VerifyNever.
PolicyHolds == input.command = "verify" => Versions(staged) \subseteq Signed

\* LoadFromDir, which holds the files against checksums and policy.
LoadFromDir ==
  /\ Complete /\ PolicyHolds
  /\ Goto("files", IF input.command # "deploy" THEN "store"
                   ELSE IF input.source = "artifact" THEN "predeploy" ELSE "advise")
  /\ layout' = IF InPlace THEN "origin" ELSE pkgTmp
  /\ UNCHANGED <<pkgTmp, dirs, sourceVars>>

\* isRetryableStagingError: only what was staged next to the blobs is tried again.
LoadFails ==
  /\ stage \in {"load", "files"}
  /\ Fail(stage) \/ (pkgTmp = "colocated" /\ Goto("files", "fallback"))
  /\ UNCHANGED <<pkgTmp, dirs, layout, sourceVars>>

\* Faulty variant: the new directory is made but the load still gets the old one.
FallbackStale ==
  /\ \/ /\ Goto("fallback", "load")
        /\ dirs' = (dirs \ {pkgTmp}) \union {"configured"} /\ UNCHANGED pkgTmp
        /\ staged' = Empty
     \/ Fail("fallback") /\ UNCHANGED <<pkgTmp, dirs, staged>>
     \/ Fail("fallback") /\ pkgTmp' = "none" /\ dirs' = dirs \ {pkgTmp} /\ staged' = Empty
  /\ UNCHANGED <<layout, origin, pinned, blobs, stored>>

\* The full directory is replaced by one under the configured temporary directory;
\* removing the old one or creating the new one may fail.
Fallback ==
  /\ \/ /\ Goto("fallback", "load")
        /\ pkgTmp' = "configured" /\ dirs' = (dirs \ {pkgTmp}) \union {"configured"}
        /\ staged' = Empty
     \/ Fail("fallback") /\ UNCHANGED <<pkgTmp, dirs, staged>>
     \/ Fail("fallback") /\ pkgTmp' = "none" /\ dirs' = dirs \ {pkgTmp} /\ staged' = Empty
  /\ UNCHANGED <<layout, origin, pinned, blobs, stored>>

\* advisoryVerifyPackage warns, whatever it finds, and removes its own workspace.
Advise ==
  /\ Goto("advise", "predeploy")
  /\ UNCHANGED <<stagingVars, sourceVars>>

----------------------------------------------------------------------------
\* Faulty variant: what was verified is read from the source once more.
ReadAgain(t) == origin
\* The layout that was loaded is what is copied into the store.
LayoutFile(t) == IF InPlace THEN origin ELSE staged[t].version

\* copySelectedPackage: the files the filter selects, then the manifest over them.
StoreFile ==
  /\ stage = "store"
  /\ \E t \in Selected \ DOMAIN stored : stored' = With(stored, t, LayoutFile(t))
  /\ UNCHANGED <<input, stage, outcome, stagingVars, origin, pinned, staged, blobs>>

StoreManifest ==
  /\ \/ /\ stage = "store" /\ DOMAIN stored = Selected
        /\ stage' = "cleanup" /\ outcome' = "ok" /\ UNCHANGED input
     \/ Fail("store")
  /\ UNCHANGED <<stagingVars, sourceVars>>

\* Faulty variant: the layout is always removed, also one that was read in place.
CleansAlways == TRUE
\* IngestFiltered leaves a directory alone.
CleansLayout == ~InPlace

\* The deferred calls of create: PackageLayout.Cleanup, the workspaces.
IngestCleanup ==
  /\ input.command # "deploy"
  /\ Goto("cleanup", "done")
  /\ layout' = "none" /\ dirs' = dirs \ {pkgTmp, "verify"}
  /\ origin' = IF CleansLayout /\ layout = "origin" THEN 0 ELSE origin
  /\ staged' = Empty
  /\ UNCHANGED <<pkgTmp, pinned, blobs, stored>>

SourceStep ==
  \/ Workspace \/ OpenArtifact \/ OpenLocal \/ OpenRemote
  \/ StageBlob \/ PullFile \/ LoadFromDir
  \/ LoadFails \/ Fallback \/ Advise
  \/ StoreFile \/ StoreManifest \/ IngestCleanup

----------------------------------------------------------------------------
SourceTypes ==
  /\ input \in Inputs
  /\ pkgTmp \in {"none", "colocated", "configured", "package"}
  /\ dirs \subseteq {"colocated", "configured", "package", "verify"}
  /\ layout \in {"none", "origin", "colocated", "configured", "package"}
  /\ outcome \in {"none", "ok", "error"}
  /\ origin \in 0..input.versions /\ pinned \in 0..input.versions
  /\ DOMAIN staged \union DOMAIN stored \union blobs \subseteq Title

\* What create puts into the bundle is what it verified, to the last file, though the
\* directory, archive or tag is replaced in between; without verification it is one
\* version of the package, unless a directory is edited while it is read in place.
\* The directory itself is left where it is.
IngestedAsVerified ==
  /\ origin # 0
  /\ outcome = "ok" /\ input.command # "deploy" =>
       LET versions == {stored[t] : t \in DOMAIN stored}
       IN /\ DOMAIN stored = Selected
          /\ input.command = "verify" => versions \subseteq Signed
          /\ InPlace \/ Cardinality(versions) <= 1
=============================================================================
