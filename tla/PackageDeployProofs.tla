-------------------------- MODULE PackageDeployProofs --------------------------
(***************************************************************************)
(* Theorems about PackageDeploy: for any packages, selections, sources,    *)
(* signers, values files and variables, and however often a source is      *)
(* replaced, create puts into the bundle what it verified and leaves the   *)
(* source where it is, and a deployment has one version of the package     *)
(* where it was loaded, leaves nothing of its own behind, and renders and  *)
(* deploys with the user's variables on top of the bundle's defaults.      *)
(***************************************************************************)
EXTENDS PackageDeploy, FiniteSetTheorems, WellFoundedInduction, TLAPS

\* Where the command is, and whose directory the layout is.
Where ==
  /\ input \in Inputs /\ origin \in Nat \ {0}
  /\ pkgTmp \in {"none", "colocated", "configured", "package"}
  /\ layout = "origin" => InPlace
  /\ outcome = "ok" => stage \in {"cleanup", "done"}
  /\ stage \notin {"store", "cleanup", "done"} => DOMAIN stored = {}
  /\ IsFiniteSet(Versions(staged))

\* What lies in the layout that passed the checks, and is copied as it lies there.
InStore ==
  stage = "store" =>
    /\ DOMAIN staged = Selected /\ DOMAIN stored \subseteq Selected
    /\ \A t, u \in Selected : staged[t].version = staged[u].version
    /\ input.command = "verify" => \A t \in Selected : staged[t].version \in Signed
    /\ ~InPlace => \A t \in DOMAIN stored : stored[t] = staged[t].version

\* What a bundle was made of.
InBundle ==
  outcome = "ok" /\ input.command # "deploy" =>
    /\ DOMAIN stored = Selected
    /\ input.command = "verify" => \A t \in Selected : stored[t] \in Signed
    /\ ~InPlace => \A t, u \in Selected : stored[t] = stored[u]

IngestInv == Where /\ InStore /\ InBundle

----------------------------------------------------------------------------
\* Files of no more than one version are of the same.
LEMMA OneVersion ==
  ASSUME NEW layer, IsFiniteSet(Versions(layer)), Cardinality(Versions(layer)) <= 1
  PROVE  \A t, u \in DOMAIN layer : layer[t].version = layer[u].version
<1>1. Cardinality(Versions(layer)) \in Nat
  BY FS_CardinalityType
<1>2. CASE Cardinality(Versions(layer)) = 0
  BY <1>2, FS_EmptySet DEF Versions
<1>3. CASE Cardinality(Versions(layer)) = 1
  <2>1. PICK v : Versions(layer) = {v}
    BY <1>3, FS_Singleton
  <2> QED
    BY <2>1 DEF Versions
<1> QED
  BY <1>1, <1>2, <1>3

\* There are no versions without layer.
LEMMA NoVersions == DOMAIN Empty = {} /\ Versions(Empty) = {} /\ IsFiniteSet(Versions(Empty))
<1>1. Versions(Empty) = {}
  BY DEF Empty, Versions
<1> QED
  BY <1>1, FS_EmptySet DEF Empty

\* Nothing is staged or stored at first.
LEMMA IngestInitially == SourceInit => IngestInv
<1> SUFFICES ASSUME SourceInit PROVE IngestInv
  OBVIOUS
<1>1. DOMAIN Empty = {} /\ IsFiniteSet(Versions(Empty))
  BY NoVersions
<1>2. stage # "store" /\ outcome = "none"
  BY DEF SourceInit
<1>3. Where
  BY <1>1, <1>2 DEF SourceInit, Where
<1> QED
  BY <1>2, <1>3 DEF IngestInv, InStore, InBundle

----------------------------------------------------------------------------
\* Every step of a command, and every replacement of its source, keeps the invariant.
LEMMA IngestInductive ==
  ASSUME IngestInv,
         SourceStep \/ Replaced \/ UNCHANGED <<input, stage, outcome, stagingVars, sourceVars>>
  PROVE  IngestInv'
<1>a. Where /\ InStore /\ InBundle
  BY DEF IngestInv
<1>b. input \in Inputs /\ input.versions \in Nat \ {0}
  BY <1>a, SourceAssumption DEF Where
<1> USE DEF Goto, Fail, stagingVars, sourceVars, Selected, InPlace
<1>1. CASE Workspace
  <2>1. Where'
    BY <1>a, <1>1 DEF Workspace, Where
  <2> QED
    BY <1>a, <1>1, <2>1 DEF Workspace, Where, IngestInv, InStore, InBundle
<1>2. CASE OpenArtifact \/ OpenLocal \/ OpenRemote
  <2>1. Opened
    BY <1>2 DEF OpenArtifact, OpenLocal, OpenRemote
  <2>2. Where'
    BY <1>a, <2>1 DEF Opened, Where
  <2> QED
    BY <1>a, <2>1, <2>2 DEF Opened, Where, IngestInv, InStore, InBundle
<1>3. CASE StageBlob \/ PullFile
  <2>1. PICK t, version, linked : t \notin DOMAIN staged /\ Put(t, version, linked)
    BY <1>3 DEF StageBlob, PullFile
  <2>2. IsFiniteSet(Versions(staged)')
    <3>1. staged' = With(staged, t, [version |-> version, linked |-> linked])
      BY <2>1 DEF Put
    <3>2. Versions(staged') = Versions(staged) \union {version}
      BY <2>1, <3>1 DEF With, Versions
    <3> QED
      BY <1>a, <3>2, FS_AddElement DEF Where, Versions
  <2>3. Where'
    BY <1>a, <2>1, <2>2 DEF Put, Where
  <2> QED
    BY <1>a, <2>1, <2>3 DEF Put, Where, IngestInv, InStore, InBundle
<1>4. CASE LoadFromDir
  <2>1. Where'
    BY <1>a, <1>4 DEF LoadFromDir, Where
  <2>2. InStore'
    <3>1. DOMAIN staged = Selected /\ DOMAIN stored = {}
      BY <1>a, <1>4 DEF LoadFromDir, Complete, Where
    <3>2. \A t, u \in Selected : staged[t].version = staged[u].version
      BY <1>a, <1>4, <3>1, OneVersion DEF LoadFromDir, Complete, Where
    <3>3. input.command = "verify" => \A t \in Selected : staged[t].version \in Signed
      BY <1>4, <3>1 DEF LoadFromDir, PolicyHolds, Versions
    <3> QED
      BY <1>4, <3>1, <3>2, <3>3 DEF LoadFromDir, InStore
  <2>3. outcome' # "ok"
    BY <1>a, <1>4 DEF LoadFromDir, Where
  <2> QED
    BY <2>1, <2>2, <2>3 DEF IngestInv, InBundle
<1>5. CASE LoadFails
  <2>1. stage' \in {"cleanup", "fallback"} /\ outcome' # "ok"
    BY <1>a, <1>5 DEF LoadFails, Where
  <2>2. Where'
    BY <1>a, <1>5, <2>1 DEF LoadFails, Where
  <2> QED
    BY <2>1, <2>2 DEF IngestInv, InStore, InBundle
<1>6. CASE Fallback
  <2>1. stage' \in {"load", "cleanup"} /\ outcome' # "ok"
    BY <1>a, <1>6 DEF Fallback, Where
  <2>2. IsFiniteSet(Versions(staged)')
    <3>1. staged' = staged \/ staged' = Empty
      BY <1>6 DEF Fallback
    <3> QED
      BY <1>a, <3>1, NoVersions DEF Where, Versions
  <2>3. Where'
    BY <1>a, <1>6, <2>1, <2>2 DEF Fallback, Where
  <2> QED
    BY <2>1, <2>3 DEF IngestInv, InStore, InBundle
<1>7. CASE Advise
  <2>1. Where'
    BY <1>a, <1>7 DEF Advise, Where
  <2> QED
    BY <1>a, <1>7, <2>1 DEF Advise, Where, IngestInv, InStore, InBundle
<1>8. CASE StoreFile
  <2>1. PICK t \in Selected \ DOMAIN stored : stored' = With(stored, t, LayoutFile(t))
    BY <1>8 DEF StoreFile
  <2>2. /\ DOMAIN stored' = DOMAIN stored \union {t}
        /\ \A u \in DOMAIN stored : stored'[u] = stored[u]
        /\ stored'[t] = LayoutFile(t)
    BY <2>1 DEF With
  <2>3. Where'
    BY <1>a, <1>8 DEF StoreFile, Where
  <2>4. InStore'
    BY <1>a, <1>8, <2>1, <2>2 DEF StoreFile, InStore, LayoutFile
  <2>5. outcome' # "ok"
    BY <1>a, <1>8 DEF StoreFile, Where
  <2> QED
    BY <2>3, <2>4, <2>5 DEF IngestInv, InBundle
<1>9. CASE StoreManifest
  <2>1. Where'
    BY <1>a, <1>9 DEF StoreManifest, Where
  <2>2. stage' # "store"
    BY <1>9 DEF StoreManifest
  <2>3. InBundle'
    <3>1. CASE stage = "store" /\ DOMAIN stored = Selected
      BY <1>a, <1>9, <3>1 DEF StoreManifest, InStore, InBundle
    <3>2. CASE Fail("store")
      BY <3>2 DEF InBundle
    <3> QED
      BY <1>9, <3>1, <3>2 DEF StoreManifest
  <2> QED
    BY <2>1, <2>2, <2>3 DEF IngestInv, InStore
<1>10. CASE IngestCleanup
  <2>1. origin' = origin
    BY <1>a, <1>10 DEF IngestCleanup, CleansLayout, Where
  <2>2. IsFiniteSet(Versions(staged)')
    BY <1>10, NoVersions DEF IngestCleanup, Versions
  <2>3. Where'
    BY <1>a, <1>10, <2>1, <2>2 DEF IngestCleanup, Where
  <2> QED
    BY <1>a, <1>10, <2>3 DEF IngestCleanup, IngestInv, InStore, InBundle
<1>11. CASE Replaced
  <2>1. origin' \in Nat \ {0}
    BY <1>b, <1>11 DEF Replaced
  <2>2. Where'
    BY <1>a, <1>11, <2>1 DEF Replaced, Where
  <2> QED
    BY <1>a, <1>11, <2>2 DEF Replaced, IngestInv, InStore, InBundle
<1>12. CASE UNCHANGED <<input, stage, outcome, stagingVars, sourceVars>>
  BY <1>a, <1>12 DEF Where, IngestInv, InStore, InBundle
<1> QED
  BY <1>1, <1>2, <1>3, <1>4, <1>5, <1>6, <1>7, <1>8, <1>9, <1>10, <1>11, <1>12 DEF SourceStep

----------------------------------------------------------------------------
\* Which steps are a deployment's and which are create's.
Belongs ==
  /\ stage \in {"stage", "render", "parse", "advise", "predeploy", "cluster", "postdeploy"} =>
       input.command = "deploy"
  /\ stage \in {"workspace", "store"} => input.command # "deploy"

\* The staging directory is there from its making to the clean-up, and is the only one
\* besides the verification workspace of create.
Directories ==
  /\ dirs \subseteq {pkgTmp} \union (IF input.command = "deploy" THEN {} ELSE {"verify"})
  /\ input.command = "deploy" /\ stage \notin {"stage", "cleanup", "done"} => pkgTmp \in dirs
  /\ stage \in {"stage", "workspace", "done"} => dirs = {}

\* What was loaded is whole, and is where the staging directory is.
Loaded ==
  stage \in {"advise", "predeploy", "cluster", "postdeploy"} => layout = pkgTmp /\ Complete

\* The file that is written is never a link to a blob, so that the blobs stay.
Links == blobs = Title /\ \A t \in DOMAIN staged : staged[t].linked => t # Mutable

\* Copies are there while they are rendered and parsed, those that toParse has; the
\* user's files always.
ValuesFiles ==
  /\ User(input.files) \subseteq files
  /\ files \subseteq User(input.files) \union (IF stage \in {"render", "parse"} THEN TempFiles ELSE {})
  /\ toParse \subseteq User(input.files) \union {Copy(i) : i \in 1..input.files}
  /\ stage \in {"stage", "render", "parse"} => TempFiles \subseteq {Copy(i) : i \in 1..input.files}
  /\ stage \in {"stage", "render"} => IsFiniteSet(toParse)
  /\ stage = "stage" => toParse = {}

DeployInv == Types /\ Belongs /\ Directories /\ Loaded /\ Links /\ ValuesFiles

\* What may be given to a command.
LEMMA InputFacts ==
  ASSUME Types
  PROVE  /\ input \in Inputs /\ input.versions \in Nat \ {0} /\ input.selected \subseteq Title
         /\ input.command \in {"deploy", "verify", "ingest"}
         /\ input.source = "artifact" => input.command = "deploy"
         /\ input.files \in 0..MaxFiles /\ input.files \in Nat /\ MaxFiles \in Nat
BY SourceAssumption, FilesAssumption DEF Types, SourceTypes

\* At first there are the user's files and nothing else.
LEMMA DeployInitially == Init => IngestInv /\ DeployInv
<1> SUFFICES ASSUME Init PROVE IngestInv /\ DeployInv
  OBVIOUS
<1>1. IngestInv
  BY IngestInitially DEF Init
<1>2. DOMAIN Empty = {}
  BY NoVersions
<1>3. stage \in {"stage", "workspace"}
  BY DEF Init, SourceInit
<1>4. input \in Inputs /\ input.files \in 0..MaxFiles /\ MaxFiles \in Nat /\ input.versions \in Nat \ {0}
  BY SourceAssumption, FilesAssumption DEF Init, SourceInit
<1>5. Types
  BY <1>2, <1>4 DEF Init, SourceInit, Types, SourceTypes, User
<1>6. Belongs /\ Directories /\ Loaded /\ Links
  BY <1>2, SourceAssumption DEF Init, SourceInit, Belongs, Directories, Loaded, Links
<1>7. ValuesFiles
  BY <1>3, FS_EmptySet DEF Init, SourceInit, ValuesFiles, TempFiles
<1> QED
  BY <1>1, <1>5, <1>6, <1>7 DEF DeployInv

----------------------------------------------------------------------------
\* Other steps than those on the values files leave them as they are.
LEMMA ValuesKept ==
  ASSUME DeployInv, UNCHANGED <<input, valuesVars>>,
         stage \notin {"render", "parse"}, stage' \notin {"stage", "render", "parse"}
  PROVE  ValuesFiles'
BY DEF DeployInv, ValuesFiles, valuesVars

\* Opening a source and staging a file.
LEMMA Staging ==
  ASSUME DeployInv, OpenArtifact \/ OpenLocal \/ OpenRemote \/ StageBlob \/ PullFile,
         UNCHANGED valuesVars
  PROVE  DeployInv'
<1> USE DEF DeployInv, stagingVars
<1>1. /\ stage \in {"load", "files"} /\ stage' = "files"
      /\ UNCHANGED <<input, outcome, pkgTmp, dirs, layout, origin, blobs, stored, files, toParse>>
  BY DEF OpenArtifact, OpenLocal, OpenRemote, Opened, Goto, StageBlob, PullFile, Put, valuesVars
<1>2. ValuesFiles'
  BY <1>1, ValuesKept
<1>3. Belongs' /\ Loaded'
  BY <1>1 DEF Belongs, Loaded
<1>4. Directories'
  BY <1>1 DEF Directories
<1>5. CASE OpenArtifact \/ OpenLocal \/ OpenRemote
  <2>1. pinned' = origin /\ staged' = staged
    BY <1>5 DEF OpenArtifact, OpenLocal, OpenRemote, Opened
  <2>2. Types' /\ Links'
    BY <1>1, <2>1 DEF Types, SourceTypes, Links
  <2> QED
    BY <1>2, <1>3, <1>4, <2>2
<1>6. CASE StageBlob \/ PullFile
  <2>1. PICK t, version, linked :
          t \in Selected /\ (linked => MayLink(t)) /\ Put(t, version, linked)
    <3>1. CASE StageBlob
      BY <3>1 DEF StageBlob
    <3>2. CASE PullFile
      BY <3>2 DEF PullFile
    <3> QED
      BY <1>6, <3>1, <3>2
  <2>2. pinned' = pinned /\ staged' = With(staged, t, [version |-> version, linked |-> linked])
    BY <2>1 DEF Put
  <2>3. /\ DOMAIN staged' = DOMAIN staged \union {t}
        /\ \A u \in DOMAIN staged : u # t => staged'[u] = staged[u]
        /\ staged'[t].linked = linked
    BY <2>2 DEF With
  <2>4. Types'
    BY <1>1, <2>1, <2>2, <2>3, InputFacts DEF Types, SourceTypes, Selected
  <2>5. Links'
    BY <1>1, <2>1, <2>3 DEF Links, MayLink
  <2> QED
    BY <1>2, <1>3, <1>4, <2>4, <2>5
<1> QED
  BY <1>5, <1>6

\* A load that is let through, one that is not, the second attempt and the advice.
LEMMA Loading ==
  ASSUME DeployInv, LoadFromDir \/ LoadFails \/ Fallback \/ Advise, UNCHANGED valuesVars
  PROVE  DeployInv'
<1> USE DEF DeployInv, stagingVars, sourceVars, Goto, Fail
<1>1. /\ stage \in {"load", "files", "fallback", "advise"}
      /\ stage' \in {"load", "store", "predeploy", "advise", "cleanup", "fallback"}
      /\ UNCHANGED <<input, origin, pinned, blobs, stored, files, toParse>>
  BY DEF LoadFromDir, LoadFails, Fallback, Advise, valuesVars
<1>2. ValuesFiles'
  BY <1>1, ValuesKept
<1>3. outcome' \in {outcome, "error"}
  BY DEF LoadFromDir, LoadFails, Fallback, Advise
<1>4. CASE LoadFromDir
  <2>1. /\ UNCHANGED <<pkgTmp, dirs, staged>>
        /\ layout' \in {"origin", pkgTmp} /\ Complete /\ stage = "files"
        /\ input.command = "deploy" => layout' = pkgTmp
        /\ stage' = IF input.command # "deploy" THEN "store"
                    ELSE IF input.source = "artifact" THEN "predeploy" ELSE "advise"
    BY <1>4 DEF LoadFromDir, InPlace
  <2>2. Types'
    BY <1>1, <1>3, <2>1 DEF Types, SourceTypes
  <2>3. Belongs' /\ Directories' /\ Links'
    BY <1>1, <2>1 DEF Belongs, Directories, Links
  <2>4. Loaded'
    BY <1>1, <2>1 DEF Loaded, Complete, Selected
  <2> QED
    BY <1>2, <2>2, <2>3, <2>4
<1>5. CASE LoadFails
  <2>1. UNCHANGED <<pkgTmp, dirs, layout, staged>> /\ stage \in {"load", "files"}
        /\ stage' \in {"cleanup", "fallback"}
    BY <1>5 DEF LoadFails
  <2>2. Types' /\ Belongs' /\ Directories' /\ Links' /\ Loaded'
    BY <1>1, <1>3, <2>1 DEF Types, SourceTypes, Belongs, Directories, Links, Loaded
  <2> QED
    BY <1>2, <2>2
<1>6. CASE Fallback
  <2>1. /\ stage = "fallback" /\ layout' = layout
        /\ staged' = staged \/ staged' = Empty
        /\ \/ stage' = "load" /\ pkgTmp' = "configured" /\ dirs' = (dirs \ {pkgTmp}) \union {"configured"}
           \/ stage' = "cleanup" /\ UNCHANGED <<pkgTmp, dirs>>
           \/ stage' = "cleanup" /\ pkgTmp' = "none" /\ dirs' = dirs \ {pkgTmp}
    BY <1>6 DEF Fallback
  <2>2. DOMAIN staged' \subseteq DOMAIN staged /\ \A t \in DOMAIN staged' : staged'[t] = staged[t]
    BY <2>1, NoVersions
  <2>3. Types' /\ Belongs' /\ Links' /\ Loaded'
    BY <1>1, <1>3, <2>1, <2>2 DEF Types, SourceTypes, Belongs, Links, Loaded
  <2>4. Directories'
    BY <1>1, <2>1 DEF Directories
  <2> QED
    BY <1>2, <2>3, <2>4
<1>7. CASE Advise
  <2>1. UNCHANGED <<pkgTmp, dirs, layout, staged, outcome>> /\ stage = "advise" /\ stage' = "predeploy"
    BY <1>7 DEF Advise
  <2>2. Types' /\ Belongs' /\ Directories' /\ Links'
    BY <1>1, <2>1 DEF Types, SourceTypes, Belongs, Directories, Links
  <2>3. Loaded'
    BY <1>1, <2>1 DEF Loaded, Complete, Selected
  <2> QED
    BY <1>2, <2>2, <2>3
<1> QED
  BY <1>4, <1>5, <1>6, <1>7

\* The steps of create.
LEMMA Creating ==
  ASSUME DeployInv, Workspace \/ StoreFile \/ StoreManifest \/ IngestCleanup, UNCHANGED valuesVars
  PROVE  DeployInv'
<1> USE DEF DeployInv, stagingVars, sourceVars, Goto, Fail
<1>1. /\ stage \in {"workspace", "store", "cleanup"}
      /\ stage' \in {"load", "store", "cleanup", "done"} /\ input.command # "deploy"
      /\ UNCHANGED <<input, pinned, blobs, files, toParse>>
  BY DEF Workspace, StoreFile, StoreManifest, IngestCleanup, valuesVars, Belongs
<1>2. ValuesFiles'
  BY <1>1, ValuesKept
<1>3. outcome' \in {outcome, "ok", "error"}
  BY DEF Workspace, StoreFile, StoreManifest, IngestCleanup
<1>4. /\ Belongs' /\ Loaded'
      /\ origin' \in 0..input.versions
  BY <1>1, InputFacts DEF Workspace, StoreFile, StoreManifest, IngestCleanup, Belongs, Loaded, Types, SourceTypes
<1>5. CASE Workspace
  <2>1. /\ pkgTmp' \in {pkgTmp, "none", "package"} /\ dirs' \subseteq {"verify", pkgTmp'} \ {"none"}
        /\ stage' \in {"load", "cleanup"} /\ UNCHANGED <<staged, stored, layout>>
    BY <1>5 DEF Workspace
  <2>2. Types' /\ Links'
    BY <1>1, <1>3, <1>4, <2>1 DEF Types, SourceTypes, Links
  <2>3. Directories'
    BY <1>1, <2>1 DEF Directories
  <2> QED
    BY <1>2, <1>4, <2>2, <2>3
<1>6. CASE StoreFile
  <2>1. PICK t \in Selected : stored' = With(stored, t, LayoutFile(t))
    BY <1>6 DEF StoreFile
  <2>2. DOMAIN stored' = DOMAIN stored \union {t}
    BY <2>1 DEF With
  <2>3. UNCHANGED <<pkgTmp, dirs, layout, staged>> /\ stage = "store" /\ stage' = "store"
    BY <1>6 DEF StoreFile
  <2>4. Types' /\ Links' /\ Directories'
    BY <1>1, <1>3, <1>4, <2>2, <2>3, InputFacts DEF Types, SourceTypes, Links, Directories, Selected
  <2> QED
    BY <1>2, <1>4, <2>4
<1>7. CASE StoreManifest
  <2>1. UNCHANGED <<pkgTmp, dirs, layout, staged, stored>> /\ stage = "store" /\ stage' = "cleanup"
    BY <1>7 DEF StoreManifest
  <2>2. Types' /\ Links' /\ Directories'
    BY <1>1, <1>3, <1>4, <2>1 DEF Types, SourceTypes, Links, Directories
  <2> QED
    BY <1>2, <1>4, <2>2
<1>8. CASE IngestCleanup
  <2>1. /\ layout' = "none" /\ dirs' = dirs \ {pkgTmp, "verify"} /\ staged' = Empty
        /\ UNCHANGED <<pkgTmp, stored>> /\ stage' = "done"
    BY <1>8 DEF IngestCleanup
  <2>2. Types' /\ Links'
    BY <1>1, <1>3, <1>4, <2>1, NoVersions DEF Types, SourceTypes, Links
  <2>3. Directories'
    BY <1>1, <2>1 DEF Directories
  <2> QED
    BY <1>2, <1>4, <2>2, <2>3
<1> QED
  BY <1>5, <1>6, <1>7, <1>8

----------------------------------------------------------------------------
\* A step on the values files, or before them, has no bearing on what was loaded.
LEMMA Before ==
  ASSUME DeployInv, stage \in {"stage", "render", "parse"},
         stage' \in {"render", "parse", "load", "cleanup"},
         UNCHANGED <<input, layout, sourceVars>>, outcome' \in {outcome, "error"},
         \/ pkgTmp' \in {"colocated", "configured"} /\ dirs' = {pkgTmp'}
         \/ UNCHANGED <<pkgTmp, dirs>> /\ (stage # "stage" \/ stage' = "cleanup"),
         ValuesFiles',
         files' \union toParse' \subseteq User(MaxFiles) \union {Copy(j) : j \in 1..MaxFiles}
  PROVE  DeployInv'
<1> USE DEF DeployInv, sourceVars
<1>1. input.command = "deploy"
  BY DEF Belongs
<1>2. Types'
  BY DEF Types, SourceTypes
<1>3. Belongs' /\ Loaded' /\ Links'
  BY <1>1 DEF Belongs, Loaded, Links
<1>4. Directories'
  BY <1>1 DEF Directories
<1> QED
  BY <1>2, <1>3, <1>4

\* A staging directory is made, or none.
LEMMA StageKeeps == ASSUME DeployInv, Stage PROVE DeployInv'
<1> USE DEF DeployInv, valuesVars, Goto, Fail
<1>1. /\ stage = "stage" /\ stage' \in {"render", "cleanup"}
      /\ UNCHANGED <<input, layout, sourceVars, valuesVars>> /\ outcome' \in {outcome, "error"}
  BY DEF Stage
<1>2. dirs = {}
  BY <1>1 DEF Directories
<1>3. \/ pkgTmp' \in {"colocated", "configured"} /\ dirs' = {pkgTmp'}
      \/ UNCHANGED <<pkgTmp, dirs>> /\ stage' = "cleanup"
  BY <1>2 DEF Stage, MakeDir
<1>4. ValuesFiles'
  BY <1>1 DEF ValuesFiles, TempFiles, HasVars, Variables
<1> QED
  BY <1>1, <1>3, <1>4, Before DEF Types

\* The next copy is one of the package's files.
LEMMA NextCopy ==
  ASSUME DeployInv, stage = "render", Rendered < input.files
  PROVE  /\ Rendered + 1 \in 1..input.files /\ Rendered + 1 \in 1..MaxFiles
         /\ IsFiniteSet(toParse \union {Copy(Rendered + 1)})
<1>1. IsFiniteSet(toParse)
  BY DEF DeployInv, ValuesFiles
<1>2. Rendered \in Nat
  BY <1>1, FS_CardinalityType DEF Rendered
<1>3. IsFiniteSet(toParse \union {Copy(Rendered + 1)})
  BY <1>1, FS_AddElement
<1> QED
  BY <1>2, <1>3, InputFacts DEF DeployInv

\* A copy is noted in toParse as it is made; without variables nothing is made.
LEMMA RenderKeeps == ASSUME DeployInv, Render PROVE DeployInv'
<1> USE DEF DeployInv, stagingVars, Goto
<1>1. /\ stage = "render" /\ stage' \in {"render", "parse"}
      /\ UNCHANGED <<input, outcome, layout, pkgTmp, dirs, sourceVars>>
  BY DEF Render
<1>2. input.files \in 0..MaxFiles /\ input.files \in Nat /\ MaxFiles \in Nat
  BY InputFacts
<1>3. HasVars' = HasVars
  BY <1>1 DEF HasVars, Variables
<1>4. CASE /\ ~HasVars \/ input.files = 0
           /\ toParse' = User(input.files) /\ stage' = "parse" /\ files' = files
  <2>1. input.files = 0 => User(input.files) = {} /\ {Copy(i) : i \in 1..input.files} = {}
    BY DEF User
  <2>2. ValuesFiles'
    BY <1>1, <1>3, <1>4, <2>1 DEF ValuesFiles, TempFiles
  <2>3. User(input.files) \subseteq User(MaxFiles)
    BY <1>2 DEF User
  <2> QED
    BY <1>1, <1>4, <2>2, <2>3, Before DEF Types
<1>5. CASE /\ HasVars /\ Rendered < input.files
           /\ files' = files \union {Copy(Rendered + 1)}
           /\ toParse' = toParse \union {Copy(Rendered + 1)}
  <2> DEFINE c == Copy(Rendered + 1)
  <2>1. c \in {Copy(i) : i \in 1..input.files} /\ c \in {Copy(i) : i \in 1..MaxFiles}
        /\ IsFiniteSet(toParse')
    BY <1>1, <1>5, NextCopy
  <2> HIDE DEF c
  <2>2. files' = files \union {c} /\ toParse' = toParse \union {c}
    BY <1>5 DEF c
  <2>3. ValuesFiles'
    BY <1>1, <1>3, <1>5, <2>1, <2>2 DEF ValuesFiles, TempFiles
  <2> QED
    BY <1>1, <2>1, <2>2, <2>3, Before DEF Types
<1> QED
  BY <1>4, <1>5 DEF Render

\* A rendering that fails removes the copies, and no file of the user's.
LEMMA RenderFailsKeeps == ASSUME DeployInv, RenderFails PROVE DeployInv'
<1> USE DEF DeployInv, stagingVars, Fail
<1>1. /\ stage = "render" /\ stage' = "cleanup" /\ outcome' = "error" /\ HasVars
      /\ UNCHANGED <<input, layout, pkgTmp, dirs, sourceVars, toParse>>
  BY DEF RenderFails
<1>2. PICK fresh \in SUBSET {Copy(Rendered + 1)} :
        files' = (files \union fresh) \ (toParse \union fresh)
  BY DEF RenderFails
<1>3. files' = files \ (toParse \union fresh)
  BY <1>2
<1>4. User(input.files) \intersect (toParse \union fresh) = {}
  BY <1>1, <1>2 DEF ValuesFiles, TempFiles, User, Copy
<1>5. ValuesFiles'
  BY <1>1, <1>3, <1>4 DEF ValuesFiles, TempFiles
<1> QED
  BY <1>1, <1>3, <1>5, Before DEF Types

\* Parsing removes what was rendered.
LEMMA ParseKeeps == ASSUME DeployInv, Parse PROVE DeployInv'
<1> USE DEF DeployInv, stagingVars, Goto, Fail
<1>1. /\ stage = "parse" /\ stage' \in {"load", "cleanup"} /\ outcome' \in {outcome, "error"}
      /\ UNCHANGED <<input, layout, pkgTmp, dirs, sourceVars, toParse>>
      /\ files' = files \ TempFiles
  BY DEF Parse
<1>2. User(input.files) \intersect TempFiles = {}
  BY <1>1 DEF ValuesFiles, User, Copy
<1>3. ValuesFiles'
  BY <1>1, <1>2 DEF ValuesFiles
<1> QED
  BY <1>1, <1>3, Before DEF Types

----------------------------------------------------------------------------
\* The hooks, the cluster deploy, whose write finds no link, and the clean-up.
LEMMA OnTheCluster ==
  ASSUME DeployInv, PreDeploy \/ ClusterDeploy \/ PostDeploy \/ Cleanup
  PROVE  DeployInv'
<1> USE DEF DeployInv, stagingVars, sourceVars, Goto, Fail
<1>1. /\ stage \in {"predeploy", "cluster", "postdeploy", "cleanup"} /\ input.command = "deploy"
      /\ stage' \in {"cluster", "postdeploy", "cleanup", "done"}
      /\ UNCHANGED <<input, pkgTmp, origin, pinned, stored, valuesVars>>
      /\ outcome' \in {outcome, "ok", "error"}
  BY DEF PreDeploy, ClusterDeploy, PostDeploy, Cleanup, Belongs
<1>2. ValuesFiles'
  BY <1>1, ValuesKept
<1>3. Belongs'
  BY <1>1 DEF Belongs
<1>4. blobs' = blobs
  <2>1. Written(Mutable) = {}
    BY DEF Written, Links
  <2> QED
    BY <2>1 DEF PreDeploy, ClusterDeploy, PostDeploy, Cleanup
<1>5. CASE PreDeploy \/ ClusterDeploy \/ PostDeploy
  <2>1. /\ stage \in {"predeploy", "cluster", "postdeploy"}
        /\ stage' \in {"cluster", "postdeploy", "cleanup"} /\ UNCHANGED <<dirs, layout, staged>>
    BY <1>5 DEF PreDeploy, ClusterDeploy, PostDeploy
  <2>2. Types' /\ Links' /\ Directories'
    BY <1>1, <1>4, <2>1 DEF Types, SourceTypes, Links, Directories, valuesVars
  <2>3. Loaded'
    BY <1>1, <2>1 DEF Loaded, Complete, Selected
  <2> QED
    BY <1>2, <1>3, <2>2, <2>3
<1>6. CASE Cleanup
  <2>1. dirs' = dirs \ {pkgTmp} /\ layout' = "none" /\ staged' = Empty /\ stage' = "done"
    BY <1>6 DEF Cleanup
  <2>2. Types' /\ Links' /\ Directories' /\ Loaded'
    BY <1>1, <1>4, <2>1, NoVersions DEF Types, SourceTypes, Links, Directories, Loaded, valuesVars
  <2> QED
    BY <1>2, <1>3, <2>2
<1> QED
  BY <1>5, <1>6

\* Somebody replacing the source changes what is there to be read, nothing else.
LEMMA ReplacedKeeps == ASSUME DeployInv, Replaced, UNCHANGED valuesVars PROVE DeployInv'
<1> USE DEF DeployInv, stagingVars, valuesVars
<1>1. /\ UNCHANGED <<input, stage, outcome, pkgTmp, dirs, layout, pinned, staged, blobs, stored, valuesVars>>
      /\ origin' \in 0..input.versions
  BY InputFacts DEF Replaced
<1>2. Types' /\ Belongs' /\ Directories' /\ Links'
  BY <1>1 DEF Types, SourceTypes, Belongs, Directories, Links
<1>3. Loaded'
  BY <1>1 DEF Loaded, Complete, Selected
<1>4. ValuesFiles'
  BY <1>1 DEF ValuesFiles, TempFiles, HasVars, Variables
<1> QED
  BY <1>2, <1>3, <1>4

\* Every step keeps the invariant of the deployment.
LEMMA DeployInductive == DeployInv /\ [Next]_vars => DeployInv'
<1> SUFFICES ASSUME DeployInv, [Next]_vars PROVE DeployInv'
  OBVIOUS
<1>1. CASE Stage \/ Render \/ RenderFails \/ Parse
  BY <1>1, StageKeeps, RenderKeeps, RenderFailsKeeps, ParseKeeps
<1>2. CASE SourceStep /\ UNCHANGED valuesVars
  BY <1>2, Staging, Loading, Creating DEF SourceStep
<1>3. CASE PreDeploy \/ ClusterDeploy \/ PostDeploy \/ Cleanup
  BY <1>3, OnTheCluster
<1>4. CASE Replaced /\ UNCHANGED valuesVars
  BY <1>4, ReplacedKeeps
<1>5. CASE UNCHANGED vars
  <2>1. Types' /\ Belongs' /\ Directories' /\ Links'
    BY <1>5 DEF DeployInv, vars, stagingVars, sourceVars, valuesVars, Types, SourceTypes, Belongs,
       Directories, Links
  <2>2. Loaded'
    BY <1>5 DEF DeployInv, vars, stagingVars, sourceVars, Loaded, Complete, Selected
  <2>3. ValuesFiles'
    BY <1>5 DEF DeployInv, vars, valuesVars, ValuesFiles, TempFiles, HasVars, Variables
  <2> QED
    BY <2>1, <2>2, <2>3 DEF DeployInv
<1> QED
  BY <1>1, <1>2, <1>3, <1>4, <1>5 DEF Next, Step, Terminating

\* What a deployment does has no bearing on what create puts into a bundle.
LEMMA IngestStays == IngestInv /\ DeployInv /\ [Next]_vars => IngestInv'
<1> SUFFICES ASSUME IngestInv, DeployInv, [Next]_vars PROVE IngestInv'
  OBVIOUS
<1>1. CASE SourceStep \/ Replaced \/ UNCHANGED vars
  BY <1>1, IngestInductive DEF vars
<1>2. CASE Stage \/ Render \/ RenderFails \/ Parse \/ PreDeploy \/ ClusterDeploy \/ PostDeploy \/ Cleanup
  <2> USE DEF Goto, Fail, stagingVars, sourceVars, InPlace
  <2>1. /\ input.command = "deploy" /\ stage' # "store"
        /\ outcome' = "ok" => stage' \in {"cleanup", "done"}
        /\ UNCHANGED <<input, origin, stored>> /\ staged' \in {staged, Empty}
        /\ layout' \in {layout, "none"}
        /\ stage \notin {"store", "done"}
    BY <1>2 DEF Stage, Render, RenderFails, Parse, PreDeploy, ClusterDeploy, PostDeploy, Cleanup,
       DeployInv, Belongs, IngestInv, Where
  <2>2. pkgTmp' \in {pkgTmp, "colocated", "configured"}
    BY <1>2 DEF Stage, Render, RenderFails, Parse, PreDeploy, ClusterDeploy, PostDeploy, Cleanup, MakeDir
  <2>3. stage' \notin {"cleanup", "done"} => DOMAIN stored = {}
    BY <1>2 DEF Stage, Render, RenderFails, Parse, PreDeploy, ClusterDeploy, PostDeploy, Cleanup, IngestInv, Where
  <2>4. IsFiniteSet(Versions(staged)')
    BY <2>1, NoVersions DEF IngestInv, Where, Versions
  <2>5. Where'
    BY <2>1, <2>2, <2>3, <2>4 DEF IngestInv, Where
  <2> QED
    BY <2>1, <2>5 DEF IngestInv, InStore, InBundle
<1> QED
  BY <1>1, <1>2 DEF Next, Step, Terminating


\* What create stores of a package is what it verified, one version of it to the last
\* file, and the directory it came from is left alone.
THEOREM IngestsAsVerified == Spec => []IngestedAsVerified
<1>1. IngestInv => IngestedAsVerified
  <2> SUFFICES ASSUME IngestInv, outcome = "ok", input.command # "deploy"
               PROVE  LET versions == {stored[t] : t \in DOMAIN stored}
                      IN /\ DOMAIN stored = Selected
                         /\ input.command = "verify" => versions \subseteq Signed
                         /\ InPlace \/ Cardinality(versions) <= 1
    BY DEF IngestedAsVerified, IngestInv, Where
  <2> DEFINE versions == {stored[t] : t \in DOMAIN stored}
  <2>1. /\ DOMAIN stored = Selected
        /\ input.command = "verify" => versions \subseteq Signed
    BY DEF IngestInv, InBundle
  <2>2. ASSUME ~InPlace PROVE Cardinality(versions) <= 1
    <3>1. CASE Selected = {}
      <4>1. versions = {}
        BY <2>1, <3>1
      <4> QED
        BY <4>1, FS_EmptySet
    <3>2. CASE Selected # {}
      <4>1. PICK t \in Selected : TRUE
        BY <3>2
      <4>2. versions = {stored[t]}
        BY <2>1, <2>2, <4>1 DEF IngestInv, InBundle
      <4>3. Cardinality({stored[t]}) = 1
        BY FS_Singleton
      <4> HIDE DEF versions
      <4> QED
        BY <4>2, <4>3
    <3> QED
      BY <3>1, <3>2
  <2> QED
    BY <2>1, <2>2
<1> QED
  BY <1>1, DeployInitially, DeployInductive, IngestStays, PTL DEF Spec

\* Every reachable state is typed, every step belongs to its command, and directories,
\* layout, links and values files are as DeployInv says.
THEOREM DeployInvariant == Spec => []DeployInv
BY DeployInitially, DeployInductive, PTL DEF Spec

\* Hooks and cluster deploy find one whole version of the package where it was loaded,
\* write to no blob of the artifact, and no temporary directory and no rendered values
\* file outlives the command, the user's own files being kept.
THEOREM StagesSafely == Spec => []StagedWhileUsed
<1>1. DeployInv => StagedWhileUsed
  <2> SUFFICES ASSUME DeployInv PROVE StagedWhileUsed
    OBVIOUS
  <2> USE DEF DeployInv
  <2>1. stage \in {"predeploy", "cluster", "postdeploy"} =>
          layout \in dirs /\ layout = pkgTmp /\ Complete
    BY DEF Belongs, Directories, Loaded
  <2>2. stage = "done" => dirs = {} /\ files \subseteq User(input.files)
    BY DEF Directories, ValuesFiles
  <2> QED
    BY <2>1, <2>2 DEF StagedWhileUsed, Links, ValuesFiles
<1> QED
  BY <1>1, DeployInvariant, PTL
----------------------------------------------------------------------------
(* DeepMerge is defined by recursion over how deep the objects are nested:  *)
(* there is a function that satisfies its equation.  The induction over the *)
(* depth is by the least counterexample.                                    *)

\* A set of naturals has a least member.
LEMMA Least ==
  ASSUME NEW T, T \subseteq Nat, T # {}
  PROVE  \E x \in T : \A y \in T : x <= y
<1>1. PICK x \in T : \A y \in T : ~(<<y, x>> \in OpToRel(<, Nat))
  BY NatLessThanWellFounded, WFMin
<1>2. \A y \in T : ~(y < x)
  BY <1>1 DEF OpToRel
<1>3. \A y \in T : x \in Nat /\ y \in Nat /\ ~(y < x)
  BY <1>2
<1> QED
  BY <1>3

\* The right-hand side of the definition of Merged, with f for it.
MergeOf(f, src) ==
  [dst \in Maps |->
     [k \in DOMAIN dst \union DOMAIN src |->
        IF k \notin DOMAIN src THEN dst[k]
        ELSE IF k \in DOMAIN dst /\ BothObjects(dst[k], src[k])
        THEN Object(f[src[k].vars][dst[k].vars])
        ELSE src[k]]]

\* f merges overrides that are nested less than n deep.
Merges(f, n) == \A src \in Maps : Depth[src] < n => f[src] = MergeOf(f, src)

\* What is merged depends on f only for what is nested less deep.
LEMMA SameBelow ==
  ASSUME NEW src \in Maps, NEW f, NEW g,
         \A m \in Maps : Depth[m] < Depth[src] => f[m] = g[m]
  PROVE  MergeOf(f, src) = MergeOf(g, src)
<1>1. \A dst \in Maps : \A k \in DOMAIN src :
        BothObjects(dst[k], src[k]) => f[src[k].vars] = g[src[k].vars]
  BY MapsAssumption DEF BothObjects
<1>2. \A dst \in Maps :
        [k \in DOMAIN dst \union DOMAIN src |->
           IF k \notin DOMAIN src THEN dst[k]
           ELSE IF k \in DOMAIN dst /\ BothObjects(dst[k], src[k])
           THEN Object(f[src[k].vars][dst[k].vars])
           ELSE src[k]]
        = [k \in DOMAIN dst \union DOMAIN src |->
             IF k \notin DOMAIN src THEN dst[k]
             ELSE IF k \in DOMAIN dst /\ BothObjects(dst[k], src[k])
             THEN Object(g[src[k].vars][dst[k].vars])
             ELSE src[k]]
  BY <1>1
<1> QED
  BY <1>2 DEF MergeOf

\* Two functions that merge up to n agree up to n.
LEMMA MergesUnique ==
  ASSUME NEW n \in Nat, NEW f, NEW g, Merges(f, n), Merges(g, n)
  PROVE  \A m \in Maps : Depth[m] < n => f[m] = g[m]
<1> DEFINE Differ == {m \in Maps : Depth[m] < n /\ f[m] # g[m]}
           Depths == {Depth[m] : m \in Differ}
<1>0. SUFFICES ASSUME Differ # {} PROVE FALSE
  OBVIOUS
<1>1. Depths \subseteq Nat /\ Depths # {}
  <2>1. \A m \in Maps : Depth[m] \in Nat
    BY MapsAssumption
  <2> QED
    BY <1>0, <2>1
<1>2. PICK d \in Depths : \A e \in Depths : d <= e
  BY <1>1, Least
<1>3. PICK m \in Differ : Depth[m] = d
  BY <1>2
<1>4. \A c \in Maps : Depth[c] < Depth[m] => f[c] = g[c]
  <2> SUFFICES ASSUME NEW c \in Maps, Depth[c] < Depth[m], f[c] # g[c] PROVE FALSE
    OBVIOUS
  <2>1. Depth[c] \in Nat /\ Depth[m] \in Nat /\ Depth[m] < n
    BY <1>3, MapsAssumption
  <2>2. c \in Differ
    BY <2>1
  <2>3. Depth[c] \in Depths
    BY <2>2
  <2> QED
    BY <1>2, <1>3, <2>1, <2>3
<1>5. MergeOf(f, m) = MergeOf(g, m)
  BY <1>4, SameBelow
<1>6. f[m] = MergeOf(f, m) /\ g[m] = MergeOf(g, m)
  BY <1>3 DEF Merges
<1> QED
  BY <1>3, <1>5, <1>6

\* For every depth there is one.
LEMMA MergesExist == \A n \in Nat : \E f : Merges(f, n)
<1> DEFINE Without == {n \in Nat : ~\E f : Merges(f, n)}
<1>0. SUFFICES ASSUME Without # {} PROVE FALSE
  OBVIOUS
<1>1. PICK n \in Without : \A m \in Without : n <= m
  BY <1>0, Least
<1>2. n # 0
  <2>1. Merges(Depth, 0)
    BY MapsAssumption DEF Merges
  <2> QED
    BY <1>1, <2>1
<1>3. n - 1 \in Nat /\ n \in Nat
  BY <1>1, <1>2
<1>4. n - 1 \notin Without
  BY <1>1, <1>3
<1>5. PICK f : Merges(f, n - 1)
  BY <1>3, <1>4
<1> DEFINE g == [src \in Maps |-> MergeOf(f, src)]
<1>6. \A src \in Maps : Depth[src] < n => g[src] = MergeOf(g, src)
  <2> SUFFICES ASSUME NEW src \in Maps, Depth[src] < n PROVE g[src] = MergeOf(g, src)
    OBVIOUS
  <2>1. \A m \in Maps : Depth[m] < Depth[src] => f[m] = g[m]
    <3> SUFFICES ASSUME NEW m \in Maps, Depth[m] < Depth[src] PROVE f[m] = g[m]
      OBVIOUS
    <3>1. Depth[m] < n - 1
      BY <1>3, MapsAssumption
    <3>2. f[m] = MergeOf(f, m)
      BY <1>5, <3>1 DEF Merges
    <3> QED
      BY <3>2
  <2> HIDE DEF g
  <2>2. MergeOf(f, src) = MergeOf(g, src)
    BY <2>1, SameBelow
  <2> QED
    BY <2>2 DEF g
<1>7. Merges(g, n)
  BY <1>6 DEF Merges
<1> HIDE DEF g
<1> QED
  BY <1>1, <1>7

\* The merge of src on top of dst, key by key.
LEMMA MergedIs == \A src \in Maps : Merged[src] = MergeOf(Merged, src)
<1> DEFINE Upto(n) == CHOOSE f : Merges(f, n)
           h == [src \in Maps |-> Upto(Depth[src] + 1)[src]]
<1>1. \A n \in Nat : Merges(Upto(n), n)
  BY MergesExist
<1> HIDE DEF Upto
<1>2. \A src \in Maps : h[src] = MergeOf(h, src)
  <2> SUFFICES ASSUME NEW src \in Maps PROVE h[src] = MergeOf(h, src)
    OBVIOUS
  <2>0. Depth[src] \in Nat /\ Depth[src] + 1 \in Nat
    BY MapsAssumption
  <2> DEFINE f == Upto(Depth[src] + 1)
  <2>1. Merges(f, Depth[src] + 1)
    BY <1>1, <2>0
  <2>2. \A m \in Maps : Depth[m] < Depth[src] => f[m] = h[m]
    <3> SUFFICES ASSUME NEW m \in Maps, Depth[m] < Depth[src] PROVE f[m] = h[m]
      OBVIOUS
    <3>0. Depth[m] \in Nat /\ Depth[m] + 1 \in Nat
      BY MapsAssumption
    <3> DEFINE g == Upto(Depth[m] + 1)
    <3>1. Merges(g, Depth[m] + 1)
      BY <1>1, <3>0
    <3>2. h[m] = g[m]
      OBVIOUS
    <3> HIDE DEF f, g, h
    <3>3. Merges(f, Depth[m] + 1)
      <4>1. \A c \in Maps : Depth[c] \in Nat
        BY MapsAssumption
      <4>2. \A c \in Maps : Depth[c] < Depth[m] + 1 => Depth[c] < Depth[src] + 1
        BY <2>0, <3>0, <4>1
      <4> QED
        BY <2>1, <4>2 DEF Merges
    <3>4. f[m] = g[m]
      <4>1. Depth[m] < Depth[m] + 1
        BY <3>0
      <4> QED
        BY <3>0, <3>1, <3>3, <4>1, MergesUnique
    <3> QED
      BY <3>2, <3>4
  <2>3. h[src] = f[src]
    OBVIOUS
  <2> HIDE DEF f, h
  <2>4. f[src] = MergeOf(f, src)
    BY <2>0, <2>1 DEF Merges
  <2>5. MergeOf(f, src) = MergeOf(h, src)
    BY <2>2, SameBelow
  <2> QED
    BY <2>3, <2>4, <2>5
<1>3. h = [src \in Maps |-> MergeOf(h, src)]
  BY <1>2
<1> HIDE DEF h
<1>4. \E f : f = [src \in Maps |-> MergeOf(f, src)]
  BY <1>3
<1>5. Merged = CHOOSE f : f = [src \in Maps |-> MergeOf(f, src)]
  BY DEF Merged, MergeOf
<1>6. Merged = [src \in Maps |-> MergeOf(Merged, src)]
  BY <1>4, <1>5
<1> QED
  BY <1>6

\* What each layer holds, key by key.
LEMMA Held ==
  \A m \in Maps : \A k \in DOMAIN m :
    /\ k \in DOMAIN Upper /\ m[k].kind \in {"scalar", "list", "object"}
    /\ m[k].kind = "object" => m[k].vars \in Maps
BY MapsAssumption

\* The merge at a key.
LEMMA MergeAt ==
  ASSUME NEW dst \in Maps, NEW src \in Maps
  PROVE  /\ DOMAIN DeepMerge(dst, src) = DOMAIN dst \union DOMAIN src
         /\ \A k \in DOMAIN dst \union DOMAIN src :
              /\ k \notin DOMAIN src => DeepMerge(dst, src)[k] = dst[k]
              /\ k \in DOMAIN src /\ ~(k \in DOMAIN dst /\ BothObjects(dst[k], src[k])) =>
                   DeepMerge(dst, src)[k] = src[k]
              /\ k \in DOMAIN src /\ k \in DOMAIN dst /\ BothObjects(dst[k], src[k]) =>
                   DeepMerge(dst, src)[k] = Object(DeepMerge(dst[k].vars, src[k].vars))
<1>1. Merged[src] = MergeOf(Merged, src)
  BY MergedIs
<1>2. DeepMerge(dst, src) =
        [k \in DOMAIN dst \union DOMAIN src |->
           IF k \notin DOMAIN src THEN dst[k]
           ELSE IF k \in DOMAIN dst /\ BothObjects(dst[k], src[k])
           THEN Object(DeepMerge(dst[k].vars, src[k].vars))
           ELSE src[k]]
  BY <1>1 DEF MergeOf, DeepMerge
<1> QED
  BY <1>2

\* Without a layer below it a layer stays as it is.
LEMMA OnNothing == ASSUME NEW m \in Maps PROVE DeepMerge(NoKeys, m) = m
<1>1. NoKeys \in Maps /\ DOMAIN NoKeys = {}
  BY MapsAssumption DEF NoKeys
<1>2. Merged[m] = MergeOf(Merged, m)
  BY MergedIs
<1>3. Merged[m][NoKeys] = [k \in DOMAIN m |-> m[k]]
  BY <1>1, <1>2 DEF MergeOf
<1>4. m = [k \in DOMAIN m |-> m[k]]
  BY MapsAssumption
<1> QED
  BY <1>3, <1>4 DEF DeepMerge

\* The value at a key, and at a key of the object at a key.
At1(m, k) == IF k \in DOMAIN m THEN m[k] ELSE Missing
At2(m, k, j) ==
  IF k \notin DOMAIN m THEN Missing
  ELSE IF m[k].kind # "object" THEN Missing
  ELSE At1(m[k].vars, j)

LEMMA AtIs ==
  ASSUME NEW m, NEW k, NEW j
  PROVE  At(m, <<k>>) = At1(m, k) /\ At(m, <<k, j>>) = At2(m, k, j)
<1>1. Len(<<k>>) = 1 /\ <<k>>[1] = k
  OBVIOUS
<1>2. Len(<<k, j>>) # 1 /\ <<k, j>>[1] = k /\ <<k, j>>[2] = j
  OBVIOUS
<1>3. At(m, <<k>>) = At1(m, k)
  BY <1>1 DEF At, At1
<1>4. At(m, <<k, j>>) = At2(m, k, j)
  BY <1>2 DEF At, At1, At2
<1> QED
  BY <1>3, <1>4

LEMMA EffectiveIs ==
  ASSUME NEW base, NEW over, NEW k, NEW j
  PROVE  /\ Effective(base, over, <<k>>) =
              IF At1(over, k) # Missing THEN At1(over, k)
              ELSE IF At1(over, k).kind \in {"missing", "object"} THEN At1(base, k) ELSE Missing
         /\ Effective(base, over, <<k, j>>) =
              IF At2(over, k, j) # Missing THEN At2(over, k, j)
              ELSE IF At1(over, k).kind \in {"missing", "object"} THEN At2(base, k, j) ELSE Missing
<1>1. <<k>>[1] = k /\ <<k, j>>[1] = k
  OBVIOUS
<1>2. /\ At(over, <<k>>) = At1(over, k) /\ At(over, <<k, j>>) = At2(over, k, j)
      /\ At(base, <<k>>) = At1(base, k) /\ At(base, <<k, j>>) = At2(base, k, j)
  BY AtIs
<1>3. Effective(base, over, <<k>>) =
        IF At1(over, k) # Missing THEN At1(over, k)
        ELSE IF At1(over, k).kind \in {"missing", "object"} THEN At1(base, k) ELSE Missing
  BY <1>1, <1>2 DEF Effective
<1>4. Effective(base, over, <<k, j>>) =
        IF At2(over, k, j) # Missing THEN At2(over, k, j)
        ELSE IF At1(over, k).kind \in {"missing", "object"} THEN At2(base, k, j) ELSE Missing
  BY <1>1, <1>2 DEF Effective
<1> QED
  BY <1>3, <1>4

\* What is not an object is nothing else than the effective value, at a key ...
LEMMA KeyResolved ==
  ASSUME NEW base \in Maps, NEW over \in Maps, NEW k
  PROVE  LET is == At1(DeepMerge(base, over), k)
             effective == Effective(base, over, <<k>>)
         IN /\ is.kind = "object" <=> effective.kind = "object"
            /\ is.kind # "object" => is = effective
<1> DEFINE V == DeepMerge(base, over)
<1>0. Missing.kind = "missing"
  BY DEF Missing
<1>1. Effective(base, over, <<k>>) =
        IF At1(over, k) # Missing THEN At1(over, k)
        ELSE IF At1(over, k).kind \in {"missing", "object"} THEN At1(base, k) ELSE Missing
  BY EffectiveIs
<1>2. /\ DOMAIN V = DOMAIN base \union DOMAIN over
      /\ k \in DOMAIN base \ DOMAIN over => V[k] = base[k]
      /\ k \in DOMAIN over /\ ~(k \in DOMAIN base /\ BothObjects(base[k], over[k])) => V[k] = over[k]
      /\ k \in DOMAIN over /\ k \in DOMAIN base /\ BothObjects(base[k], over[k]) =>
           V[k] = Object(DeepMerge(base[k].vars, over[k].vars))
  BY MergeAt
<1>3. k \in DOMAIN over => over[k].kind \in {"scalar", "list", "object"} /\ over[k] # Missing
  BY <1>0, Held
<1> HIDE DEF V
<1>4. CASE k \notin DOMAIN over
  BY <1>0, <1>1, <1>2, <1>4 DEF At1, V
<1>5. CASE k \in DOMAIN over /\ ~(k \in DOMAIN base /\ BothObjects(base[k], over[k]))
  BY <1>0, <1>1, <1>2, <1>3, <1>5 DEF At1, V
<1>6. CASE k \in DOMAIN over /\ k \in DOMAIN base /\ BothObjects(base[k], over[k])
  <2>1. V[k].kind = "object" /\ At1(V, k) = V[k]
    BY <1>2, <1>6 DEF Object, At1
  <2>2. Effective(base, over, <<k>>).kind = "object"
    BY <1>1, <1>3, <1>6 DEF At1, BothObjects
  <2> QED
    BY <2>1, <2>2 DEF V
<1> QED
  BY <1>4, <1>5, <1>6

\* ... and below one.
LEMMA BelowResolved ==
  ASSUME NEW base \in Maps, NEW over \in Maps, NEW k, NEW j
  PROVE  LET is == At2(DeepMerge(base, over), k, j)
             effective == Effective(base, over, <<k, j>>)
         IN /\ is.kind = "object" <=> effective.kind = "object"
            /\ is.kind # "object" => is = effective
<1> DEFINE V == DeepMerge(base, over)
<1>0. Missing.kind = "missing"
  BY DEF Missing
<1>1. Effective(base, over, <<k, j>>) =
        IF At2(over, k, j) # Missing THEN At2(over, k, j)
        ELSE IF At1(over, k).kind \in {"missing", "object"} THEN At2(base, k, j) ELSE Missing
  BY EffectiveIs
<1>2. /\ DOMAIN V = DOMAIN base \union DOMAIN over
      /\ k \in DOMAIN base \ DOMAIN over => V[k] = base[k]
      /\ k \in DOMAIN over /\ ~(k \in DOMAIN base /\ BothObjects(base[k], over[k])) => V[k] = over[k]
      /\ k \in DOMAIN over /\ k \in DOMAIN base /\ BothObjects(base[k], over[k]) =>
           V[k] = Object(DeepMerge(base[k].vars, over[k].vars))
  BY MergeAt
<1>3. /\ k \in DOMAIN over => over[k].kind \in {"scalar", "list", "object"}
      /\ k \in DOMAIN over /\ over[k].kind = "object" => over[k].vars \in Maps
      /\ k \in DOMAIN base => base[k].kind \in {"scalar", "list", "object"}
      /\ k \in DOMAIN base /\ base[k].kind = "object" => base[k].vars \in Maps
  BY Held
<1> HIDE DEF V
<1> SUFFICES /\ At2(V, k, j).kind = "object" <=> Effective(base, over, <<k, j>>).kind = "object"
             /\ At2(V, k, j).kind # "object" => At2(V, k, j) = Effective(base, over, <<k, j>>)
  BY DEF V
<1>4. CASE k \notin DOMAIN over
  <2>1. At2(over, k, j) = Missing /\ At1(over, k) = Missing
    BY <1>4 DEF At2, At1
  <2>2. Effective(base, over, <<k, j>>) = At2(base, k, j)
    BY <1>0, <1>1, <2>1
  <2>3. At2(V, k, j) = At2(base, k, j)
    BY <1>2, <1>4 DEF At2
  <2> QED
    BY <2>2, <2>3
<1>5. CASE k \in DOMAIN over /\ over[k].kind # "object"
  <2>1. At2(over, k, j) = Missing /\ At1(over, k) = over[k]
    BY <1>5 DEF At2, At1
  <2>2. Effective(base, over, <<k, j>>) = Missing
    BY <1>1, <1>3, <1>5, <2>1
  <2>3. V[k] = over[k] /\ k \in DOMAIN V
    BY <1>2, <1>5 DEF BothObjects
  <2>4. At2(V, k, j) = Missing
    BY <1>5, <2>3 DEF At2
  <2> QED
    BY <2>2, <2>4
<1>6. CASE k \in DOMAIN over /\ over[k].kind = "object" /\ ~(k \in DOMAIN base /\ base[k].kind = "object")
  <2>1. V[k] = over[k] /\ k \in DOMAIN V
    BY <1>2, <1>6 DEF BothObjects
  <2>2. At2(V, k, j) = At2(over, k, j)
    BY <1>6, <2>1 DEF At2
  <2>3. At2(base, k, j) = Missing
    BY <1>6 DEF At2
  <2>4. At1(over, k).kind = "object"
    BY <1>6 DEF At1
  <2>5. Effective(base, over, <<k, j>>) = At2(over, k, j)
    BY <1>1, <2>3, <2>4
  <2> QED
    BY <2>2, <2>5
<1>7. CASE /\ k \in DOMAIN over /\ over[k].kind = "object"
           /\ k \in DOMAIN base /\ base[k].kind = "object"
  <2> DEFINE lower == base[k].vars
             upper == over[k].vars
  <2>1. lower \in Maps /\ upper \in Maps
    BY <1>3, <1>7
  <2>2. V[k] = Object(DeepMerge(lower, upper)) /\ k \in DOMAIN V
    BY <1>2, <1>7 DEF BothObjects
  <2>3. At2(V, k, j) = At1(DeepMerge(lower, upper), j)
    BY <2>2 DEF At2, Object
  <2>4. At2(over, k, j) = At1(upper, j) /\ At2(base, k, j) = At1(lower, j)
    BY <1>7 DEF At2
  <2>5. At1(over, k).kind = "object"
    BY <1>7 DEF At1
  <2>6. Effective(base, over, <<k, j>>) = IF At1(upper, j) # Missing THEN At1(upper, j) ELSE At1(lower, j)
    BY <1>1, <2>4, <2>5
  <2> HIDE DEF lower, upper
  <2>7. Effective(lower, upper, <<j>>) = IF At1(upper, j) # Missing THEN At1(upper, j) ELSE At1(lower, j)
    <3>1. Effective(lower, upper, <<j>>) =
            IF At1(upper, j) # Missing THEN At1(upper, j)
            ELSE IF At1(upper, j).kind \in {"missing", "object"} THEN At1(lower, j) ELSE Missing
      BY EffectiveIs
    <3> QED
      BY <1>0, <3>1
  <2>8. LET is == At1(DeepMerge(lower, upper), j)
            effective == Effective(lower, upper, <<j>>)
        IN /\ is.kind = "object" <=> effective.kind = "object"
           /\ is.kind # "object" => is = effective
    BY <2>1, KeyResolved
  <2> QED
    BY <2>3, <2>6, <2>7, <2>8
<1> QED
  BY <1>4, <1>5, <1>6, <1>7

\* The variables of a command are the merge of its two layers.
LEMMA VariablesAre ==
  ASSUME input \in Inputs
  PROVE  /\ input.defaults.vars \in Maps /\ input.config.vars \in Maps
         /\ Variables.vars = DeepMerge(input.defaults.vars, input.config.vars)
<1>1. input.defaults.vars \in Maps /\ input.config.vars \in Maps
  BY FilesAssumption
<1>2. DeepMerge(NoKeys, input.config.vars) = input.config.vars
  BY <1>1, OnNothing
<1> QED
  BY <1>1, <1>2 DEF Variables, Resolve, MergeVariables, Nil

\* The variables of the templates are, path by path, the user's and below them the
\* bundle's defaults.
THEOREM LayersAreResolved == Spec => []LayersResolved
<1>1. DeployInv => LayersResolved
  <2> SUFFICES ASSUME DeployInv, NEW path \in Paths,
                      \/ At(Variables.vars, path).kind # "object"
                      \/ Effective(input.defaults.vars, input.config.vars, path).kind # "object"
               PROVE  At(Variables.vars, path)
                        = Effective(input.defaults.vars, input.config.vars, path)
    BY DEF LayersResolved
  <2> DEFINE base == input.defaults.vars
             over == input.config.vars
  <2>1. base \in Maps /\ over \in Maps /\ Variables.vars = DeepMerge(base, over)
    BY VariablesAre DEF DeployInv, Types, SourceTypes
  <2> HIDE DEF base, over
  <2>2. CASE \E k \in DOMAIN Upper : path = <<k>>
    <3>1. PICK k \in DOMAIN Upper : path = <<k>>
      BY <2>2
    <3>2. At(DeepMerge(base, over), <<k>>) = At1(DeepMerge(base, over), k)
      BY AtIs
    <3> QED
      BY <2>1, <3>1, <3>2, KeyResolved DEF base, over
  <2>3. CASE \E k, j \in DOMAIN Upper : path = <<k, j>>
    <3>1. PICK k, j \in DOMAIN Upper : path = <<k, j>>
      BY <2>3
    <3>2. At(DeepMerge(base, over), <<k, j>>) = At2(DeepMerge(base, over), k, j)
      BY AtIs
    <3> QED
      BY <2>1, <3>1, <3>2, BelowResolved DEF base, over
  <2>4. path \in {<<k>> : k \in DOMAIN Upper} \/ path \in (DOMAIN Upper) \X (DOMAIN Upper)
    BY DEF Paths
  <2> QED
    BY <2>2, <2>3, <2>4
<1> QED
  BY <1>1, DeployInvariant, PTL

----------------------------------------------------------------------------
\* From parsing to the end of the deployment Zarf's variables are the flattened ones.
Flattened ==
  stage \in {"load", "files", "fallback", "advise", "predeploy", "cluster", "postdeploy"}
    /\ input.command = "deploy"
  => setVars \in Flatten(Variables.vars)

LEMMA FlattenedStays == DeployInv /\ Flattened /\ [Next]_vars => Flattened'
<1> SUFFICES ASSUME DeployInv, Flattened, [Next]_vars PROVE Flattened'
  OBVIOUS
<1> USE DEF Goto, Fail
<1>1. input' = input => Flatten(Variables.vars)' = Flatten(Variables.vars)
  BY DEF Flatten, Variables
<1>2. CASE Parse
  BY <1>1, <1>2 DEF Parse, Flattened
<1>3. CASE Stage \/ Render \/ RenderFails
  <2>1. stage' \in {"render", "parse", "cleanup"}
    BY <1>3 DEF Stage, Render, RenderFails
  <2> QED
    BY <2>1 DEF Flattened
<1>4. CASE UNCHANGED valuesVars /\ (SourceStep \/ Replaced)
  <2>1. input' = input
    BY <1>4 DEF SourceStep, Replaced, Workspace, OpenArtifact, OpenLocal, OpenRemote, Opened,
       StageBlob, PullFile, Put, LoadFromDir, LoadFails, Fallback, Advise, StoreFile,
       StoreManifest, IngestCleanup
  <2>2. stage = "workspace" => input.command # "deploy"
    BY DEF DeployInv, Belongs
  <2>3. \/ stage \in {"load", "files", "fallback", "advise", "predeploy", "cluster", "postdeploy"}
        \/ input.command # "deploy"
        \/ stage' \notin {"load", "files", "fallback", "advise", "predeploy", "cluster", "postdeploy"}
    BY <1>4, <2>2 DEF SourceStep, Replaced, Workspace, OpenArtifact, OpenLocal, OpenRemote, Opened,
       StageBlob, PullFile, Put, LoadFromDir, LoadFails, Fallback, Advise, StoreFile,
       StoreManifest, IngestCleanup
  <2> QED
    BY <1>1, <1>4, <2>1, <2>3 DEF Flattened, valuesVars
<1>5. CASE PreDeploy \/ ClusterDeploy \/ PostDeploy \/ Cleanup \/ UNCHANGED vars
  <2>1. /\ input' = input /\ setVars' = setVars
        /\ \/ stage \in {"load", "files", "fallback", "advise", "predeploy", "cluster", "postdeploy"}
           \/ stage' \notin {"load", "files", "fallback", "advise", "predeploy", "cluster", "postdeploy"}
    BY <1>5 DEF PreDeploy, ClusterDeploy, PostDeploy, Cleanup, vars, valuesVars
  <2> QED
    BY <1>1, <2>1 DEF Flattened
<1> QED
  BY <1>2, <1>3, <1>4, <1>5 DEF Next, Step, Terminating

\* Zarf gets every top-level scalar that is in force, and nothing else.
THEOREM VariablesReachZarf == Spec => []SetVariablesFaithful
<1>1. Init => Flattened
  BY DEF Init, SourceInit, Flattened
<1>2. DeployInv /\ Flattened => SetVariablesFaithful
  <2> SUFFICES ASSUME DeployInv, Flattened, stage \in {"predeploy", "cluster", "postdeploy"}
               PROVE  LET Of(n) == {k \in DOMAIN Upper : Upper[k] = n /\ TopLevel[k].kind = "scalar"}
                      IN /\ DOMAIN setVars = {n \in {Upper[k] : k \in DOMAIN Upper} : Of(n) # {}}
                         /\ \A n \in DOMAIN setVars : setVars[n] \in {TopLevel[k].is : k \in Of(n)}
    BY DEF SetVariablesFaithful
  <2> DEFINE base == input.defaults.vars
             over == input.config.vars
             V == DeepMerge(base, over)
  <2>1. base \in Maps /\ over \in Maps /\ Variables.vars = V
    BY VariablesAre DEF DeployInv, Types, SourceTypes
  <2>2. setVars \in Flatten(V)
    <3>1. input.command = "deploy"
      BY DEF DeployInv, Belongs
    <3> QED
      BY <2>1, <3>1 DEF Flattened
  <2> HIDE DEF base, over
  <2>3. DOMAIN V \subseteq DOMAIN Upper
    <3>1. DOMAIN V = DOMAIN base \union DOMAIN over
      BY <2>1, MergeAt
    <3>2. DOMAIN base \subseteq DOMAIN Upper /\ DOMAIN over \subseteq DOMAIN Upper
      BY <2>1, Held
    <3> QED
      BY <3>1, <3>2
  <2>4. \A k \in DOMAIN Upper :
          /\ k \in DOMAIN V /\ V[k].kind = "scalar" <=> TopLevel[k].kind = "scalar"
          /\ k \in DOMAIN V /\ V[k].kind = "scalar" => V[k] = TopLevel[k]
    <3> SUFFICES ASSUME NEW k \in DOMAIN Upper
                 PROVE  /\ k \in DOMAIN V /\ V[k].kind = "scalar" <=> TopLevel[k].kind = "scalar"
                        /\ k \in DOMAIN V /\ V[k].kind = "scalar" => V[k] = TopLevel[k]
      OBVIOUS
    <3>1. TopLevel[k] = Effective(base, over, <<k>>)
      BY DEF TopLevel, base, over
    <3>2. /\ At1(V, k).kind = "object" <=> TopLevel[k].kind = "object"
          /\ At1(V, k).kind # "object" => At1(V, k) = TopLevel[k]
      BY <2>1, <3>1, KeyResolved
    <3> HIDE DEF V
    <3>3. k \in DOMAIN V => At1(V, k) = V[k]
      BY DEF At1
    <3>4. k \notin DOMAIN V => At1(V, k).kind = "missing"
      BY DEF At1, Missing
    <3> QED
      BY <3>2, <3>3, <3>4
  <2> HIDE DEF V
  <2> DEFINE keys == {k \in DOMAIN V : IsScalar(V[k])}
             Of(n) == {k \in DOMAIN Upper : Upper[k] = n /\ TopLevel[k].kind = "scalar"}
  <2>5. \A k : k \in keys <=> k \in DOMAIN Upper /\ TopLevel[k].kind = "scalar"
    BY <2>3, <2>4 DEF IsScalar
  <2>6. \A k \in keys : V[k] = TopLevel[k]
    BY <2>3, <2>4 DEF IsScalar
  <2>7. /\ DOMAIN setVars = {Upper[k] : k \in keys}
        /\ \A n \in DOMAIN setVars : \E k \in keys : Upper[k] = n /\ setVars[n] = V[k].is
    BY <2>2 DEF Flatten
  <2> HIDE DEF keys
  <2>8. DOMAIN setVars = {n \in {Upper[k] : k \in DOMAIN Upper} : Of(n) # {}}
    BY <2>5, <2>7
  <2>9. \A n \in DOMAIN setVars : setVars[n] \in {TopLevel[k].is : k \in Of(n)}
    <3> SUFFICES ASSUME NEW n \in DOMAIN setVars
                 PROVE  setVars[n] \in {TopLevel[k].is : k \in Of(n)}
      OBVIOUS
    <3>1. PICK k \in keys : Upper[k] = n /\ setVars[n] = V[k].is
      BY <2>7
    <3>2. k \in Of(n) /\ V[k] = TopLevel[k]
      BY <2>5, <2>6, <3>1
    <3> QED
      BY <3>1, <3>2
  <2> QED
    BY <2>8, <2>9
<1> QED
  BY <1>1, <1>2, DeployInvariant, FlattenedStays, PTL DEF Spec
=============================================================================
