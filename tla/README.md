# A verification development for uds-cli

uds-cli creates, publishes, deploys and removes *bundles*: ordered or
dependency-linked collections of Zarf packages that go onto one Kubernetes
cluster.  This directory holds TLA+ models of the parts of it where order,
failure and concurrency decide whether it is right, TLC configurations that check
the models on small instances, and TLAPS proofs of the properties that matter
most, for every instance.

Contents

1. The system
2. The modules and the code
3. What is checked
4. Bounds
5. Fairness
6. What is proved
7. Disagreements between code and documentation
8. What is not modelled
9. Plan
10. Running the checks

## 1. The system

Two generations live in one binary.  `internal/mode` picks one per invocation
from `CLI_FEATURES` and the flags.

* The **next** engine (`internal/{bundle,zarf,oci,artifact,cli/bundle}`,
  `pkg/bundle`) reads an HCL bundle definition in which packages name what they
  depend on, and deploys level by level, packages of a level side by side.
* The **legacy** engine (`pkg/legacy`, `internal/legacy`) reads a YAML list and
  works through it one package after the other, handing exported variables on.

Both drive Zarf (`packager.Deploy`, `packager.Remove`), which keeps one record of
each deployment on the cluster, and an OCI registry.

### Components

State, operations, what they interact with, what is hard, what makes them correct.

**Dependency graph** (`internal/bundle/dependency.go`).  Maps of edges and
in-degrees, built per call.  Operations: build and check for cycles, compute
levels, filter by `--packages`, look for selections that tear dependencies apart.
Called by deployment, removal, validation and creation.  Hard: Go's map order is
random and the algorithms iterate maps; `depends_on` lists may repeat a name or
name nothing.  Correct when the verdict and the levels are those of the transitive
closure in every order, and when looking at direct neighbours is enough.

**Deploy orchestrator** (`internal/zarf/deploy_orchestrator.go`,
`error_accumulator.go`).  One errgroup per level with a semaphore, an error
accumulator, the list of deployed packages.  The scheduler, one goroutine per
package and the caller's context interact through shared memory.  Hard: failure of
one sibling while others wait for a slot, cancellation between any two
statements, the moment a slot is released.  Correct when dependencies come first,
the limit holds, nothing outlives the call, and the error tells everything.

**Bundle deploy** (`internal/cli/bundle/{deploy,dev_deploy,deploy_runner}.go`,
`pkg/bundle/deploy.go`, `internal/zarf/deploy.go`).  Temporary directories, the
configuration in force, the result.  Four ways in (OCI reference, artifact,
definition, library call), checks made twice, hooks that run user code.  Hard:
early returns with resources to give back, checks made long before they matter.
Correct when an unforced deployment never puts a package on a cluster without its
dependencies, the result matches the cluster, and no directory is left.

**Package deploy and package sources** (`internal/zarf/{deploy,layout,source,local,
remote}.go`, `templating.go`).  A staging directory, rendered copies of values files,
the loaded layout.  A package comes out of an unpacked artifact, a directory, an
archive or a registry, for a deployment or for the store of a bundle that is created.
Hard: a full disk half-way, which moves the staging directory; files that are hard
links to the artifact's own blobs; sources that others replace between verification
and use; copies that hold configuration values beside files that belong to the user.
Correct when what is used is what was verified, nothing is left behind and nothing is
written or taken away that is not its own.

**Bundle remove** (`internal/cli/bundle/remove.go`, `pkg/bundle/remove.go`,
`internal/zarf/remove.go`).  A set of deployments read once, the results so far.
Hard: the set goes stale, through the call itself and through other users.
Correct when dependents go first and success means gone.

**OCI registry publication** (`internal/oci`, with `pkg/bundle/{push,pull,sign,
reconfigure}.go`).  The tag, its root index with one entry per architecture, the
child graphs, signature artifacts found by referrers or a legacy tag.  Several
processes share a registry that offers no compare-and-swap and whose answers get
lost.  Correct when a tag never names missing or unsigned content, other
architectures survive a push, evidence stays single, and a command can be repeated.

**Artifacts and layouts** (`internal/artifact`, `internal/oci/{store,extract}.go`,
`pkg/bundle/{create,reconfigure}.go`).  Directories and archives on disk.  Hard:
what a crash leaves, pruning by reachability, a check for a free name long before
the rename.

**Configuration** (`internal/bundle/{configuration,expressions}.go`,
`internal/cli/bundle/config_resolver.go`).  Layers of defaults and user configuration,
merged in depth and flattened to variables; locals evaluated in the order of their
references; calls of `file()` replaced by what they return, where a bundle is written
out.  Sequential; hard in its precedence, in collisions of keys whose order is that of
a Go map, and in a sort by search that also has to report cycles and unknown names.

**Legacy deploy and remove** (`pkg/legacy/bundle/{deploy,remove,common,overrides}.go`,
`internal/legacy/cli/{common,dev}.go`).  The list of deployed packages read from
the cluster, the exported variables of this run.  Nothing is rolled back, so what
counts is the sequence of commands, each of which may stop anywhere.  Correct when
`--resume` and `remove` pick up what earlier commands left, and imports come from
where they say.

**Legacy bundle files** (`pkg/legacy/bundler`, `pkg/legacy/cache`,
`pkg/legacy/bundle/{pull,remote,tarball,tarball_prefetch}.go`, `pkg/legacy/sources`).  A
layer cache on disk, an OCI layout per command, a tarball written by an archiver
goroutine that takes jobs from a channel and answers on another.  Hard: writes cut
short by an error or a kill, results read after the queue is empty, a tag that moves
while it is pulled, a tarball read in one pass.  Correct when what a command reports is
whole and all who read a bundle come to the same.

**Legacy bundles in a registry** (`pkg/legacy/bundler/{remotebundle,pusher}`,
`pkg/legacy/bundle/{publish,tarball}.go`, `pkg/legacy/utils/boci`).  One repository for
all bundles of a name, tags that point at a root or an index.  Hard: the order of
pushes, retries, and an index read long before it is written.  Correct when a tag leads
to nothing that is missing and other architectures stay under it.

**Legacy Pepr monitor** (`pkg/legacy/engine/{pepr,stream}`).  One goroutine per pod
and a flusher share the last event and its repeat counter, which they read outside the
mutex.  Correct when every event is told, once or by a true count.

Everything else (parsing, inspection, flag handling, terminal output) is sequential and keeps no state that outlives a call.
`PROJECT.json` lists all components with their files and what is modelled of each.

## 2. The modules and the code

| Module | Models | Kind |
|---|---|---|
| `BundleGraph` | reference definitions of levels and closure; the code's selection operators | operators |
| `DependencyGraph` | graph building, `detectCycles`, `TopologicalLevels`, `FilterLevels` | state machine, one step per loop iteration |
| `DeployContract` | what `DeployBundle` promises of a run | abstract specification |
| `DeployOrchestrator` | `deployOrchestrator.Run` and its goroutines | detailed specification, refines `DeployContract` |
| `BundleDeploy` | one deployment, from command to result | state machine, composes `DeployContract` |
| `PackageSource` | a package on its way from its source into a layout or a bundle's store | state machine |
| `Configuration` | merging, flattening | operators, with reference definitions |
| `PackageDeploy` | `ZarfDeployer.DeployPackage` | state machine, composes `PackageSource` and `Configuration` |
| `LocalOrder` | order and evaluation of locals, `file()` calls | recursive operators, with reference definitions |
| `ClusterContract` | what deployments and removals may do to a cluster | abstract specification |
| `BundleRemove` | one removal, over a shared cluster | state machine |
| `RegistryPublish` | push, reconfigure, sign and pull on one tag | state machine, several processes |
| `ArtifactArchive` | create, sign and reconfigure on local archives | state machine, several processes |
| `PeprStream` | the log streams of `uds monitor pepr` | state machine, several goroutines |
| `LegacyLocal` | legacy create, pull, inspect and package sources over cache and tarball | state machine, with a goroutine |
| `LegacyRegistry` | legacy create and publish into a registry | state machine, several processes |
| `LegacyBundle` | legacy deploy, resume, dev deploy, remove, in sequence | state machine |
| `BundleDeployProofs` | theorems about `BundleDeploy`, `ClusterContract` and `DependencyGraph` | proofs |
| `LegacyProofs` | theorems about `LegacyBundle` and `PeprStream` | proofs |
| `ArtifactArchiveProofs` | theorems about `ArtifactArchive` and `LegacyLocal` | proofs |
| other `*Proofs` | theorems about the module they are named after | proofs |
| `MC_*` | instances for TLC | |

They fit together like this:

    DependencyGraph --(compared with)--> BundleGraph <--(plans)-- BundleDeploy, BundleRemove
    DeployOrchestrator --(refines)--> DeployContract <--(steps of)-- BundleDeploy
    BundleDeploy, BundleRemove --(unforced steps are steps of)--> ClusterContract
    PackageDeploy --(extends)--> PackageSource, Configuration
    LocalOrder --(compared with its reference definitions in the run of)--> DependencyGraph

`BundleDeploy` does not repeat the orchestrator: between its stages `run` and `post`
it takes the steps of `DeployContract`, and `DeployOrchestrator` is shown to take no
others.  In turn an unforced deployment and an unforced removal take only steps of
`ClusterContract`, which is proved to keep every deployed package's dependencies
deployed; that they take no others is proved as well.

### DependencyGraph

`edges[p][d]` counts how often `p` lists `d`, since the in-degree counts entries
and not names.  `stack` is the call stack of the closure `dfs`; `RecStack` is
derived from it, and `remaining` is the counter of `TopologicalLevels`.  The reference it is compared with, `Ancestors`, is the least set closed
under dependencies: no search, and no recursion.  Where Go iterates a map, the model chooses any element
(`DFSRoot`, `DFSEdge`), so a run covers every map order.  A wave is computed in one
step: within a wave the order is immaterial because decrements commute, and `Relax`
says what the inner loops do in any order, including the guard that leaves counters
at zero alone.  Members of a level are sorted by name in the code; the model keeps
sets here and sorts in `MC_DeployOrchestrator`.

### DeployOrchestrator

`sched` is the program counter of `Run`, `task[p]` that of the goroutine of `p`.
Every read of a context, of the accumulator, and every write to shared state is a
step of its own.  `ctxErr` is the caller's context, `groupCancelled` the errgroup's
own; `gctx` has ended when either has.  `Holding` is the errgroup semaphore: a slot
is taken in `TakeSlot` and released only after the group has been cancelled
(`CancelGroup`, then `ReleaseSlot`), which is the order in `x/sync/errgroup`.
`DeployFails` may leave the package on the cluster, as a failing PostDeploy hook
does.  `failures` and `cluster` are what the world has seen and appear in no guard.

### BundleDeploy

`stage` is the position in the call chain; every stage may fail with the errors the
code can return there.  The checks are made where the code makes them, twice for
calls through the command and once for library calls.  `workspaces` are the directories
alive, `deferred` those whose removal the call chain has deferred: a pulled artifact's from
the start, an unpacked one's only when `PrepareDeploySource` has returned a source.  Until
then each of its six steps removes the directory itself when it fails (`Discard`), and
`close` removes what was deferred and nothing else.

### PackageDeploy, PackageSource, Configuration

`stage` is the position in the call chain of one command about one package: `deploy`, or
the ingest of a package by create, with (`verify`) or without (`ingest`) verification of
its signature.  `PackageDeploy` has staging in the colocated or the configured directory,
one step per rendered file, hooks and the deferred calls in their order; loading is
`PackageSource`, one step per file, with the one retry after a load that ran out of space.
The content of a file is the version of the package it belongs to: `origin` is what the
source holds now, `pinned` what it held when it was opened, `staged` what lies in the
staging directory and whether it is a hard link, `stored` what the bundle's store got.
`blobs` are the blobs of an artifact that still hold what was verified.  That the layout
Zarf loads is held against its checksums is the external half of `LoadFromDir`; that the
advisory verification of a deployment warns and goes on is `Advise`.  `Configuration` has
`DeepMerge` and `Flatten` as the code has them, the first by a recursive function over the
maps that can meet in a merge (`Merged`, over `Maps`), where `Flatten` gives every result the
order of a Go map may produce, and beside them a definition of the value at a path that
does not merge anything.  `Depth` is how deeply a map is nested: values come from files and
so end somewhere, which is all the recursion needs.

### LocalOrder

`Visit` is the closure `visit`: a local on the stack is being visited, one in the order has
been.  `ExtractLocals` evaluates in that order; `MaterializeFileCalls` replaces every
expression that calls `file()`, of a local or another attribute, by its value.  The reference definitions say what a reader of the bundle expects:
each local has the value of its expression with the values of the locals in it, an
undefined or cyclic reference is an error, and the rewritten bundle parses to the same
values where the files are not.  An expression is a call or a literal with the list of
locals it names, in the order in which the code finds them.

### BundleRemove

A deployment is a Zarf package name with a namespace, as in `deployedKey`; entries
of the bundle are not, and two may name the same deployment.  `deployed` is the
cached set with the flag `loaded`.  `Meddle` is any other user of the cluster.
`absent` and `meddled` are history.  Within a level any order is allowed, of which
the code's order is one.

### RegistryPublish

Every request to the registry is a step, with an answer: carried out, refused, or
carried out and reported as failed.  Content is addressed by digest, so a child
stands for its content and a root index for its entries; signature artifacts carry
a time of creation and so have an identity.  A graph is copied leaves first, so
`stored` only needs to know whose index is there.  `Request` says what each command
is asked to do, `Setting` which commands run, whether they overlap, whether answers
get lost, whether the registry answers the referrers API, and how often a failed
command is run again.  `Discoveries` is what `signatureReferences` may answer: the
referrers, or the legacy tag if there are none; the legacy tag alone also if the referrers
were refused; and nothing if there are none and the tag was refused.  `run[j].unseen` is
history: the evidence that was there when the command looked, and was not in the answer.

### ArtifactArchive

`disk[p]` is the archive at a path: the blobs of its OCI layout, the index that names
them, and the evidence of a signature with the index it was made over.  A blob is its
content, so equal content is one blob, as in the store.  `pc[j]` is the position of a
command in its call chain, `held[j]` what its deferred calls have to remove, `work[j]`
the layout it is building and `input[j]` the staged copy that a verifying reconfigure
goes on with.  Signing is one tail (`Open`, `Attest`, `Pack`, `Publish`) that `sign`
runs alone and the other two run on the output they have already published, so an
unsigned archive is visible for a moment, and stays if the process is killed there.
Reading an archive is one step, because a POSIX rename leaves a reader the file it
opened.  `before[j]` is history.

### PeprStream

`at[p]` is where the goroutine of a pod, or the flusher, is in `LogStream`, `LogFlush`,
`writeRepeatedEvent` and `updateRepeatCount`; every read and write of `lastEntry` and
`repeatCount` is a step, inside the mutex or outside it as in the code.  A line is a
record of what the parsers take from it.  The two halves of a body, verdict and text, are
compared as a whole.  `main` is `Start`, which returns when the pods are done, or ends
with the process without waiting for the flusher.  `suppressed` and the `line` of an entry
are history.

### LegacyLocal

A blob is `<<kind, id>>` and its file is absent, whole or cut.  `store` is the OCI layout
of the running command, `cache` outlives it.  `FetchRemote`, `CopyRemote`, `CacheLayer`
are the remote fetcher; `StartArchive` queues the jobs, `TakeJob` and `FinishJob` are the
archiver goroutine, `TestJobs` and `ReadResult` the loop that counts its answers.
`CacheMissing` is a layer to be cached that the copy did not bring.
`archive` is the tarball as an ordered list of entries.  `Pull` and what follows it are one
step per resolution of the tag.  Inspection and the loading of packages for a deploy read
an archive that no longer changes, so they are functions of it (`Passes`, `Unpacked`,
`Downloaded`) that the properties apply in every state; a pass is a recursion over the
entries (`RunPass`, `Handle`).  The order of a tarball is a rank of each path: the bundle's
own blobs, then package by package the manifest and after it its metadata, then the rest
(`Rank`, `ArchiveOrder`).

### LegacyRegistry

Commands run one after another in one repository; `Interrupt` ends one at any step,
`Other` is another machine that publishes for another architecture from beginning to end.
`Reached` is what `oras.Copy` goes for, given what is there; `Ready` is that it pushes a
node after what it leads to.  `PushRoot` writes the tag, `PushIndex` the index that was
read in `ReadIndex` with one entry more.  `holes`, `announced` and `torn` are history:
what a publish skipped because a manifest was there, what publishers were told, and which
tags lost entries by an interruption, a race or `--version`.

### LegacyBundle

`Begin` starts the next command with fresh local state, as a new process has.
`todo` is the set of entries left, from which `InTurn` takes the first or, for a removal,
the last; `exported` is `bundleExportedVars`; `loaded[i]` records
what entry `i` was loaded with.  A value is represented by where it comes from (the
export of an entry, the user, blank, unset), which is all the properties ask.
`LoadVariables` returns every value the random map order may produce.  `Kill` ends
the process at any step, `Meddle` is another user, `List` may fail silently as
`GetDeployedPackageIDs` does.  A deployment is *partial* from the first component
Zarf records to the last.  What the code reads from the cluster is read in the step
in which it reads it.

## 3. What is checked

| Run | Instance | Distinct states |
|---|---|---|
| `dependency_graph` | every graph over four packages with every selection; repeated and unknown names; every three locals | 2.1 M, up to symmetry |
| `deploy_orchestrator` | every plan of three packages, the diamond, four independent packages; two slots | 72 k |
| `bundle_deploy` | two packages by every way in; every selection of every acyclic bundle of three | 330 k |
| `package_deploy` | two values files under every pair of configuration layers; packages of three files from every source, replaced twice | 235 k |
| `bundle_remove` | two entries for one Zarf package, shared cluster; every selection of three | 190 k |
| `registry` | up to four overlapping commands; three in sequence with retries, refused or lost answers, with and without the referrers API | 580 k |
| `artifact_archive` | every pair and two triples of seven commands on two paths; six bundles found there, whole, damaged, signed or not | 153 k |
| `pepr_stream` | every log of three events of one pod, followed or not; every kind of line under every filter; two pods | 119 k |
| `legacy_bundle` | three bundles (a fourth is refused at creation), three of 21 commands in a row, one change by others | 110 k |
| `legacy_local` | four bundles of three packages that share an image, two commands in a row, one write cut short, one new publication of the tag | 1.7 M |
| `legacy_registry` | three bundles under one version, two tags, three commands in a row, one publication by another machine | 448 k |
| `legacy_registry_holes` | the same with two commands and nobody else; expects a violation (section 7) | |

Each property is one that some plausible fault breaks: `PROJECT.json` names, for each,
a faulty variant of a definition (they stand beside the definition in the module,
marked as such) under which TLC finds it violated.

**Dependency graph.**  `CycleVerdict`: `detectCycles` agrees with the transitive
closure whatever the order.  `LevelsAreWaves`: the levels are the largest possible
waves, the second cycle check is dead code after the first, and filtering keeps the order
even through packages that are filtered out.  `DirectChecksSuffice`: a selection without
a direct violation is closed transitively.  `LocalsResolve`: locals are put in an order
in which each follows what it names exactly if there is one, the error otherwise tells of
a real cycle or a name that is really undefined, the values are those of the reference
definition, and so they are after the bundle was written out without its files.

**Orchestrator.**  `LevelBarrier`, `NoStragglers`, `AllFailuresReported` (the error is
exactly the failures, not the skipped), `NoLateDeploy` (an action property: after the
group is cancelled nothing new is cleared), `RefinesContract` (including that the
limit holds and that a cancelled run is not reported as success) and `Terminates`.

**Bundle deploy.**  `DeploysDependenciesFirst` (every step is a step of
`ClusterContract`), `ResultTellsTruth`, `WorkspacesReclaimed` (no directory is left behind
by a failure at any step, before or after its removal is deferred, and none is removed
while it is used).

**Package deploy.**  `StagedWhileUsed`: hooks and the cluster deploy see the whole of one
version of the package in the directory it was loaded into, also after the retry; what is
written there never reaches the artifact; afterwards no temporary directory and no
rendered values file is left, and the user's own files are.  `IngestedAsVerified`: what
create puts into the bundle is what it verified.  `LayersResolved`: values files are
rendered with what the user's configuration says at each path, and with the defaults
where it says nothing.  `SetVariablesFaithful`: Zarf gets the top-level scalars in force,
and of two keys that differ in case only, one.

**Bundle remove.**  `RemovesDependentsFirst`, `SuccessIsComplete` (success has seen each
package off the cluster at some moment of the call, the strongest thing that is true
while others use the cluster), `UninstallsDeployed`.

**Registry.**  `RootComplete`: the tag names no child whose content is not stored.
`VerifiedArchive`: a pull under a policy keeps the evidence of the demanded signer, made
for the child it pulled.  `SignedWhenVisible`: a bundle that every publisher signs is never
visible without a signature, as long as no answer is lost, the registry answers the
referrers API and no two commands replace signatures at once.  `RetryNotRefused`: a push
is not refused because of its own earlier attempt alone.  `SingletonWhenSerial`: of
commands in sequence, one that published its evidence and succeeded leaves no other to
discover that it could have seen.  Section 7 says what happens outside these conditions.

**Archives.**  `SignedIsWhole`: what these commands signed covers the index it lies
beside and everything the index names is there.  `PrunedExactly`: pruning keeps all that
is reachable and nothing else, also where packages share a layer or an orphan was found;
an archive that was only signed has the files it was given with.
`VerifiedIsUsed`: what a reconfigure verified is what it rebuilds, although its source
may be replaced meanwhile.  `OutcomeIsTrue`: a failed command leaves its output as it was
and a successful one leaves it signed if that was asked.  One exception had to be
written into it: a create that writes over an older archive and then fails to sign
removes the output, and the older archive is gone with it.

**Pepr monitor.**  `CountsAreReal`: whatever is lost or doubled between goroutines, no
count is larger than the number of repeats so far.  `StoryKept`: with one pod the entries on
the terminal are lines of its log in their order, a line in none of them repeats the one
before it, and without a flusher each count is the number of lines left out where it stands.
One exception had to be written into it (`Alike`): a patch that cannot be decoded is rendered
as nothing, which is also what a flush leaves as the last body, so when the flusher clears
the last entry between the comparison of the headers and that of the bodies, such a line is
taken for a repetition of whatever has its header.  `FlushedEventually`: when following, a
repeat is told without waiting for another event.

**Legacy bundle files.**  `ArchiveWhole`: a create or pull that reports success leaves a
whole tarball, but for three causes that it names and that the code does not exclude: an
archiver error that is still unread when the queue is seen empty, a tag published anew
during the pull, and a layer that a cut cache file stands for.  These three are defects the
code has; what the property shows is that there is no fourth.  `ReadersAgree`: inspection
with and without the prefetch, and deployment from the tarball and through the cache,
find the same in any order of the tarball.

**Legacy registry.**  `TagComplete`: whatever is interrupted or retried, a tag leads to
nothing that is missing, except layers of a package whose manifest an unforced publish
found there.  `OthersSurvive`: an architecture that was announced under a tag stays there
unless a named event tore the tag, which says that nothing else takes it away.  `PublishEnds`: unless forced, a command ends under any
failures of the registry.

**Legacy deploy and remove.**  `WholeCommandsKeepPrefix`: whole-bundle commands, however cut short and in
whatever sequence, leave a prefix of the bundle on the cluster.  `SuccessIsSeen`:
success has seen each selected package complete (deploy) or gone (remove), unless the
packages could not be listed at all.  `ImportsFollowExports`: an import is heard from
the package it names, and is blank exactly if that package is not installed by the
same command, which `--packages` and `--resume` bring about.

## 4. Bounds

* *Packages.*  Three packages give every shape of two levels and every chain; the
  diamond is the smallest graph with a level of two between two levels; four
  independent packages with two slots give a scheduler that blocks while slots are
  both taken.  A fourth package in `DependencyGraph` allows cycles off the first
  path searched.  What does not depend on the number is proved for every number.
* *Concurrency 2.*  The least value at which deploys overlap and the scheduler blocks.
* *MaxRepeat 2.*  A list that names a package twice; a third adds no new case.
* *Calls in `BundleDeploy`.*  Limits 0 and 3 fall outside the range the
  configuration allows (here 1 to 2).  `HookLimits` stays within the range: a hook that
  leaves 0 would block the run for ever (section 7).
* *Package sources.*  Three files: the one that is written, the one that is parsed, and
  any other.  Three versions, of which the first and the last are signed, so that a source
  can turn into an unsigned one and back between two reads.
* *Configuration.*  Two layers with keys that differ in case and one key that is a scalar,
  a list or an object of up to two keys: every pair of kinds meets at the top and below.
* *Locals.*  Three give every cycle, chain, repetition and unknown name.
* *Removal.*  Two entries for one Zarf package suffice for aliasing.
* *Registry.*  Two architectures, one earlier bundle, `attempts` at most 2: a retry
  meets what one failure left.
* *Archives.*  Two packages that share a layer, one that is only found on the disk; two
  paths, since a command has at most one source and one output.  Two commands overlap in
  every way; of the threes, those run in which a create, a signature and a verifying
  reconfigure meet.
* *Pepr.*  Three events over three kinds show a repeat, a change and a repeat that a flush
  interrupts, and one log of four has a patch that is shown as nothing.  Two pods suffice for
  the races, and the properties claim little of them.
* *Legacy files.*  `MaxCommands` 2: one that leaves something in the cache and one that
  finds it.  `MaxFaults` and `MaxRebuilds` 1: each of the causes in `ArchiveWhole` needs
  one.
* *Legacy registry.*  Two architectures, one bundle that takes less of a package than
  another, `MaxRetries` 2, `MaxOthers` 1.  What is safe there is proved for every number.
* *Legacy.*  `MaxCommands` 3: a deploy, what interrupts it, and what picks it up.
  `Meddle` happens once.

## 5. Fairness

Safety runs need none.  Liveness assumes:

* `DeployOrchestrator`: weak fairness of the scheduler and of each goroutine.  The Go
  runtime runs every runnable goroutine, and `DeployPackage` returns because Zarf
  bounds its waits.  The caller's cancellation is not fair: it need not come.

* `PeprStream`: weak fairness of each goroutine, the flusher's timer included.  That logs
  go on is not assumed.
* `LegacyRegistry`: weak fairness of the steps of a running command, among them refusals:
  a request is answered or times out.  Kills and other machines need not come, and nothing
  is assumed of which requests succeed.

`BundleDeploy`, `PackageDeploy` and `BundleRemove` state weak fairness of the one
sequential call, whose prompts and hooks return; no liveness is claimed of them beyond
it.  `RegistryPublish`, `ArtifactArchive`, `LegacyBundle` and `LegacyLocal` state none:
commands may be killed.

## 6. What is proved

TLAPS checks every proof; the assumptions are the `ASSUME`s on the constants (finite
sets of packages, a positive limit, plans that are well-formed in the sense in which
`DependencyGraph` is checked to produce them), and nothing else.

**`DeployOrchestratorProofs`.**  `TypeCorrect`, `BarrierHolds`, `OrderHolds`,
`NoStragglersHolds`, `ReportsAllFailures`, `SuccessHolds`, `ParallelismBounded`,
`FailureStopsLevel`, `RunKeepsContract`.  None of the properties is inductive alone.
The barrier, for instance, needs to know that a level the scheduler has left is
complete, hence that leaving it without an error means every package in it was
deployed, hence that admission cannot have stopped early without a cause that would
have been seen.  The invariant `Inv` says this in parts: where the scheduler is and
which goroutines exist (`Placed`, `Passed`), that earlier levels are complete
(`EarlierDeployed`), that nothing runs outside the admission loop (`Quiet`), that
admission stops early only for an ended context (`Admitted`), that a context ends
only for a recorded error or a cancellation (`Causes`), that the accumulator, the
list and the world agree (`Records`), and what the returned value says (`Verdict`).
Each part has one lemma that every step preserves it.  `ParallelismBounded` counts slots
in an invariant of its own.  `RunKeepsContract` maps the initial state and every step
to the contract; the fairness half of the refinement is left to TLC.

**`BundleDeployProofs`.**  `ClusterStaysClosed`: any sequence of steps of
`ClusterContract` keeps the cluster closed under dependencies.  `DeploysKeepClosed`: an
unforced deployment takes no others, so a cluster that was closed stays so.
`DependenciesFirst`, from which that follows: for every bundle, selection, limit,
hook and interleaving.  The invariant ties together three checks made at different
times: the selection was found closed before the deployment began, the names were found
known when it was planned, and a running package has what it needs of the plan among
the succeeded, which are on the cluster.  `ResultIsTrue`: the result matches the cluster;
the cluster is untouched before the run (`Told`), and a run without an error has deployed
the whole plan.  `WorkspacesGiven`: the workspaces are there while they are used and gone in
the end.  Neither follows from what `close` does: the invariant (`Dirs`) is that at each
stage the directories alive are those whose removal was deferred and, while an artifact is
being unpacked, the one that every failure there has to remove.

It also holds what is proved of `DependencyGraph`, whose state and actions have names of
their own, so that one module can extend both.
`SearchFindsCycles`: the depth-first search reports a cycle if and only if there is one.
Its stack is a path of the graph that enters no package twice (`Path`); each frame has
finished what it went through, but for what the next one is about (`Waits`); and what has
been left leads only to what has been left, and not to itself (`Left`).  So an edge to an
open frame closes a cycle, and a package that is left cannot lie on one, since by
`AboveLeast` all it leads to has been left before it.  `LevelsHold`: the levels are the
reference waves, they leave no package out, the second cycle check never speaks after the
first, and a filtered plan is what was asked for in the order of the levels; the order is
what `Plans` of `DeployOrchestrator` takes as given.  While levels are built each one is the
wave of its number (`Layered`) and each counter is the number of entries that name a package
in no level yet (`Counting`, by `EntriesSplit`), so a package whose counter is zero has all
its dependencies behind it (`OneLevel`).  The loop that keeps what was requested is an
induction over levels (`KeptIsSelected`).  `SelectionsClosed`: the checks of
direct neighbours suffice, which is `AboveLeast` applied to the selection, or to what is not
removed.

**`BundleRemoveProofs`.**  `DependentsFirst`, `SuccessHolds`, `UninstallsOnlyDeployed`,
and `RemovesKeepClosed`, the counterpart of `DeploysKeepClosed`, as long as nobody else
changes the cluster and no two entries name one deployment.
The invariant relates the cached set to the cluster: alone, the cluster is what was
read minus what was removed; with others, what was not read has been absent at the
moment of reading.

**`ArtifactArchiveProofs`.**  `SignedStaysWhole`, `VerifiedStaysUsed`: for any commands,
bundles found and interleaving.  The invariant says what a command may pack, namely
something unsigned or something it verified and signed (`Packs`), that evidence of the
vendor's on a path or a staged copy was there before any command (`Foreign`, `Staged`),
and that between its check and its rename a verifying reconfigure holds a copy that
passed (`Uses`).  A step that leaves the disk alone is looked at for its own command
only (`Privately`); the two that write it go through `Publicly`.  Assumed is that
archives found with evidence of our own signer are whole, as earlier commands left them.
`PrunesExactly`, `OutcomesAreTrue`: a second invariant on top of the first, which has for
each command how far it is and with what in hand (`Progress`), that what it is about to
write was pruned or is what it was given to sign (`Tidy`), and what its output looks like
as long as nobody else has written it (`Told`).  That pruning is exact needs what an index
reaches to be additive (`ReachUnion`), and every package and definition to bring all it
reaches.

It also holds the theorems about `LegacyLocal`, whose names are distinct from those of
`ArtifactArchive`.  `ArchivesWhole`: for any bundles, layers, cache, faults, kills and
publications.  The invariant (`LocalInv`) says that a file that is cut, in cache, store or
tarball, is a layer that was noted (`CutNoted`); that while the archiver is at work every
path is in the tarball or still queued and on disk, unless a failed write has a result
still unread (`Queued`); and that a pull goes on with one root as long as nobody publishes
(`SameRoot`).  That the queue has every path of the bundle, and the tarball keeps the order
of the ranks, is `OrderIs`.
`AllReadersAgree` needs no more of the states and is about the passes.  A prefetch seeks
the manifests and the metadata of those it has parsed, and needs of that what it has not
captured (`Seeking`); what a pass has read is in the tarball, and of it no manifest is
needed any more, nor anything in the second pass (`Stands`).  So a whole tarball leaves
nothing needed, and one that leaves nothing needed gave what reading each package gives
(`PassesFind`, `PrefetchAgrees`).  That create's order lets it stop early is a matter of
ranks: a manifest has a lower one than its metadata (`ManifestThenMetadata`), and both lower
ones than components and images (`SoughtBeforeOthers`), so that nothing that has been read
is needed later and the parsers are satisfied before the first of those (`InTurn`).
Assumed are finitely many layers, a zarf.yaml in every package, entries that select all of
their package's metadata, and bundles told apart by their root.

**`RegistryPublishProofs`.**  `ContentBeforeTag`, `SignatureBeforeTag`,
`VerifiedBeforeKept`, `RetriesSucceed`, and of steps `OneSignatureAfterSigning`: for any
commands, children, architectures and settings, with any interleaving of their requests,
each under the conditions its property names.  One invariant carries all of them
(`Invariant`).  Of the repository it says that the tag names stored children only, that a
legacy tag leads to an artifact of its child, and which visible children have a signature
(`World`).  Of each command it says which steps belong to it (`Kinds`), that what it is
about to tag is stored (`Complete`), that the artifact of this attempt is new (`Made`),
what it discovered (`Found`), that a replacement and what it replaces are both there until
it deletes them (`Replaces`), that what it is about to tag has a signature (`Covers`), that
a verifying pull goes on with the one artifact it read (`Verifying`), that all attempts of
a push publish one artifact (`Retries`), and that a command which is alone knows all that
can be discovered of its child, but for what was not named to it (`Settled`).  `Others` says what a step of one command may
do to the repository for the invariant of another to hold; steps that leave the repository
alone go through `Quietly`, the others through `Loudly`.  `SingletonWhenSerial` is not a
matter of states: each step's lemma also proves what the command leaves behind if that
step is its last (`Finishes`).

**`LegacyRegistryProofs`.**  `TagsComplete`, `OthersStay`: for any bundles, tags, bounds and
interleaving with other machines.  That a tag is complete is not inductive: a root may only
appear when everything of its bundle is there (`Kept`), which for a create needs what it
has pushed so far (`Created`) and for a publish that a manifest it finds in place was
either skipped and noted, or came with its layers, also over any number of attempts
(`Copied`); packages of other architectures do not disturb this, since packages are built
for one (`OtherArchitecture`).  `Rooted` ties tags and the index that was read to roots.
`Announced` says where an entry is while a command holds the index in memory.

**`PackageDeployProofs`.**  `IngestsAsVerified`: for any packages, filters, sources and
signers, and any replacements of a source.  What a load let through is of one version and,
where it was verified, signed (`InStore`), which holds because nothing is written to a
layout any more while it is copied; only a directory read in place is still its owner's
(`Where`); and the bundle is a copy of it, file by file (`InBundle`).  `StagesSafely`: hooks
and the cluster deploy find one whole version of the package where it was loaded, write to
no blob of the artifact, and leave no directory and no rendered values file behind.
`DeployInvariant` has what that needs at each stage of `DeployPackage`: which stages belong
to which command (`Belongs`), which directories exist (`Directories`), that what passed the
checks is whole and in the staging directory (`Loaded`), that the one file which is written
is never a hard link to a blob (`Links`), and which copies of values files are there
(`ValuesFiles`).  `LayersAreResolved`: templates see the user's variables and below them
the bundle's defaults, path by path.  The merge is a recursion over nested maps, so it
first has to be shown that there is one function that satisfies its equation (`MergesExist`,
`MergesUnique`), and then what it holds under a key and below it (`KeyResolved`,
`BelowResolved`).  `VariablesReachZarf`: Zarf gets the top-level scalars in force; the
invariant is that its variables are the flattened ones from parsing on (`Flattened`).

**`LegacyProofs`.**  `PrefixStays`, `SuccessHolds`, `ImportsAreExports`: for any bundles and
commands, of which each may fail or be killed anywhere.  The invariant says how far the
command is (`Progress`); that every state a deployment has during the command was noted, and
that every entry no longer to be handled was seen as the command wants it (`Witnessed`);
that a deployment has all it is done with on the cluster, and a removal that could read the
cluster finds nothing there but what it is still to remove (`Ordered`); and that the exports
of every entry done are known, and of no other, and were what later entries were handed
(`Handed`).

It also holds `CountsStayReal`, of `PeprStream`, whose names are distinct from those of
`LegacyBundle`: no count the monitor keeps or prints is made up, whatever the goroutines do
that share the counter without its mutex.  `Control` says where each of them is and who holds the mutex,
`Counts` that every count, wherever it is on its way, is at most the number of events that
were taken for repeats so far.  `StoryStaysKept`: for any log of a single pod, `StoryKept`.
Its invariant `Tales` says what the goroutine has in hand (`InHand`); that between two lines
the shared last entry names the last line told, or is cleared, or half cleared, and that a
line about to be counted looks like that one (`Compared`); which lines are entries
(`InOrderOfLog`) and why the others are not (`AllTold`); and, without a flusher, that the
count of the lines left out after each entry is on the terminal, and for the last one until
its report in `repeatCount` (`Exact`).

**Model-checked only.**

* Liveness, and the fairness half of refinements.
* `LocalsResolve` of `LocalOrder`, whose operators are `RECURSIVE`, which the provers cannot
  reason about.

The provers cannot instantiate an induction principle.  Where a proof needs one (over the
rounds of `TopologicalLevels`, the nesting of maps, the entries of a tarball, the sizes of sets) it takes a least
counterexample, which well-foundedness gives, and derives a contradiction.

## 7. Disagreements between code and documentation

One has a run of its own, which TLC shows violated.

* `legacy_registry_holes`.  "Publish a bundle from the local file system to a remote
  registry", but a publish skips the layers of every package whose manifest it finds.  A
  create into the same repository pushes manifests before layers, so one that was killed
  leaves a manifest without them; so does a bundle that selects fewer components.  The
  publish reports success.  `--force-upload` pushes everything;
  `TestPublishWithForceUpload` knows a related case, of a registry that says it has what it
  has not.

The others were met while modelling.  The runs keep clear of them, as their properties say.

* *Hooks.*  "Only mutations to PackageDeployHooks are honored" (`pkg/bundle/deploy.go:70`),
  but the wrapper copies the whole configuration a PreDeploy hook leaves (line 333), and
  the concurrency is read from it, unvalidated (`internal/zarf/deploy.go:194`).
* *Removal.*  "Packages that are not currently deployed are skipped"
  (`internal/zarf/remove.go:139`), but of two entries for one deployment the second is
  uninstalled again, from the set that was read at the first.
* *Publication.*  "Other-arch bundle entries already present are preserved"
  (`internal/oci/transfer.go:62`), but two overlapping pushes merge into the same old root,
  and the later write at line 112 drops the entry of the other.  Two overlapping pushes of
  one signed archive both find no evidence and leave two artifacts, and later pushes and
  verified pulls are refused: hence `RetryNotRefused` speaks of a push's own artifacts only.
  Two commands that replace the signature of one child at once each delete what they found,
  and roll back when that is refused; together they can leave a visible bundle without any
  signature.  So can one command, where the roll back at `internal/oci/signature.go:73`
  meets a delete that was carried out and reported failed, or, without the referrers API,
  deletes the artifact that carries the legacy tag, by which alone the old one was found.
* *Signatures.*  "PublishBundleSignature publishes singleton Sigstore evidence for a
  child bundle index" (`internal/oci/signature.go:27`), but a referrers request that fails is
  passed over when the legacy tag resolves (line 125).  A `sign --overwrite` packs its
  artifact and is refused the tag; run again with the referrers refused, it finds only the
  older artifact, replaces that and succeeds, beside what its first attempt had left.  From
  then on the child has two artifacts, and verified pulls that are told of both refuse.  In
  the same way a push can succeed over a stray artifact it does not see, because the one at
  the legacy tag equals its own; and where there are no referrers, a tag that cannot be
  resolved for any reason is taken for no evidence, and a push replaces what is there
  without `overwrite`.
  `SingletonWhenSerial` and its theorem except the evidence that was not named, and no more.
* *Legacy dev deploy.*  "For dev mode update package ref for remote bundles"
  (`pkg/legacy/bundle/deploy.go:84`): the updated copy is shadowed, and the package is
  installed at the old reference.  An init package is left without a layout into which the
  next statement looks (`panic` in `Prepare`).
* *Legacy publish.*  `--version` is "the version of the bundle to be published"
  (`lang.go:71`), but it moves only the root: the index goes to the version in the bundle's
  metadata, and an index under the tag that was given is replaced by the bare root.  Between
  root and index every publish cuts the tag down to its own architecture; one that is
  interrupted there leaves it so.  With `--force-upload` each attempt pushes the first blobs
  again and resets the retries, so that over a registry that always fails at the same later
  blob it never ends.
* *Legacy create.*  `--signing-key` is documented to sign the bundle (`lang.go:41`), and the
  signature that is made is not handed on (`bundler.go`).  An error of the archiver that
  comes after its job was taken, and before the queue is empty, may be missed.
* *Monitor.*  "At the end of the stream" repeats are flushed (`engine/stream/common.go:28`),
  but nothing waits for the flusher, and without `--follow` there is none.  With several
  pods the unsynchronized reads lose and double repeats, and with one the flusher can make a
  patch that is shown as nothing pass for a repeat of another.
* *Locals.*  "Each local is evaluated after the locals it references"
  (`internal/bundle/expressions.go:259`), unless it names `local` as a whole or by a computed
  index, which `localDependencies` does not see.
* *Configuration.*  `concurrency = 0` in a file means the default without a word; with keys
  that differ in case only, each package of a bundle gets one of the two at random.

## 8. What is not modelled

* SBOMs and chart overrides: transformations of data, better tested than model-checked.
* What Zarf checks of a layout it loads: taken to be every file against its checksum.
* The order of a package's layers, and the partial writes inside one request or one copy
  other than those the models name.
* In `LegacyRegistry`, the lost answer to the push of a root, and two machines publishing
  for one architecture at once.
* Errors of a deferred `Close` of a file that was written to
  (`pkg/legacy/bundler/localbundle.go:305`, `pkg/legacy/bundle/pull.go:96`,
  `pkg/legacy/cache/cache.go:53`), which the code drops: writes fail when they are made.
* In `LegacyBundle`, variable names in lower case.  Exports are kept under their name in
  upper case (`pkg/legacy/bundle/deploy.go:185`) and imports looked up as written
  (`overrides.go:51`), but Zarf's schema admits upper-case variables only
  (`zarf.schema.json`, `^[A-Z0-9_]+$`), and an export that is no variable of its package
  ends the deploy (`deploy.go:182`).
* In `PeprStream`, torn reads of a Go string: strings are read whole.
* In `LegacyLocal`, two commands at once over one cache.
* Repository options, credentials, TLS: passed through.
* Kubernetes and Helm below Zarf: `packager.Deploy` succeeds, fails, or fails half-way.
* Failure of `os.RemoveAll`: the code logs or ignores it and goes on.
* File systems on which a rename does not replace: there the code removes the old archive
  first.
* Parsing, HCL expressions beyond references and `file()`, environment, flags and their
  help, output and logging.
* Vendored Zarf commands and test utilities.

## 9. Plan

Done: the core (graph, orchestrator, deployment, removal, publication, archives), package
sources, configuration and locals, the legacy engine with its files, registry and monitor,
and the proofs of section 6.

Left, in this order:

1. *Two processes over the legacy cache*, as actions of `LegacyLocal` with a second layout.
2. *Mode selection*, as operators compared with a reference definition.

## 10. Running the checks

    tlc -workers 2 -config DeployOrchestrator.cfg MC_DeployOrchestrator
    tlapm DeployOrchestratorProofs.tla

`PROJECT.json` lists, for each run, its module, its configuration and its properties;
for each definition, the source lines it models; and the hazards of the code with the
properties that cover them.
