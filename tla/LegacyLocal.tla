----------------------------- MODULE LegacyLocal -----------------------------
(***************************************************************************)
(* The legacy CLI's bundle files: `uds create` into a tarball, `uds pull`, *)
(* and the metadata `uds inspect` prefetches from either                   *)
(* (pkg/legacy/bundler, pkg/legacy/cache, pkg/legacy/bundle).              *)
(*                                                                         *)
(* Commands run one after another over one layer cache, and any of them can*)
(* fail or be killed at any step.  Each works in a temporary OCI layout,   *)
(* the store, that is its own.  A blob is <<kind, id>>; on disk it is      *)
(* "absent", "cut" (the file is there, its end is not) or "whole".         *)
(***************************************************************************)
EXTENDS Integers, Sequences, SequencesExt, FiniteSets

CONSTANTS
    Kind,         \* layer -> "zarf.yaml", "metadata", "config", "component" or "image"
    Contents,     \* package manifest -> the layers it lists, in order
    Bundles,      \* what can be bundled, see BundleOK; all of one name, version, arch
    MaxCommands,  \* bound: commands run
    MaxFaults,    \* bound: writes cut short
    MaxRebuilds   \* bound: times the tag is published anew by somebody else

Manifests == DOMAIN Contents
LayerIds == DOMAIN Kind

\* An entry of a bundle names a package and the layers its components select.
BundleOK(b) ==
    /\ b.id \in STRING
    /\ Len(b.pkgs) \in Nat \ {0} /\ DOMAIN b.pkgs = 1 .. Len(b.pkgs)
    /\ \A i \in DOMAIN b.pkgs :
          /\ b.pkgs[i].manifest \in Manifests /\ b.pkgs[i].remote \in BOOLEAN
          /\ b.pkgs[i].want \subseteq ToSet(Contents[b.pkgs[i].manifest])
          /\ \A l \in ToSet(Contents[b.pkgs[i].manifest]) :
                Kind[l] \in {"zarf.yaml", "metadata", "config"} => l \in b.pkgs[i].want

ASSUME LocalAssumption ==
    /\ IsFiniteSet(LayerIds)
    /\ \A m \in Manifests : /\ ToSet(Contents[m]) \subseteq LayerIds
                            /\ \E l \in ToSet(Contents[m]) : Kind[l] = "zarf.yaml"
    /\ \A b \in Bundles : BundleOK(b)
    /\ \A b, c \in Bundles : b.id = c.id => b = c
    /\ MaxCommands \in Nat /\ MaxFaults \in Nat /\ MaxRebuilds \in Nat

BlobOf(l) == <<"layer", l>>
Manifest(m) == <<"manifest", m>>
Root(b) == <<"root", b.id>>
Yaml(b) == <<"yaml", b.id>>
Config == <<"config", "bundle">>
Index == <<"file", "index.json">>
OciLayout == <<"file", "oci-layout">>

Blobs == {BlobOf(l) : l \in LayerIds} \cup {Manifest(m) : m \in Manifests}
         \cup {Root(b) : b \in Bundles} \cup {Yaml(b) : b \in Bundles} \cup {Config}

VARIABLES
    at,        \* what the running command does next, or "idle"
    tag,       \* the bundle the registry has under the tag
    bundle,    \* the bundle being made, or the first root a pull resolved
    root,      \* the root a pull resolved last
    pkg,       \* the entry of the bundle in work
    cache,     \* layer -> its file in the cache directory
    store,     \* blob -> its file in the command's OCI layout
    pull,      \* the layers to pull, then those still to be cached
    jobs,      \* the blobs the archiver has not taken yet
    busy,      \* the archiver is writing a job
    results,   \* results the archiver has sent and nobody has read
    archive,   \* the bundle file: who made it, of what root, the entries written
    outcome,   \* how the last command ended
    commands, faults, rebuilds,   \* counters for the bounds
    cut,       \* layers whose copy to or from the cache was ever cut short (history)
    moved      \* the tag was published anew during this pull (history)

workVars == <<bundle, root, pkg, store, pull>>
archiverVars == <<jobs, busy, results, archive>>
history == <<cut, moved>>
localVars == <<at, tag, workVars, cache, archiverVars, outcome, commands, faults, rebuilds, history>>

EmptyStore == [x \in Blobs |-> "absent"]
NoArchive == [by |-> "none", of |-> "", entries |-> <<>>, broken |-> FALSE]

LocalInit ==
    /\ at = "idle" /\ outcome = "none"
    /\ tag \in Bundles /\ bundle = tag /\ root = tag
    /\ pkg = 1 /\ pull = {}
    /\ cache = [l \in LayerIds |-> "absent"]
    /\ store = EmptyStore
    /\ jobs = <<>> /\ busy = FALSE /\ results = <<>>
    /\ archive = NoArchive
    /\ commands = 0 /\ faults = 0 /\ rebuilds = 0
    /\ cut = {} /\ moved = FALSE

Goto(from, to) == at = from /\ at' = to
End(from, how) == at = from /\ at' = "idle" /\ outcome' = how
Entry == bundle.pkgs[pkg]

\* Somebody publishes the bundle again under the same version.
PublishAnew ==
    /\ rebuilds < MaxRebuilds
    /\ rebuilds' = rebuilds + 1
    /\ tag' \in Bundles \ {tag}
    /\ moved' = TRUE
    /\ UNCHANGED <<at, workVars, cache, archiverVars, outcome, commands, faults, cut>>

\* A command begins with an empty layout; what an earlier one wrote stays.
Start(command) ==
    /\ Goto("idle", command)
    /\ commands < MaxCommands
    /\ commands' = commands + 1
    /\ outcome' = "none" /\ store' = EmptyStore /\ pkg' = 1 /\ pull' = {}
    /\ jobs' = <<>> /\ busy' = FALSE /\ results' = <<>>
    /\ moved' = FALSE
    /\ UNCHANGED <<tag, archive, cache, faults, rebuilds, cut>>

-----------------------------------------------------------------------------
(* The cache (pkg/legacy/cache).                                            *)

\* Use: a layer copied out of the cache as it is there, or cut short.
Use(l, failed) == IF l \in failed THEN "cut" ELSE cache[l]

\* CheckLayerExists for every wanted layer.  A layer that is in neither place is pulled;
\* one whose copy from the cache fails is as well, but leaves its file in the store.
CheckLayers(wanted) ==
    LET known == {l \in wanted : store[BlobOf(l)] = "absent" /\ cache[l] # "absent"}
    IN  \E failed \in SUBSET known :
            /\ Cardinality(failed) <= MaxFaults - faults
            /\ faults' = faults + Cardinality(failed)
            /\ cut' = cut \cup failed
            /\ store' = [x \in Blobs |->
                            IF \E l \in known : x = BlobOf(l) THEN Use(x[2], failed) ELSE store[x]]
            /\ pull' = pull \cup failed
                       \cup {l \in wanted : store[BlobOf(l)] = "absent" /\ cache[l] = "absent"}

\* Exists: any file of that name will do.
Cached(l) == cache[l] # "absent"

\* AddPulledImgLayers, a layer at a time, and Add.  The file is written in place: an error or a
\* kill leaves what has been written.
CacheLayer(from) ==
    /\ at = from
    /\ \E l \in pull : Kind[l] = "image" /\ store[BlobOf(l)] # "absent" /\
          /\ pull' = pull \ {l}
          /\ \/ /\ cache' = IF Cached(l) THEN cache ELSE [cache EXCEPT ![l] = store[BlobOf(l)]]
                /\ UNCHANGED <<at, outcome, faults, cut>>
             \/ /\ ~Cached(l) /\ faults < MaxFaults
                /\ cache' = [cache EXCEPT ![l] = "cut"]
                /\ faults' = faults + 1
                /\ cut' = cut \cup {l}
                /\ End(from, "error")
    /\ UNCHANGED <<tag, bundle, root, pkg, store, archiverVars, commands, rebuilds, moved>>

\* Add opens a layer to be cached that the copy did not bring: a pull copies below another
\* root, a create skips what lies below a manifest that is there.
CacheMissing(from) ==
    /\ End(from, "error")
    /\ \E l \in pull : Kind[l] = "image" /\ store[BlobOf(l)] = "absent" /\ ~Cached(l)
    /\ UNCHANGED <<tag, workVars, cache, archiverVars, commands, faults, rebuilds, history>>

AllCached == \A l \in pull : Kind[l] # "image"

-----------------------------------------------------------------------------
(* oras.Copy into the store: a node that is there already is skipped with   *)
(* all below it, and of the others those requested are copied, whole.       *)

CopyInto(requested) == [x \in Blobs |-> IF x \in requested /\ store[x] = "absent"
                                        THEN "whole" ELSE store[x]]

\* What a copy of one package reaches among the layers to pull.
Below(m) == IF store[Manifest(m)] # "absent" THEN {}
            ELSE {Manifest(m)} \cup {BlobOf(l) : l \in pull \cap ToSet(Contents[m])}

-----------------------------------------------------------------------------
(* uds create.                                                              *)

Create ==
    /\ Start("fetch")
    /\ bundle' \in Bundles
    /\ UNCHANGED root

\* remoteFetcher.Fetch: look in store and cache ...
FetchRemote ==
    /\ Goto("fetch", "copy")
    /\ pkg <= Len(bundle.pkgs) /\ Entry.remote
    /\ CheckLayers(Entry.want)
    /\ UNCHANGED <<tag, bundle, root, pkg, cache, archiverVars, outcome, commands, rebuilds, moved>>

\* ... copy the rest, or with nothing to pull push the manifest alone ...
CopyRemote ==
    /\ Goto("copy", "cache")
    /\ store' = CopyInto(IF pull = {} THEN {Manifest(Entry.manifest)} ELSE Below(Entry.manifest))
    /\ UNCHANGED <<tag, bundle, root, pkg, pull, cache, archiverVars, outcome, commands, faults, rebuilds, history>>

\* ... and cache what has been pulled.
NextPackage ==
    /\ Goto("cache", "fetch")
    /\ AllCached
    /\ pkg' = pkg + 1 /\ pull' = {}
    /\ UNCHANGED <<tag, bundle, root, store, cache, archiverVars, outcome, commands, faults, rebuilds, history>>

\* localFetcher.Fetch: every blob is pushed, verified, unless it is there.
FetchLocal ==
    /\ at = "fetch"
    /\ pkg <= Len(bundle.pkgs) /\ ~Entry.remote
    /\ store' = CopyInto({Manifest(Entry.manifest)} \cup {BlobOf(l) : l \in Entry.want})
    /\ pkg' = pkg + 1
    /\ UNCHANGED <<at, tag, bundle, root, pull, cache, archiverVars, outcome, commands, faults, rebuilds, history>>

\* A registry, the disk or the validation of a package refuses.
Fails ==
    /\ End(at, "error")
    /\ at \in {"fetch", "copy", "load", "checked", "pulled"}
    /\ UNCHANGED <<tag, workVars, cache, archiverVars, commands, faults, rebuilds, history>>

IsMetadata(l) == Kind[l] \in {"zarf.yaml", "metadata"}

\* perPkgPriority: what goes to the front for a package, the manifest and its metadata.
InFront(p) == {Manifest(p.manifest)}
              \cup {BlobOf(l) : l \in {k \in ToSet(Contents[p.manifest]) : IsMetadata(k)}}

\* Faulty variant: the metadata goes before the manifest that names it.
MetadataFirst(x) == IF x[1] = "manifest" THEN 1 ELSE 0
\* The manifest, then its metadata.
Turn(x) == IF x[1] = "manifest" THEN 0 ELSE 1

\* artifactPathMap.
Paths(b) == {Index, OciLayout, Root(b), Yaml(b), Config}
            \cup UNION {{Manifest(b.pkgs[i].manifest)} \cup {BlobOf(l) : l \in b.pkgs[i].want} :
                            i \in DOMAIN b.pkgs}

\* The members of a set in some order, one and the same for the same set.
Listed(set) ==
    LET order[s \in SUBSET set] ==
            IF s = {} THEN <<>> ELSE LET x == CHOOSE x \in s : TRUE IN Append(order[s \ {x}], x)
    IN  order[set]

\* priorityRank: the bundle's own blobs, then package by package, then the names that
\* are not in the list.  One that is listed for two packages has the later rank.
Rank(b) ==
    LET Listing(x) == {i \in DOMAIN b.pkgs : x \in InFront(b.pkgs[i])}
        Latest(x) == CHOOSE i \in Listing(x) : \A j \in Listing(x) : j <= i
    IN  [x \in Paths(b) |->
            IF x \in {OciLayout, Index, Root(b), Config, Yaml(b)} THEN 0
            ELSE IF Listing(x) # {} THEN 2 * Latest(x) + Turn(x)
            ELSE 2 * Len(b.pkgs) + 2]

\* slices.SortFunc: rank by rank.  Within a rank (the bundle's own blobs, the metadata of one
\* package, the rest) nothing depends on the order.
ArchiveOrder(b) ==
    LET upTo[r \in 0 .. 2 * Len(b.pkgs) + 2] ==
            (IF r = 0 THEN <<>> ELSE upTo[r - 1]) \o Listed({x \in Paths(b) : Rank(b)[x] = r})
    IN  upTo[2 * Len(b.pkgs) + 2]

\* FilesFromDisk needs every path of the map.
State(disk, x) == IF x \in {Index, OciLayout} THEN "whole" ELSE disk[x]
OnDisk(disk, x) == State(disk, x) # "absent"

\* The bundle's own blobs are pushed, and writeTarball truncates the file and queues
\* every job; a path of the map that is not there is an error.
StartArchive ==
    /\ at = "fetch"
    /\ pkg > Len(bundle.pkgs)
    /\ store' = CopyInto({Root(bundle), Yaml(bundle), Config})
    /\ archive' = [by |-> "create", of |-> bundle.id, entries |-> <<>>, broken |-> FALSE]
    /\ IF \A x \in Paths(bundle) : OnDisk(store', x)
       THEN Goto("fetch", "drain") /\ jobs' = ArchiveOrder(bundle) /\ UNCHANGED outcome
       ELSE End("fetch", "error") /\ UNCHANGED jobs
    /\ UNCHANGED <<tag, bundle, root, pkg, pull, cache, busy, results, commands, faults, rebuilds, history>>

\* The archiver goroutine takes a job ...
TakeJob ==
    /\ at \in {"drain", "select", "wait"}
    /\ jobs # <<>> /\ ~busy
    /\ busy' = TRUE
    /\ archive' = [archive EXCEPT !.entries = Append(@, [blob |-> Head(jobs), is |-> State(store, Head(jobs))])]
    /\ jobs' = Tail(jobs)
    /\ UNCHANGED <<at, tag, workVars, cache, results, outcome, commands, faults, rebuilds, history>>

\* ... writes it and sends the result.  Once a write has failed the tar writer refuses
\* the jobs that follow.
FinishJob ==
    /\ at \in {"drain", "select", "wait"}
    /\ busy
    /\ busy' = FALSE
    /\ \/ /\ ~archive.broken
          /\ results' = Append(results, "ok")
          /\ UNCHANGED <<archive, faults>>
       \/ /\ archive.broken \/ faults < MaxFaults
          /\ faults' = IF archive.broken THEN faults ELSE faults + 1
          /\ archive' = [archive EXCEPT !.broken = TRUE, !.entries = Front(@)]
          /\ results' = Append(results, "error")
    /\ UNCHANGED <<at, tag, workVars, cache, jobs, outcome, commands, rebuilds, history>>

\* jobLoop: while len(jobs) != 0 ...
TestJobs ==
    /\ Goto("drain", IF jobs # <<>> THEN "select" ELSE "wait")
    /\ UNCHANGED <<tag, workVars, cache, archiverVars, outcome, commands, faults, rebuilds, history>>

\* Faulty variant: a result is only counted.
Ignored(r) == FALSE
IsError(r) == r = "error"

\* ... read one result, when there is one.  An error ends the command, with the archiver
\* still at work and the file as far as it has been written.
ReadResult ==
    /\ at = "select"
    /\ results # <<>>
    /\ results' = Tail(results)
    /\ IF IsError(Head(results)) THEN End("select", "error") ELSE Goto("select", "drain") /\ UNCHANGED outcome
    /\ UNCHANGED <<tag, workVars, cache, jobs, busy, archive, commands, faults, rebuilds, history>>

\* archiveErrGroup.Wait: ArchiveAsync itself returns nil.
Archived ==
    /\ End("wait", "ok")
    /\ jobs = <<>> /\ ~busy
    /\ UNCHANGED <<tag, workVars, cache, archiverVars, commands, faults, rebuilds, history>>

-----------------------------------------------------------------------------
(* uds pull.  The tag is resolved four times.                               *)

PackagesOf(b) == {b.pkgs[i] : i \in DOMAIN b.pkgs}
ManifestsOf(b) == {p.manifest : p \in PackagesOf(b)}
LayersOf(b) == UNION {p.want : p \in PackagesOf(b)}

\* NewBundleProvider fetches the root; LoadBundle reads uds-bundle.yaml of that root ...
Pull ==
    /\ Start("load")
    /\ bundle' = tag
    /\ UNCHANGED root

\* ... resolves the root again, and looks for the layers the first one names ...
ResolvePull ==
    /\ Goto("load", "checked")
    /\ root' = tag
    /\ CheckLayers(LayersOf(bundle))
    /\ UNCHANGED <<tag, bundle, pkg, cache, archiverVars, outcome, commands, rebuilds, moved>>

\* ... and copies them from the tag, below a third root: of that one what was requested.
CopyPull ==
    /\ Goto("checked", "pulled")
    /\ LET shared == ManifestsOf(tag) \cap ManifestsOf(bundle)
       IN  store' = CopyInto({Root(tag), Yaml(bundle), Config} \cup {Manifest(m) : m \in shared}
                             \cup {BlobOf(l) : l \in pull \cap UNION {ToSet(Contents[m]) : m \in shared}})
    /\ UNCHANGED <<tag, bundle, root, pkg, pull, cache, archiverVars, outcome, commands, faults, rebuilds, history>>

PulledPaths == (Paths(bundle) \ {Root(bundle)}) \cup {Root(root)}

\* The path map has no order.  Here the blobs of a set come first, the others after
\* them: any of the metadata and manifests before or after any others.
Orders(paths) ==
    LET small == {x \in paths : \/ x[1] = "manifest"
                                \/ x[1] = "layer" /\ IsMetadata(x[2])}
    IN  {Listed(early) \o Listed(paths \ early) : early \in SUBSET small}

\* index.json is made for the root as it is resolved now; Archive is not asynchronous
\* and returns its error.
FinishPull ==
    /\ at = "pulled"
    /\ AllCached
    /\ \/ /\ \A x \in PulledPaths : OnDisk(store, x)
          /\ End("pulled", "ok")
          /\ \E order \in Orders(PulledPaths) :
                archive' = [by |-> "pull", of |-> tag.id, broken |-> FALSE,
                            entries |-> [i \in DOMAIN order |-> [blob |-> order[i], is |-> State(store, order[i])]]]
          /\ UNCHANGED faults
       \/ /\ \A x \in PulledPaths : OnDisk(store, x)
          /\ faults < MaxFaults /\ faults' = faults + 1
          /\ End("pulled", "error")
          /\ archive' = [by |-> "pull", of |-> tag.id, broken |-> TRUE, entries |-> <<>>]
       \/ /\ \E x \in PulledPaths : ~OnDisk(store, x)
          /\ End("pulled", "error")
          /\ archive' = [by |-> "pull", of |-> tag.id, broken |-> FALSE, entries |-> <<>>]
          /\ UNCHANGED faults
    /\ UNCHANGED <<tag, workVars, cache, jobs, busy, results, commands, rebuilds, history>>

\* The process is killed; what is on disk stays.
Killed ==
    /\ at # "idle"
    /\ End(at, "killed")
    /\ UNCHANGED <<tag, workVars, cache, archiverVars, commands, faults, rebuilds, history>>

Terminating == at = "idle" /\ commands = MaxCommands /\ UNCHANGED localVars

LocalNext ==
    \/ Create \/ FetchRemote \/ CopyRemote \/ CacheLayer("cache") \/ CacheMissing("cache") \/ NextPackage \/ FetchLocal
    \/ StartArchive \/ TakeJob \/ FinishJob \/ TestJobs \/ ReadResult \/ Archived
    \/ Pull \/ ResolvePull \/ CopyPull \/ CacheLayer("pulled") \/ CacheMissing("pulled") \/ FinishPull
    \/ Fails \/ Killed \/ PublishAnew \/ Terminating

LocalSpec == LocalInit /\ [][LocalNext]_localVars

-----------------------------------------------------------------------------
(* uds inspect: prefetchPackageMetadata reads the tarball once, or twice.   *)

\* The handler's state: what is needed, what has been captured, the manifests parsed
\* and how many entries were read before the parsers were satisfied.
Nothing(b) == [needed |-> {Manifest(m) : m \in ManifestsOf(b)}, captured |-> {}, parsed |-> {},
               read |-> 0, done |-> FALSE]

Needs(s, x) == {BlobOf(l) : l \in {k \in ToSet(Contents[x[2]]) : IsMetadata(k)}} \ s.captured

Handle(b, s, x) ==
    LET more == IF x[1] = "manifest" THEN Needs(s, x) ELSE {}
        needed == (s.needed \ {x}) \cup more
        parsed == IF x[1] = "manifest" THEN s.parsed \cup {x[2]} ELSE s.parsed
    IN  IF s.done THEN s
        ELSE IF x \notin s.needed THEN [s EXCEPT !.read = @ + 1]
        ELSE [needed |-> needed, captured |-> s.captured \cup {x}, parsed |-> parsed,
              read |-> s.read + 1,
              done |-> needed = {} /\ Cardinality(parsed) = Len(b.pkgs)]

RunPass(b, s, entries) ==
    LET after[n \in 0 .. Len(entries)] ==
            IF n = 0 THEN s ELSE Handle(b, after[n - 1], entries[n].blob)
    IN  after[Len(entries)]

AllParsed(b, s) == Cardinality(s.parsed) = Len(b.pkgs)

\* Faulty variant: one pass.
SinglePass(b, entries) == RunPass(b, Nothing(b), entries)
Passes(b, entries) ==
    LET first == RunPass(b, Nothing(b), entries)
    IN  IF first.needed # {} /\ AllParsed(b, first) THEN RunPass(b, first, entries) ELSE first

\* The prefetch gives up, and every package is read on its own, if something is missing.
GivesUp(b, s) ==
    \/ s.needed # {} /\ AllParsed(b, s)
    \/ \E p \in PackagesOf(b) :
          \/ p.manifest \notin s.parsed
          \/ ~\E l \in ToSet(Contents[p.manifest]) : Kind[l] = "zarf.yaml" /\ BlobOf(l) \in s.captured

Prefetched(s, p) == {l \in ToSet(Contents[p.manifest]) : IsMetadata(l) /\ BlobOf(l) \in s.captured}

\* LoadPackageMetadata: the metadata of one package, wherever it is in the tarball.
Extracted(entries, p) ==
    {l \in ToSet(Contents[p.manifest]) : IsMetadata(l) /\ \E i \in DOMAIN entries : entries[i].blob = BlobOf(l)}

\* getMetadata of a built bundle: what has been prefetched, or else the package's own read.
GetMetadata(b, s, entries, p) == IF GivesUp(b, s) THEN Extracted(entries, p) ELSE Prefetched(s, p)

-----------------------------------------------------------------------------
(* uds deploy and inspect: a package from the tarball, or through the cache *)
(* from the registry (pkg/legacy/sources).                                  *)

Sound(entries, x) == \A i \in DOMAIN entries : entries[i].blob = x => entries[i].is = "whole"

\* extractPackageManifest: the manifest is there and has its digest.
ManifestFound(entries, p) ==
    /\ \E i \in DOMAIN entries : entries[i].blob = Manifest(p.manifest)
    /\ Sound(entries, Manifest(p.manifest))

\* extractPkgFromBundle: what the tarball has of the layers the manifest lists, also of
\* those that are there for another package; each must have its size and digest.
Unpacked(entries, p) ==
    LET found == {l \in ToSet(Contents[p.manifest]) : \E i \in DOMAIN entries : entries[i].blob = BlobOf(l)}
    IN  [ok |-> ManifestFound(entries, p) /\ \A l \in found : Sound(entries, BlobOf(l)),
         files |-> [l \in found |-> "whole"]]

\* Faulty variant: what is in the cache is not fetched, and not copied either.
DownloadedMissing(p) == [ok |-> TRUE, files |-> [l \in {k \in p.want : ~Cached(k)} |-> "whole"]]
\* downloadPkgFromRemoteBundle: images from the cache, as they are, the rest fetched.
Downloaded(p) ==
    [ok |-> TRUE,
     files |-> [l \in p.want |-> IF Kind[l] = "image" /\ Cached(l) THEN cache[l] ELSE "whole"]]

\* handleFilter: components were left out.
IsPartial(p) == p.want # ToSet(Contents[p.manifest])

\* LoadPackage ends with Zarf's LoadFromDir, which checks every file and, unless the
\* package is partial, that none is missing.
Loads(got, p) ==
    /\ got.ok
    /\ \A l \in DOMAIN got.files : got.files[l] = "whole"
    /\ IsPartial(p) \/ DOMAIN got.files = ToSet(Contents[p.manifest])

\* TarballBundle.LoadPackage and RemoteBundle.LoadPackage.
LoadsTarball(entries, p) == Loads(Unpacked(entries, p), p)
LoadsRemote(p) == Loads(Downloaded(p), p)

\* RemoteBundle.LoadPackageMetadata.
Fetched(p) == {l \in ToSet(Contents[p.manifest]) : IsMetadata(l)}

-----------------------------------------------------------------------------
(* Properties.                                                              *)

Types ==
    /\ tag \in Bundles /\ bundle \in Bundles /\ root \in Bundles
    /\ cache \in [LayerIds -> {"absent", "cut", "whole"}]
    /\ store \in [Blobs -> {"absent", "cut", "whole"}]
    /\ pull \subseteq LayerIds
    /\ outcome \in {"none", "ok", "error", "killed"}

Of == CHOOSE b \in Bundles : b.id = archive.of
Held == {archive.entries[i].blob : i \in DOMAIN archive.entries}
Unread == \E i \in DOMAIN results : results[i] = "error"

\* A create or pull that reports success leaves a tarball that holds all its index.json
\* leads to, every file of it whole.  What can come between, and nothing else does: an
\* archiver's error that is still unread when the queue has been seen empty (writeTarball),
\* a tag published anew between the four times a pull resolves it, and a layer that the
\* cache has ever held or handed out cut short (cache.Add, cache.Use).
ArchiveWhole ==
    /\ Types
    /\ outcome = "ok" =>
          /\ Paths(Of) \subseteq Held \/ (archive.by = "create" /\ Unread) \/ (archive.by = "pull" /\ moved)
          /\ \A i \in DOMAIN archive.entries :
                archive.entries[i].is # "whole" => archive.entries[i].blob \in {BlobOf(l) : l \in cut}

Distinct(b) == Cardinality(ManifestsOf(b)) = Len(b.pkgs)

\* Whatever the order of the tarball, one or two passes prefetch what reading each package
\* on its own gives; of a tarball with something missing the prefetch gives up and each
\* package is read on its own.  No two entries of the bundle are one package: of such a
\* bundle the parsed manifests never come to the number of entries, no second pass is
\* made, and a signature that lies before its manifest is left out.  "Consumers reading
\* uds-bundle.yaml (and friends) can stop streaming early": of a whole tarball made by
\* create no component and no image is read.
InspectAgrees ==
    LET s == Passes(Of, archive.entries)
        whole == Paths(Of) \subseteq Held
    IN  /\ whole => ~GivesUp(Of, s)
        /\ \A p \in PackagesOf(Of) :
              GetMetadata(Of, s, archive.entries, p) = Extracted(archive.entries, p)
        /\ whole => \A p \in PackagesOf(Of) : Extracted(archive.entries, p) = Fetched(p)
        /\ whole /\ archive.by = "create" =>
              \A i \in 1 .. s.read :
                  archive.entries[i].blob[1] = "layer" => IsMetadata(archive.entries[i].blob[2])

\* A package that can be deployed has every layer its entry selects, from a tarball with
\* nothing missing and from the registry; it cannot only if a layer was cut short.
DeployAgrees(p, loads, got) ==
    IF loads THEN p.want \subseteq DOMAIN got.files ELSE cut \cap ToSet(Contents[p.manifest]) # {}

\* All who read a bundle agree on it: inspect with and without the prefetch, from the
\* tarball and from the registry, and deploy from the tarball and through the cache.
ReadersAgree ==
    /\ outcome = "ok" /\ Distinct(Of) => InspectAgrees
    /\ outcome = "ok" /\ Paths(Of) \subseteq Held =>
          \A p \in PackagesOf(Of) : DeployAgrees(p, LoadsTarball(archive.entries, p), Unpacked(archive.entries, p))
    /\ at = "idle" => \A p \in PackagesOf(tag) : DeployAgrees(p, LoadsRemote(p), Downloaded(p))
=============================================================================
