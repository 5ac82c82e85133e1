---------------------------- MODULE LegacyRegistry ----------------------------
(***************************************************************************)
(* The legacy CLI's bundles in a registry: `uds create` with a registry as *)
(* output (pkg/legacy/bundler) and `uds publish` of a tarball              *)
(* (pkg/legacy/bundle/tarball.go), over pkg/legacy/utils/boci.             *)
(*                                                                         *)
(* All bundles of one name share one repository: blobs, and tags that point*)
(* at a bundle's root manifest or at an index with a root per architecture.*)
(* Commands run one after another; any of them can fail or be killed at any*)
(* step, and another machine can publish for another architecture between  *)
(* any two.  A package manifest is a blob here: the registry does not know *)
(* that it has layers.                                                     *)
(***************************************************************************)
EXTENDS Integers, Sequences, FiniteSets

CONSTANTS
    Archs,        \* architectures
    Tags,         \* tags of the repository
    Bundles,      \* the bundles, see BundleOK
    MaxRetries,   \* maxRetries of PublishBundle
    MaxCommands,  \* bound: commands run
    MaxOthers     \* bound: bundles published by another machine

\* A package of a bundle is its manifest and the layers the bundle takes of it.
BundleOK(b) ==
    /\ b.arch \in Archs /\ b.version \in Tags
    /\ Len(b.pkgs) \in Nat /\ DOMAIN b.pkgs = 1 .. Len(b.pkgs)
    /\ \A i \in DOMAIN b.pkgs : IsFiniteSet(b.pkgs[i].want)

\* Packages are built for one architecture.
ASSUME RegistryAssumption ==
    /\ Bundles # {} /\ \A b \in Bundles : BundleOK(b) /\ b.id # "none"
    /\ \A b, c \in Bundles : b.id = c.id => b = c
    /\ \A b, c \in Bundles : \A i \in DOMAIN b.pkgs, j \in DOMAIN c.pkgs :
          b.pkgs[i].manifest = c.pkgs[j].manifest => b.arch = c.arch
    /\ MaxRetries \in Nat /\ MaxCommands \in Nat /\ MaxOthers \in Nat

Ids == {b.id : b \in Bundles}
ById(id) == CHOOSE b \in Bundles : b.id = id

Root(b) == <<"root", b.id>>
Own(b) == <<"yaml and config", b.id>>
Manifest(p) == <<"manifest", p.manifest>>
LayersOf(p) == {<<"layer", l>> : l \in p.want}
Packages(b) == {b.pkgs[i] : i \in DOMAIN b.pkgs}
Manifests(b) == {Manifest(p) : p \in Packages(b)}

\* All of a bundle: what layersToPush lists, and the root.
Whole(b) == {Root(b), Own(b)} \cup Manifests(b) \cup UNION {LayersOf(p) : p \in Packages(b)}
Blobs == UNION {Whole(b) : b \in Bundles}

NoEntries == [a \in Archs |-> "none"]
NoTag == [index |-> FALSE, of |-> NoEntries]
Bare(b) == [index |-> FALSE, of |-> [NoEntries EXCEPT ![b.arch] = b.id]]

VARIABLES
    pc,        \* what the running command does next, or "idle"
    command,   \* "publish" or "create"
    bundle,    \* the bundle the command is about
    at,        \* the tag its root is pushed with
    force,     \* --force-upload
    blobs,     \* the blobs and manifests in the repository
    tags,      \* tag -> what it points at
    index,     \* the entries of the index read before the root was pushed
    pkg,       \* the package in work, in a create
    todo,      \* what this attempt has still to push
    retries,   \* failed attempts in a row
    outcome,   \* how the last command ended
    commands, others,  \* counters for the bounds
    holes,     \* <<bundle, package>>: package a publish found in the repository (history)
    announced, \* <<tag, arch>>: entries that a publisher was told are there (history)
    torn       \* tags that an interruption, a race or --version has cut down (history)

work == <<command, bundle, at, force>>
history == <<holes, announced, torn>>
vars == <<pc, work, blobs, tags, index, pkg, todo, retries, outcome, commands, others, history>>

Init ==
    /\ pc = "idle" /\ command = "publish" /\ force = FALSE
    /\ bundle = (CHOOSE b \in Bundles : TRUE) /\ at = bundle.version
    /\ blobs = {} /\ tags = [t \in Tags |-> NoTag] /\ index = NoEntries
    /\ pkg = 1 /\ todo = {} /\ retries = 0
    /\ outcome = "none" /\ commands = 0 /\ others = 0
    /\ holes = {} /\ announced = {} /\ torn = {}

Goto(from, to) == pc = from /\ pc' = to
\* What the process knew is gone.
End(from, how) ==
    /\ pc = from /\ pc' = "idle" /\ outcome' = how
    /\ at' = bundle.version /\ force' = FALSE
    /\ pkg' = 1 /\ todo' = {} /\ retries' = 0 /\ index' = NoEntries

Begin(name, first) ==
    /\ Goto("idle", first)
    /\ commands < MaxCommands /\ commands' = commands + 1
    /\ command' = name /\ bundle' \in Bundles
    /\ outcome' = "none"
    /\ UNCHANGED <<blobs, tags, index, pkg, todo, retries, others, history>>

-----------------------------------------------------------------------------
(* `uds create` into a registry: for each package its manifest, then those  *)
(* of its layers that are not there, at last the bundle's own blobs.        *)

Create == Begin("create", "package") /\ at' = bundle'.version /\ force' = FALSE

PushManifest ==
    /\ Goto("package", "layers")
    /\ pkg <= Len(bundle.pkgs)
    /\ blobs' = blobs \cup {Manifest(bundle.pkgs[pkg])}
    /\ todo' = LayersOf(bundle.pkgs[pkg]) \ blobs
    /\ UNCHANGED <<work, tags, index, pkg, retries, outcome, commands, others, history>>

PushLayer ==
    /\ Goto("layers", "layers")
    /\ \E x \in todo : blobs' = blobs \cup {x} /\ todo' = todo \ {x}
    /\ UNCHANGED <<work, tags, index, pkg, retries, outcome, commands, others, history>>

NextPackage ==
    /\ Goto("layers", "package")
    /\ todo = {}
    /\ pkg' = pkg + 1
    /\ UNCHANGED <<work, blobs, tags, index, todo, retries, outcome, commands, others, history>>

PushOwn ==
    /\ Goto("package", "index")
    /\ pkg > Len(bundle.pkgs)
    /\ blobs' = blobs \cup {Own(bundle)}
    /\ UNCHANGED <<work, tags, index, pkg, todo, retries, outcome, commands, others, history>>

-----------------------------------------------------------------------------
(* `uds publish`.                                                           *)

\* The root goes to the tag of --version, if that is given.
Publish == Begin("publish", "index") /\ at' \in Tags /\ force' \in BOOLEAN

\* Faulty variant: what is there is pushed all the same.
NeverExists(x, present) == FALSE
\* forceUploadRepo.Exists is always false.
Exists(x, present) == ~force /\ x \in present

\* oras.Copy goes down from the root; a node that is there is skipped with all below it.
Reached(present) ==
    LET fresh == {p \in Packages(bundle) : ~Exists(Manifest(p), present)}
        nodes == {Root(bundle), Own(bundle)} \cup {Manifest(p) : p \in fresh}
                 \cup UNION {LayersOf(p) : p \in fresh}
    IN  IF Exists(Root(bundle), present) THEN {} ELSE {x \in nodes : ~Exists(x, present)}

\* GetIndex before the copy: a tag that points at a bare root has no index.
ReadIndex ==
    /\ Goto("index", "copy")
    /\ index' = IF tags[bundle.version].index THEN tags[bundle.version].of ELSE NoEntries
    /\ IF command = "publish"
       THEN /\ todo' = Reached(blobs)
            /\ holes' = IF Root(bundle) \in blobs /\ ~force THEN holes
                        ELSE holes \cup {<<bundle.id, m>> : m \in {x \in Manifests(bundle) : Exists(x, blobs)}}
       ELSE todo' = {Root(bundle)} /\ UNCHANGED holes
    /\ UNCHANGED <<work, blobs, tags, pkg, retries, outcome, commands, others, announced, torn>>

Below(x) == UNION {LayersOf(p) : p \in {q \in Packages(bundle) : Manifest(q) = x}}

\* Faulty variant: parents go with their children.
AnyOrder(x) == TRUE
\* A node is pushed after what it leads to, of what was reached.
Ready(x) == Below(x) \cap todo = {}

\* PostCopy resets the retries.
CopyBlob ==
    /\ Goto("copy", "copy")
    /\ \E x \in todo \ {Root(bundle)} :
          /\ Ready(x)
          /\ blobs' = blobs \cup {x}
          /\ todo' = todo \ {x}
    /\ retries' = 0
    /\ UNCHANGED <<work, tags, index, pkg, outcome, commands, others, history>>

\* The root is pushed last, with the tag; a root that was there is tagged.  In both
\* commands the tag is a bare root now.
PushRoot ==
    /\ Goto("copy", "update")
    /\ todo \subseteq {Root(bundle)}
    /\ blobs' = blobs \cup {Root(bundle)}
    /\ tags' = [tags EXCEPT ![at] = Bare(bundle)]
    /\ todo' = {} /\ retries' = 0
    /\ torn' = IF at = bundle.version THEN torn ELSE torn \cup {at}
    /\ UNCHANGED <<work, index, pkg, outcome, commands, others, holes, announced>>

MayRetry == retries < MaxRetries

\* An attempt fails, at a blob that is stored or is not; the next begins at the root.
\* (That the root itself is stored and the answer lost is left out.)
RetryCopy ==
    /\ Goto("copy", "copy")
    /\ command = "publish" /\ MayRetry
    /\ \E stored \in SUBSET {x \in todo \ {Root(bundle)} : Ready(x)} :
          /\ Cardinality(stored) <= 1
          /\ blobs' = blobs \cup stored
          /\ todo' = Reached(blobs')
    /\ retries' = retries + 1
    /\ UNCHANGED <<work, tags, index, pkg, outcome, commands, others, history>>

-----------------------------------------------------------------------------
(* UpdateIndex, at the bundle's own version.                                *)

\* Faulty variant: createIndex whatever there was.
CreateIndex(old, b) == [NoEntries EXCEPT ![b.arch] = b.id]
\* addToIndex, and createIndex where there was none.
AddToIndex(old, b) == [old EXCEPT ![b.arch] = b.id]

PushIndex ==
    /\ End("update", "ok")
    /\ tags' = [tags EXCEPT ![bundle.version] = [index |-> TRUE, of |-> AddToIndex(index, bundle)]]
    /\ announced' = announced \cup {<<bundle.version, bundle.arch>>}
    /\ UNCHANGED <<command, bundle, blobs, commands, others, holes, torn>>

\* A request is refused, or the process is killed.
Interrupt(how) ==
    /\ pc # "idle"
    /\ how = "error" => ~(pc = "copy" /\ command = "publish" /\ MayRetry)
    /\ End(pc, how)
    /\ torn' = IF pc = "update" THEN torn \cup {at} ELSE torn
    /\ UNCHANGED <<command, bundle, blobs, tags, commands, others, holes, announced>>

\* Another machine publishes for another architecture, from beginning to end.
Other ==
    /\ pc # "idle" /\ others < MaxOthers
    /\ others' = others + 1
    /\ \E b \in {c \in Bundles : c.arch # bundle.arch} :
          LET was == tags[b.version]
          IN  /\ blobs' = blobs \cup Whole(b)
              /\ tags' = [tags EXCEPT ![b.version] =
                             [index |-> TRUE,
                              of |-> AddToIndex(IF was.index THEN was.of ELSE NoEntries, b)]]
              /\ announced' = announced \cup {<<b.version, b.arch>>}
              /\ torn' = IF pc \in {"copy", "update"} THEN torn \cup {b.version} ELSE torn
    /\ UNCHANGED <<pc, work, index, pkg, todo, retries, outcome, commands, holes>>

Terminating == pc = "idle" /\ commands = MaxCommands /\ UNCHANGED vars

Step == \/ PushManifest \/ PushLayer \/ NextPackage \/ PushOwn \/ ReadIndex \/ CopyBlob
        \/ PushRoot \/ RetryCopy \/ PushIndex \/ Interrupt("error")

Next == Create \/ Publish \/ Step \/ Interrupt("killed") \/ Other \/ Terminating

\* A command that runs takes its next step, whatever the registry answers.
Spec == Init /\ [][Next]_vars /\ WF_vars(Step)

-----------------------------------------------------------------------------
(* Properties.                                                              *)

Types ==
    /\ command \in {"publish", "create"} /\ bundle \in Bundles /\ at \in Tags
    /\ blobs \subseteq Blobs /\ todo \subseteq Blobs
    /\ tags \in [Tags -> [index : BOOLEAN, of : [Archs -> Ids \cup {"none"}]]]
    /\ index \in [Archs -> Ids \cup {"none"}]
    /\ retries \in 0 .. MaxRetries

\* The layers a publish may leave out: those of a package whose manifest it found.
Spared(b) == UNION {LayersOf(p) : p \in {q \in Packages(b) : <<b.id, Manifest(q)>> \in holes}}

\* Whatever is interrupted and retried, a tag leads to nothing that is not there: roots
\* are pushed after all they lead to, package manifests after their layers.  Only the
\* layers of a package whose manifest was in the repository before an unforced publish may
\* be missing (an earlier bundle took other components of the package, or a create was
\* killed between the manifest, which it pushes first, and the layers).
TagComplete ==
    /\ Types
    /\ \A t \in Tags, a \in Archs :
          tags[t].of[a] # "none" =>
              LET b == ById(tags[t].of[a]) IN Whole(b) \ Spared(b) \subseteq blobs

\* An architecture that was announced under a tag stays there, other bundles being
\* published under it, but for the instant between root and index; unless a command ended
\* just there (the next one finds no index to extend), another machine wrote the tag after
\* the index was read, or --version put a bare root on it.
OthersSurvive ==
    \A e \in announced : \/ tags[e[1]].of[e[2]] # "none"
                         \/ e[1] \in torn
                         \/ pc = "update" /\ at = e[1]

\* Under any failures of the registry a command ends: a retry goes on where the last
\* attempt stopped, and three in a row that push nothing are the end.  Not so with
\* --force-upload, where every attempt pushes the first blobs again and resets the count.
PublishEnds == (pc # "idle" /\ ~force) ~> (pc = "idle")

\* "Publish a bundle from the local file system to a remote registry": after a publish
\* that reports success the bundle is in the registry.
PublishedWhole == outcome = "ok" => Whole(bundle) \subseteq blobs
=============================================================================
