---------------------------- MODULE ArtifactArchive ----------------------------
(***************************************************************************)
(* Bundle archives on the local disk, and the commands that write them:    *)
(* create, sign and reconfigure (pkg/bundle/{create,sign,reconfigure}.go)  *)
(* over internal/artifact (create.go, archive.go) and internal/oci/store.go.*)
(*                                                                         *)
(* An archive is an OCI layout, blobs under an index, with evidence of a   *)
(* signature of that index beside it.  Each command works in private       *)
(* workspaces, packs a temporary file next to its output and renames it    *)
(* into place.  Commands may overlap, fail at any step, or be killed.      *)
(*                                                                         *)
(*   create:      begin -> ingest* -> define -> pack -> publish            *)
(*   reconfigure: begin -> [verify] -> check -> rebuild -> pack -> publish *)
(*   sign:        begin -> open -> attest -> pack -> publish               *)
(*                                                                         *)
(* create and reconfigure go on at open when they are to sign.  As on      *)
(* POSIX systems, renaming over an archive is atomic and leaves those who  *)
(* have it open the old one, so reading an archive is a single step.       *)
(* Removing a workspace or an output always works.                         *)
(***************************************************************************)
EXTENDS FiniteSets, Sequences, TLC

CONSTANTS
  Path,     \* where archives may be
  Package,  \* packages
  Layer,    \* contents of package layers
  Defaults, \* contents of defaults.uds.hcl
  Layers,   \* Layers[p]: the layers of package p that its filter selects
  Job,      \* commands, each run once, by a process of its own
  Request,  \* Request[j]: what the command is asked to do
  Disks,    \* what the disk may hold before any of them runs
  Running   \* the sets of commands that may be run

NoDefaults == "no defaults"

\* Content-addressed blobs: equal content is one blob.
LayerBlob(l) == <<"layer", l>>
ManifestBlob(p) == <<"manifest", p>>
HCLBlob(suffixes) == <<"hcl", suffixes>>
DefaultsBlob(d) == <<"defaults", d>>
ValuesBlob == <<"values", "values">>
DefinitionBlob(suffixes, d) == <<"definition", suffixes, d>>

Suffixed(suffixes) == suffixes \o "-reconfigured"

\* The blobs the manifest in a blob names.
Successors(b) ==
  CASE b[1] = "manifest"   -> {LayerBlob(l) : l \in Layers[b[2]]}
    [] b[1] = "definition" -> {HCLBlob(b[2]), ValuesBlob} \union
                              {DefaultsBlob(d) : d \in {b[3]} \ {NoDefaults}}
    [] OTHER -> {}

reachableDigests(roots) == roots \union UNION {Successors(b) : b \in roots}

\* Reading the graph of an index: every manifest must be there, and with
\* verification every leaf as well.
Readable(layout) == layout.index \subseteq layout.blobs
VerifyGraph(layout) == reachableDigests(layout.index) \subseteq layout.blobs

\* Faulty variant: the definition manifest is taken for a leaf.
PruneDefinition(blobs, roots) == blobs \intersect
  (roots \union UNION {Successors(b) : b \in {m \in roots : m[1] = "manifest"}})
PruneUnreferencedBlobs(blobs, roots) == blobs \intersect reachableDigests(roots)

Unsigned == [by |-> "nobody", over |-> {}]
NoFile == [index |-> {}, blobs |-> {}, evidence |-> Unsigned]
Absent(a) == a.index = {}

BlobSet(s) == IsFiniteSet(s) /\ \A b \in s : b[1] \in
  {"layer", "manifest", "hcl", "defaults", "values", "definition"}

Evidence(e) == e.by \in {"nobody", "us", "vendor"} /\ BlobSet(e.over)
IsArchive(a) == BlobSet(a.index) /\ BlobSet(a.blobs) /\ Evidence(a.evidence)

IsLayout(a) == a = [index |-> a.index, blobs |-> a.blobs, evidence |-> a.evidence]

\* What an archive lacks of what its index names.
Missing(a) == reachableDigests(a.index) \ a.blobs
Whole(a) == a.evidence.over = a.index /\ Missing(a) = {}

\* op; src and out (the same path for sign, src unused for create); packages
\* and defaults (create: what the bundle has, reconfigure: the new defaults);
\* verify (reconfigure: not --skip-signature-verification); sign; overwrite.
ASSUME ArchiveAssumption ==
  /\ Layers \in [Package -> SUBSET Layer]
  /\ \A p \in Package : IsFiniteSet(Layers[p])
  /\ \A j \in Job :
       /\ Request[j].op \in {"create", "sign", "reconfigure"}
       /\ Request[j].src \in Path /\ Request[j].out \in Path
       /\ Request[j].op = "sign" => Request[j].src = Request[j].out /\ Request[j].sign
       /\ Request[j].packages \subseteq Package
       /\ Request[j].defaults \in Defaults \union {NoDefaults}
       /\ Request[j].op = "reconfigure" => Request[j].defaults \in Defaults
       /\ Request[j].verify \in BOOLEAN /\ Request[j].sign \in BOOLEAN
       /\ Request[j].overwrite \in BOOLEAN
  /\ \A d \in Disks :
       /\ d = [p \in Path |-> d[p]]
       /\ \A p \in Path : IsLayout(d[p]) /\ IsArchive(d[p])
       /\ \A p \in Path : Absent(d[p]) => d[p] = NoFile
       /\ \A p \in Path : d[p].evidence.by = "us" => Whole(d[p])
  /\ Running \subseteq SUBSET Job

VARIABLES
  disk,    \* disk[p]: the archive at a path, or NoFile
  pc,      \* pc[j]: idle, a step of the command, or how it ended
  held,    \* held[j]: its workspaces, and "archive" for its temporary archive
  work,    \* work[j]: the layout in the workspace it writes
  input,   \* input[j]: the staged copy of its input
  todo,    \* todo[j]: the packages it has still to ingest
  given,   \* the disk before any command; never changes
  before   \* history: its output when it began, until somebody else changes it

vars == <<disk, pc, held, work, input, todo, given, before>>

Ended == {"ok", "failed", "killed"}
Active == {"ingest", "verify", "check", "rebuild", "pack", "publish", "open", "attest"}

Out(j) == Request[j].out
Signing(j) == "sign" \in held[j]

\* What before records once another command has changed the path.
Disturbed == [index |-> {<<"disturbed", "">>}, blobs |-> {}, evidence |-> Unsigned]

Place(j, archive) ==
  /\ disk' = [disk EXCEPT ![Out(j)] = archive]
  /\ before' = [i \in Job |-> IF i # j /\ Out(i) = Out(j) THEN Disturbed ELSE before[i]]

UnchangedDisk == UNCHANGED <<disk, before>>

Init ==
  /\ disk \in Disks /\ given = disk
  /\ \E jobs \in Running : pc = [j \in Job |-> IF j \in jobs THEN "idle" ELSE "unused"]
  /\ held = [j \in Job |-> {}]
  /\ work = [j \in Job |-> NoFile]
  /\ input = [j \in Job |-> NoFile]
  /\ todo = [j \in Job |-> {}]
  /\ before = [j \in Job |-> NoFile]

-----------------------------------------------------------------------------
\* Create: artifact.Create makes its workspace and its store.
BeginCreate(j) ==
  /\ pc[j] = "idle" /\ Request[j].op = "create"
  /\ pc' = [pc EXCEPT ![j] = "ingest"]
  /\ held' = [held EXCEPT ![j] = {"create"}]
  /\ todo' = [todo EXCEPT ![j] = Request[j].packages]
  /\ before' = [before EXCEPT ![j] = disk[Out(j)]]
  /\ UNCHANGED <<disk, work, input, given>>

\* ingestSource: the selected layers of a package first, then the manifest over
\* them.  The order of the packages leaves no trace in the store.
Ingest(j) ==
  /\ pc[j] = "ingest"
  /\ \E p \in todo[j] :
       /\ todo' = [todo EXCEPT ![j] = @ \ {p}]
       /\ work' = [work EXCEPT ![j].index = @ \union {ManifestBlob(p)},
                               ![j].blobs = @ \union reachableDigests({ManifestBlob(p)})]
  /\ UnchangedDisk /\ UNCHANGED <<pc, held, input, given>>

\* createBundleDefinitionManifest, NewBundleIndex, PruneUnreferencedBlobs, WriteIndex.
Define(j) ==
  /\ pc[j] = "ingest" /\ todo[j] = {}
  /\ LET definition == DefinitionBlob("bundle", Request[j].defaults)
         index == work[j].index \union {definition}
         blobs == work[j].blobs \union reachableDigests({definition})
     IN work' = [work EXCEPT ![j] =
          [index |-> index, blobs |-> PruneUnreferencedBlobs(blobs, index), evidence |-> Unsigned]]
  /\ pc' = [pc EXCEPT ![j] = "pack"]
  /\ UnchangedDisk /\ UNCHANGED <<held, input, todo, given>>

-----------------------------------------------------------------------------
\* Reconfigure stages a private copy of its input when it is to verify it.
BeginReconfigure(j) ==
  /\ pc[j] = "idle" /\ Request[j].op = "reconfigure"
  /\ pc' = [pc EXCEPT ![j] = IF Request[j].verify THEN "verify" ELSE "check"]
  /\ IF Request[j].verify
     THEN /\ ~Absent(disk[Request[j].src])
          /\ input' = [input EXCEPT ![j] = disk[Request[j].src]]
          /\ held' = [held EXCEPT ![j] = {"input"}]
     ELSE UNCHANGED <<input, held>>
  /\ before' = [before EXCEPT ![j] = disk[Out(j)]]
  /\ UNCHANGED <<disk, work, todo, given>>

\* Verify, on the staged copy: the evidence of the trusted signer covers the
\* index, and everything the index names is there.
Attested(a) == a.evidence = [by |-> "vendor", over |-> a.index]

VerifyInput(j) ==
  /\ pc[j] = "verify"
  /\ Attested(input[j]) /\ VerifyGraph(input[j])
  /\ pc' = [pc EXCEPT ![j] = "check"]
  /\ UnchangedDisk /\ UNCHANGED <<held, work, input, todo, given>>

\* reconfigureLocalArtifact: the output must not exist yet.
CheckOutput(j) ==
  /\ pc[j] = "check"
  /\ Absent(disk[Out(j)])
  /\ pc' = [pc EXCEPT ![j] = "rebuild"]
  /\ held' = [held EXCEPT ![j] = @ \union {"reconfigure"}]
  /\ UnchangedDisk /\ UNCHANGED <<work, input, todo, given>>

\* Faulty variant: the source is read again after it was verified.
InputUnstaged(j) == disk[Request[j].src]
InputOf(j) == IF Request[j].verify THEN input[j] ELSE disk[Request[j].src]

\* The one entry of an index that is a bundle definition.
HasDefinition(index) == \E b \in index : b[1] = "definition"
Definition(index) == CHOOSE b \in index : b[1] = "definition"

\* spliceHCLName and rebuildDefinitionManifest, in the place of the old entry.
RebuiltDefinition(index, defaults) ==
  DefinitionBlob(Suffixed(Definition(index)[2]), defaults)
Rebuilt(index, defaults) ==
  (index \ {Definition(index)}) \union {RebuiltDefinition(index, defaults)}

\* Extraction without the inherited evidence, then the new blobs, index.json, and
\* pruning, which reads the manifests only.
Rebuild(j) ==
  /\ pc[j] = "rebuild"
  /\ LET old == InputOf(j)
         index == Rebuilt(old.index, Request[j].defaults)
         definition == RebuiltDefinition(old.index, Request[j].defaults)
         blobs == old.blobs \union {definition, HCLBlob(definition[2]), DefaultsBlob(definition[3])}
     IN /\ ~Absent(old) /\ HasDefinition(old.index)
        /\ {Definition(old.index), HCLBlob(Definition(old.index)[2])} \subseteq old.blobs
        /\ Readable([index |-> index, blobs |-> blobs])
        /\ work' = [work EXCEPT ![j] =
             [index |-> index, blobs |-> PruneUnreferencedBlobs(blobs, index), evidence |-> Unsigned]]
  /\ pc' = [pc EXCEPT ![j] = "pack"]
  /\ UnchangedDisk /\ UNCHANGED <<held, input, todo, given>>

-----------------------------------------------------------------------------
BeginSign(j) ==
  /\ pc[j] = "idle" /\ Request[j].op = "sign"
  /\ pc' = [pc EXCEPT ![j] = "open"]
  /\ before' = [before EXCEPT ![j] = disk[Out(j)]]
  /\ UNCHANGED <<disk, held, work, input, todo, given>>

\* Sign, on a local archive: extract it into a workspace.
Open(j) ==
  /\ pc[j] = "open"
  /\ ~Absent(disk[Out(j)])
  /\ work' = [work EXCEPT ![j] = disk[Out(j)]]
  /\ held' = [held EXCEPT ![j] = @ \union {"sign"}]
  /\ pc' = [pc EXCEPT ![j] = "attest"]
  /\ UnchangedDisk /\ UNCHANGED <<input, todo, given>>

\* Verify the content, then sign the index.  Cosign refuses to replace evidence
\* unless asked to.
\* Faulty variant: the content is not verified before it is signed.
MaySignUnverified(j) == work[j].evidence = Unsigned \/ Request[j].overwrite
MaySign(j) ==
  /\ VerifyGraph(work[j])
  /\ work[j].evidence = Unsigned \/ Request[j].overwrite

Attest(j) ==
  /\ pc[j] = "attest"
  /\ MaySign(j)
  /\ work' = [work EXCEPT ![j].evidence = [by |-> "us", over |-> work[j].index]]
  /\ pc' = [pc EXCEPT ![j] = "pack"]
  /\ UnchangedDisk /\ UNCHANGED <<held, input, todo, given>>

-----------------------------------------------------------------------------
\* WriteTarZst: a temporary archive next to the output ...
Pack(j) ==
  /\ pc[j] = "pack"
  /\ held' = [held EXCEPT ![j] = @ \union {"archive"}]
  /\ pc' = [pc EXCEPT ![j] = "publish"]
  /\ UnchangedDisk /\ UNCHANGED <<work, input, todo, given>>

\* What stays held when artifact.Create or reconfigureLocalArtifact returns.
Kept(j) == held[j] \intersect {"input"}

\* ... renamed over whatever the output is by then.  The workspaces of the part
\* that wrote it go; the command signs next, or is done.
Publish(j) ==
  /\ pc[j] = "publish"
  /\ Place(j, work[j])
  /\ IF Request[j].sign /\ ~Signing(j)
     THEN /\ pc' = [pc EXCEPT ![j] = "open"]
          /\ held' = [held EXCEPT ![j] = Kept(j)]
     ELSE /\ pc' = [pc EXCEPT ![j] = "ok"]
          /\ held' = [held EXCEPT ![j] = {}]
  /\ UNCHANGED <<work, input, todo, given>>

-----------------------------------------------------------------------------
\* Faulty variant: an output that could not be signed is left.
OutputLeft(j) == FALSE
\* create and reconfigure after their output was written: it is unsigned.
SigningOutput(j) ==
  Request[j].op # "sign" /\ (pc[j] = "open" \/ Signing(j))

\* Any step may fail: refused by its guard, out of space, cancelled.  The
\* deferred calls run; an output that could not be signed is removed.
Fail(j) ==
  /\ pc[j] \in Active
  /\ pc' = [pc EXCEPT ![j] = "failed"]
  /\ held' = [held EXCEPT ![j] = {}]
  /\ IF SigningOutput(j) THEN Place(j, NoFile) ELSE UnchangedDisk
  /\ UNCHANGED <<work, input, todo, given>>

\* The input cannot be staged: nothing is held yet.
FailToBegin(j) ==
  /\ pc[j] = "idle" /\ Request[j].op = "reconfigure" /\ Request[j].verify
  /\ Absent(disk[Request[j].src])
  /\ pc' = [pc EXCEPT ![j] = "failed"]
  /\ before' = [before EXCEPT ![j] = disk[Out(j)]]
  /\ UNCHANGED <<disk, held, work, input, todo, given>>

\* The process is killed: what it holds stays behind.
Kill(j) ==
  /\ pc[j] \in Active
  /\ pc' = [pc EXCEPT ![j] = "killed"]
  /\ UnchangedDisk /\ UNCHANGED <<held, work, input, todo, given>>

Step(j) ==
  \/ BeginCreate(j) \/ Ingest(j) \/ Define(j)
  \/ BeginReconfigure(j) \/ VerifyInput(j) \/ CheckOutput(j) \/ Rebuild(j)
  \/ BeginSign(j) \/ Open(j) \/ Attest(j)
  \/ Pack(j) \/ Publish(j)
  \/ Fail(j) \/ FailToBegin(j) \/ Kill(j)

Next == \E j \in Job : Step(j)

Spec == Init /\ [][Next]_vars

-----------------------------------------------------------------------------
\* Every variable has its type; a command holds workspaces of its own kind only,
\* and its temporary archive only until that is renamed.
JobTypes(j) ==
  /\ pc[j] \in Active \union Ended \union {"idle", "unused"}
  /\ held[j] \subseteq {"archive", "sign"} \union
       (CASE Request[j].op = "create" -> {"create"}
          [] Request[j].op = "reconfigure" -> {"input", "reconfigure"}
          [] OTHER -> {})
  /\ "archive" \in held[j] => pc[j] \in {"publish", "killed"}
  /\ "sign" \in held[j] => Request[j].sign
  /\ IsArchive(work[j]) /\ IsArchive(input[j])
  /\ todo[j] \subseteq Request[j].packages

TypeOK ==
  /\ \A p \in Path : IsArchive(disk[p])
  /\ \A j \in Job : JobTypes(j)

\* An archive these commands signed carries evidence of its own index and
\* holds everything the index names, whoever else wrote the path meanwhile and
\* wherever a command was killed (Sign verifies the extracted graph before it
\* signs, and packs what it extracted).
SignedIsWhole == \A p \in Path : disk[p].evidence.by = "us" => Whole(disk[p])

\* Pruning takes exactly what nothing names: an archive the commands wrote holds no
\* blob its index does not reach, and lacks none but those its input lacked.  An
\* archive that was only signed has the files it was given with.
GivenMissing == UNION {Missing(given[p]) : p \in Path}
SameFiles(a, b) == a.index = b.index /\ a.blobs = b.blobs
Pruned(a) == a.blobs \subseteq reachableDigests(a.index) /\ Missing(a) \subseteq GivenMissing

PrunedExactly == \A p \in Path : SameFiles(disk[p], given[p]) \/ Pruned(disk[p])

\* A reconfigure that verifies its input rebuilds what it verified, though the
\* path it was read from is written by others meanwhile (it goes on with the
\* staged copy).
VerifiedIsUsed ==
  \A j \in Job :
    Request[j].op = "reconfigure" /\ Request[j].verify /\ ~Signing(j)
      /\ pc[j] \in {"pack", "publish"} =>
        \E p \in Path :
          /\ Attested(given[p]) /\ Missing(given[p]) = {}
          /\ work[j].index = Rebuilt(given[p].index, Request[j].defaults)

\* A command whose output nobody else wrote tells the truth: one that failed has
\* left that path as it found it, but for a create that could not sign, which
\* leaves no archive there, not even the one it has replaced; after one that
\* succeeded the archive is there, and signed iff that was asked for.
OutcomeIsTrue ==
  /\ TypeOK
  /\ \A j \in Job : before[j] # Disturbed =>
       /\ pc[j] = "failed" =>
            \/ disk[Out(j)] = before[j]
            \/ Request[j].op = "create" /\ Request[j].sign /\ Absent(disk[Out(j)])
       /\ pc[j] = "ok" =>
            /\ ~Absent(disk[Out(j)])
            /\ Request[j].sign = (disk[Out(j)].evidence.by = "us")
=============================================================================
