------------------------- MODULE ArtifactArchiveProofs -------------------------
(***************************************************************************)
(* Theorems about ArtifactArchive: for any commands, however many overlap  *)
(* and wherever they fail or are killed, what they have signed is whole,   *)
(* a reconfigure that verifies uses what it verified, an archive they      *)
(* wrote holds nothing its index does not reach, and a command whose       *)
(* output nobody else wrote tells the truth about it.                      *)
(*                                                                         *)
(* And about LegacyLocal, the older form of a bundle file: a tarball that a*)
(* create or pull reports is whole, and all who read it agree on it.       *)
(***************************************************************************)
EXTENDS ArtifactArchive, LegacyLocal, FiniteSetTheorems, FunctionTheorems, SequenceTheorems,
        WellFoundedInduction, TLAPS

\* The variables are functions on Path and Job, with archives as values.
Shape ==
  /\ disk = [p \in Path |-> disk[p]]
  /\ pc = [j \in Job |-> pc[j]]
  /\ held = [j \in Job |-> held[j]]
  /\ work = [j \in Job |-> work[j]]
  /\ input = [j \in Job |-> input[j]]
  /\ \A p \in Path : IsLayout(disk[p])
  /\ \A j \in Job : IsLayout(work[j])

\* No command writes evidence of the vendor's.
Foreign == \A p \in Path : disk[p] = given[p] \/ disk[p].evidence.by # "vendor"

\* A command packs what is unsigned, or what it has just verified and signed.
Packs(j) ==
  pc[j] \in {"pack", "publish"} =>
    \/ work[j].evidence = Unsigned
    \/ work[j].evidence.by = "us" /\ Whole(work[j])

\* The steps that belong to one kind of command, and to its signing.
Kinds(j) ==
  /\ pc[j] = "ingest" => Request[j].op = "create"
  /\ pc[j] = "attest" => Signing(j)

\* A staged copy is a file as some command or the user left it.
Staged(j) == input[j].evidence.by = "vendor" => \E p \in Path : input[j] = given[p]

\* From the check on a verifying reconfigure has a whole copy the vendor signed.
Holds(j) == Attested(input[j]) /\ VerifyGraph(input[j])
Verifies(j) == Request[j].op = "reconfigure" /\ Request[j].verify
Uses(j) ==
  Verifies(j) =>
    /\ pc[j] \in {"check", "rebuild"} => Holds(j)
    /\ pc[j] \in {"pack", "publish"} /\ ~Signing(j) =>
         Holds(j) /\ work[j].index = Rebuilt(input[j].index, Request[j].defaults)

Inv ==
  /\ Shape /\ Foreign /\ SignedIsWhole
  /\ \A j \in Job : Packs(j) /\ Kinds(j) /\ Staged(j) /\ Uses(j)

\* At first nothing is packed or staged, and what is signed is assumed whole.
LEMMA Initially == Init => Inv
<1> SUFFICES ASSUME Init PROVE Inv
  OBVIOUS
<1>1. Shape
  <2>1. \A j \in Job : IsLayout(work[j])
    BY DEF Init, IsLayout, NoFile
  <2>2. disk = [p \in Path |-> disk[p]] /\ \A p \in Path : IsLayout(disk[p])
    BY ArchiveAssumption DEF Init
  <2>3. pc = [j \in Job |-> pc[j]]
    BY DEF Init
  <2> QED
    BY <2>1, <2>2, <2>3 DEF Init, Shape
<1>2. Foreign
  BY DEF Init, Foreign
<1>3. SignedIsWhole
  BY ArchiveAssumption DEF Init, SignedIsWhole
<1>4. \A j \in Job : pc[j] \in {"idle", "unused"}
  BY DEF Init
<1>5. \A j \in Job : Staged(j)
  BY DEF Init, Staged, NoFile, Unsigned
<1> QED
  BY <1>1, <1>2, <1>3, <1>4, <1>5 DEF Inv, Packs, Kinds, Uses

\* A step of a command that leaves the disk alone need only be looked at there.
LEMMA Privately ==
  ASSUME NEW j \in Job, Inv, UNCHANGED <<disk, given>>, Shape',
         \A i \in Job \ {j} :
           pc'[i] = pc[i] /\ held'[i] = held[i] /\ work'[i] = work[i] /\ input'[i] = input[i],
         Packs(j)', Kinds(j)', Staged(j)', Uses(j)'
  PROVE Inv'
<1>1. Foreign' /\ SignedIsWhole'
  BY DEF Inv, Foreign, SignedIsWhole
<1>2. ASSUME NEW i \in Job \ {j} PROVE (Packs(i) /\ Kinds(i) /\ Staged(i) /\ Uses(i))'
  BY <1>2 DEF Inv, Packs, Kinds, Staged, Uses, Holds, Signing
<1> QED
  BY <1>1, <1>2 DEF Inv

-----------------------------------------------------------------------------
\* What a layout that was just built or signed is packed with.
LEMMA BuiltLayout ==
  ASSUME NEW j \in Job, Shape, NEW a, IsLayout(a), work' = [work EXCEPT ![j] = a]
  PROVE  /\ work' = [i \in Job |-> work'[i]] /\ \A i \in Job : IsLayout(work'[i])
         /\ work'[j] = a /\ \A i \in Job \ {j} : work'[i] = work[i]
<1>1. work = [i \in Job |-> work[i]] /\ \A i \in Job : IsLayout(work[i])
  BY DEF Shape
<1> QED
  BY <1>1

LEMMA BeginCreateKeeps == ASSUME NEW j \in Job, Inv, BeginCreate(j) PROVE Inv'
<1> USE DEF BeginCreate
<1>1. Shape'
  BY DEF Inv, Shape
<1>2. pc'[j] = "ingest" /\ Request[j].op = "create"
  BY DEF Inv, Shape
<1>3. Packs(j)' /\ Kinds(j)' /\ Staged(j)' /\ Uses(j)'
  BY <1>2 DEF Inv, Packs, Kinds, Staged, Uses, Verifies
<1> QED
  BY <1>1, <1>3, Privately DEF Inv, Shape

LEMMA IngestKeeps == ASSUME NEW j \in Job, Inv, Ingest(j) PROVE Inv'
<1> USE DEF Ingest, UnchangedDisk
<1>1. PICK p \in todo[j] :
        work' = [work EXCEPT ![j].index = @ \union {ManifestBlob(p)},
                             ![j].blobs = @ \union reachableDigests({ManifestBlob(p)})]
  OBVIOUS
<1> DEFINE a == [index |-> work[j].index \union {ManifestBlob(p)},
                 blobs |-> work[j].blobs \union reachableDigests({ManifestBlob(p)}),
                 evidence |-> work[j].evidence]
<1>2. IsLayout(a)
  BY DEF IsLayout
<1>3. work' = [work EXCEPT ![j] = a]
  BY <1>1 DEF Inv, Shape, IsLayout
<1>4. Shape'
  BY <1>2, <1>3, BuiltLayout DEF Inv, Shape
<1>5. Packs(j)' /\ Kinds(j)' /\ Staged(j)' /\ Uses(j)'
  BY DEF Inv, Packs, Kinds, Staged, Uses, Verifies
<1> QED
  BY <1>2, <1>3, <1>4, <1>5, BuiltLayout, Privately DEF Inv

LEMMA DefineKeeps == ASSUME NEW j \in Job, Inv, Define(j) PROVE Inv'
<1> USE DEF Define, UnchangedDisk
<1>1. PICK index, blobs :
        work' = [work EXCEPT ![j] = [index |-> index, blobs |-> blobs, evidence |-> Unsigned]]
  OBVIOUS
<1> DEFINE a == [index |-> index, blobs |-> blobs, evidence |-> Unsigned]
<1>2. IsLayout(a)
  BY DEF IsLayout
<1>3. Shape' /\ work'[j] = a /\ pc'[j] = "pack"
  BY <1>1, <1>2, BuiltLayout DEF Inv, Shape
<1>4. Packs(j)' /\ Kinds(j)' /\ Staged(j)' /\ Uses(j)'
  BY <1>3 DEF Inv, Packs, Kinds, Staged, Uses, Verifies
<1> QED
  BY <1>1, <1>2, <1>3, <1>4, BuiltLayout, Privately DEF Inv, Shape

\* The staged copy is a file of the disk, so vendor's evidence on it was given.
LEMMA BeginReconfigureKeeps == ASSUME NEW j \in Job, Inv, BeginReconfigure(j) PROVE Inv'
<1> USE DEF BeginReconfigure
<1>1. Shape'
  BY DEF Inv, Shape
<1>2. pc'[j] = IF Request[j].verify THEN "verify" ELSE "check"
  BY DEF Inv, Shape
<1>3. Packs(j)' /\ Kinds(j)' /\ Uses(j)'
  BY <1>2 DEF Inv, Packs, Kinds, Uses, Verifies
<1>4. Staged(j)'
  <2>1. CASE Request[j].verify
    <3>1. input'[j] = disk[Request[j].src]
      BY <2>1 DEF Inv, Shape
    <3>2. Request[j].src \in Path
      BY ArchiveAssumption
    <3> QED
      BY <3>1, <3>2 DEF Inv, Foreign, Staged
  <2>2. CASE ~Request[j].verify
    BY <2>2 DEF Inv, Staged
  <2> QED
    BY <2>1, <2>2
<1> QED
  BY <1>1, <1>3, <1>4, Privately DEF Inv, Shape

LEMMA VerifyInputKeeps == ASSUME NEW j \in Job, Inv, VerifyInput(j) PROVE Inv'
<1> USE DEF VerifyInput, UnchangedDisk
<1>1. Shape' /\ pc'[j] = "check"
  BY DEF Inv, Shape
<1>2. Packs(j)' /\ Kinds(j)' /\ Staged(j)' /\ Uses(j)'
  BY <1>1 DEF Inv, Packs, Kinds, Staged, Uses, Holds
<1> QED
  BY <1>1, <1>2, Privately DEF Inv, Shape

LEMMA CheckOutputKeeps == ASSUME NEW j \in Job, Inv, CheckOutput(j) PROVE Inv'
<1> USE DEF CheckOutput, UnchangedDisk
<1>1. Shape' /\ pc'[j] = "rebuild"
  BY DEF Inv, Shape
<1>2. Packs(j)' /\ Kinds(j)' /\ Staged(j)' /\ Uses(j)'
  BY <1>1 DEF Inv, Packs, Kinds, Staged, Uses, Holds
<1> QED
  BY <1>1, <1>2, Privately DEF Inv, Shape

\* Rebuilding leaves the inherited evidence out, and takes the staged copy.
LEMMA RebuildKeeps == ASSUME NEW j \in Job, Inv, Rebuild(j) PROVE Inv'
<1> USE DEF Rebuild, UnchangedDisk
<1>1. PICK blobs :
        work' = [work EXCEPT ![j] =
          [index |-> Rebuilt(InputOf(j).index, Request[j].defaults), blobs |-> blobs,
           evidence |-> Unsigned]]
  OBVIOUS
<1> DEFINE a == [index |-> Rebuilt(InputOf(j).index, Request[j].defaults), blobs |-> blobs,
                 evidence |-> Unsigned]
<1>2. IsLayout(a)
  BY DEF IsLayout
<1>3. Shape' /\ work'[j] = a /\ pc'[j] = "pack"
  BY <1>1, <1>2, BuiltLayout DEF Inv, Shape
<1>4. Packs(j)' /\ Kinds(j)' /\ Staged(j)'
  BY <1>3 DEF Inv, Packs, Kinds, Staged
<1>5. Uses(j)'
  BY <1>3 DEF Inv, Uses, Verifies, Holds, InputOf
<1> QED
  BY <1>1, <1>2, <1>3, <1>4, <1>5, BuiltLayout, Privately DEF Inv, Shape

LEMMA BeginSignKeeps == ASSUME NEW j \in Job, Inv, BeginSign(j) PROVE Inv'
<1> USE DEF BeginSign
<1>1. Shape' /\ pc'[j] = "open"
  BY DEF Inv, Shape
<1>2. Packs(j)' /\ Kinds(j)' /\ Staged(j)' /\ Uses(j)'
  BY <1>1 DEF Inv, Packs, Kinds, Staged, Uses
<1> QED
  BY <1>1, <1>2, Privately DEF Inv, Shape

LEMMA OpenKeeps == ASSUME NEW j \in Job, Inv, Open(j) PROVE Inv'
<1> USE DEF Open, UnchangedDisk, Out
<1>1. Request[j].out \in Path
  BY ArchiveAssumption
<1>2. IsLayout(disk[Request[j].out])
  BY <1>1 DEF Inv, Shape
<1>3. Shape' /\ pc'[j] = "attest" /\ "sign" \in held'[j]
  BY <1>2, BuiltLayout DEF Inv, Shape
<1>4. Packs(j)' /\ Kinds(j)' /\ Staged(j)' /\ Uses(j)'
  BY <1>3 DEF Inv, Packs, Kinds, Staged, Uses, Signing
<1> QED
  BY <1>2, <1>3, <1>4, BuiltLayout, Privately DEF Inv, Shape

\* The graph is verified before the index is signed, on the same extracted files.
LEMMA AttestKeeps == ASSUME NEW j \in Job, Inv, Attest(j) PROVE Inv'
<1> USE DEF Attest, UnchangedDisk
<1> DEFINE a == [index |-> work[j].index, blobs |-> work[j].blobs,
                 evidence |-> [by |-> "us", over |-> work[j].index]]
<1>1. IsLayout(a)
  BY DEF IsLayout
<1>2. work' = [work EXCEPT ![j] = a]
  <2>1. work[j] = [index |-> work[j].index, blobs |-> work[j].blobs, evidence |-> work[j].evidence]
    BY DEF Inv, Shape, IsLayout
  <2>2. [work[j] EXCEPT !.evidence = a.evidence] = a
    BY <2>1
  <2> QED
    BY <2>2
<1>3. Shape' /\ work'[j] = a /\ pc'[j] = "pack" /\ held'[j] = held[j]
  BY <1>1, <1>2, BuiltLayout DEF Inv, Shape
<1>4. Whole(a)
  BY DEF MaySign, VerifyGraph, Whole, Missing
<1>5. Packs(j)'
  BY <1>3, <1>4 DEF Packs
<1>6. Signing(j)'
  BY <1>3 DEF Inv, Kinds, Signing
<1>7. Kinds(j)' /\ Staged(j)' /\ Uses(j)'
  BY <1>3, <1>6 DEF Inv, Kinds, Staged, Uses
<1> QED
  BY <1>1, <1>2, <1>3, <1>5, <1>7, BuiltLayout, Privately DEF Inv, Shape

LEMMA PackKeeps == ASSUME NEW j \in Job, Inv, Pack(j) PROVE Inv'
<1> USE DEF Pack, UnchangedDisk
<1>1. Shape' /\ pc'[j] = "publish" /\ (Signing(j)' <=> Signing(j))
  BY DEF Inv, Shape, Signing
<1>2. Packs(j)' /\ Kinds(j)' /\ Staged(j)' /\ Uses(j)'
  BY <1>1 DEF Inv, Packs, Kinds, Staged, Uses, Holds
<1> QED
  BY <1>1, <1>2, Privately DEF Inv, Shape

-----------------------------------------------------------------------------
\* Writing the output: the step is seen by others through the disk alone.
LEMMA Publicly ==
  ASSUME NEW j \in Job, Inv, NEW a, IsLayout(a), Place(j, a),
         a.evidence = Unsigned \/ (a.evidence.by = "us" /\ Whole(a)),
         UNCHANGED <<work, input, given>>, Shape',
         \A i \in Job \ {j} : pc'[i] = pc[i] /\ held'[i] = held[i],
         pc'[j] \notin {"ingest", "attest", "check", "rebuild", "pack", "publish"}
  PROVE Inv'
<1>1. disk' = [disk EXCEPT ![Out(j)] = a]
  BY DEF Place
<1>2. \A p \in Path : disk'[p] = IF p = Out(j) THEN a ELSE disk[p]
  BY <1>1 DEF Inv, Shape
<1>3. Foreign'
  BY <1>2 DEF Inv, Foreign, Unsigned
<1>4. SignedIsWhole'
  BY <1>2 DEF Inv, SignedIsWhole, Unsigned
<1>5. ASSUME NEW i \in Job \ {j} PROVE (Packs(i) /\ Kinds(i) /\ Staged(i) /\ Uses(i))'
  BY <1>5 DEF Inv, Packs, Kinds, Staged, Uses, Holds, Signing
<1>6. Packs(j)' /\ Kinds(j)' /\ Staged(j)' /\ Uses(j)'
  BY DEF Inv, Packs, Kinds, Staged, Uses
<1> QED
  BY <1>3, <1>4, <1>5, <1>6 DEF Inv

\* The shape of the disk after a path was written.
LEMMA PlacedShape ==
  ASSUME NEW j \in Job, Shape, NEW a, IsLayout(a), Place(j, a)
  PROVE disk' = [p \in Path |-> disk'[p]] /\ \A p \in Path : IsLayout(disk'[p])
<1>1. disk' = [disk EXCEPT ![Out(j)] = a]
  BY DEF Place
<1>2. disk = [p \in Path |-> disk[p]] /\ \A p \in Path : IsLayout(disk[p])
  BY DEF Shape
<1> QED
  BY <1>1, <1>2

LEMMA PublishKeeps == ASSUME NEW j \in Job, Inv, Publish(j) PROVE Inv'
<1> USE DEF Publish
<1>1. IsLayout(work[j])
  BY DEF Inv, Shape
<1>2. Shape'
  BY <1>1, PlacedShape DEF Inv, Shape
<1>3. work[j].evidence = Unsigned \/ (work[j].evidence.by = "us" /\ Whole(work[j]))
  BY DEF Inv, Packs
<1>4. pc'[j] \in {"open", "ok"}
  BY DEF Inv, Shape
<1>5. \A i \in Job \ {j} : pc'[i] = pc[i] /\ held'[i] = held[i]
  BY DEF Inv, Shape
<1> QED
  BY <1>1, <1>2, <1>3, <1>4, <1>5, Publicly

LEMMA FailKeeps == ASSUME NEW j \in Job, Inv, Fail(j) PROVE Inv'
<1> USE DEF Fail, UnchangedDisk
<1>1. IsLayout(NoFile)
  BY DEF IsLayout, NoFile
<1>2. pc'[j] = "failed"
  BY DEF Inv, Shape
<1>3. \A i \in Job \ {j} : pc'[i] = pc[i] /\ held'[i] = held[i]
  BY DEF Inv, Shape
<1>4. CASE SigningOutput(j)
  <2>1. Shape'
    BY <1>1, <1>4, PlacedShape DEF Inv, Shape
  <2>2. NoFile.evidence = Unsigned
    BY DEF NoFile
  <2> QED
    BY <1>1, <1>2, <1>3, <1>4, <2>1, <2>2, Publicly
<1>5. CASE ~SigningOutput(j)
  <2>1. Shape'
    BY <1>5 DEF Inv, Shape
  <2>2. Packs(j)' /\ Kinds(j)' /\ Staged(j)' /\ Uses(j)'
    BY <1>2 DEF Inv, Packs, Kinds, Staged, Uses
  <2> QED
    BY <1>3, <1>5, <2>1, <2>2, Privately
<1> QED
  BY <1>4, <1>5

LEMMA StopKeeps == ASSUME NEW j \in Job, Inv, FailToBegin(j) \/ Kill(j) PROVE Inv'
<1> USE DEF FailToBegin, Kill, UnchangedDisk
<1>1. Shape' /\ pc'[j] \in {"failed", "killed"}
  BY DEF Inv, Shape
<1>2. Packs(j)' /\ Kinds(j)' /\ Staged(j)' /\ Uses(j)'
  BY <1>1 DEF Inv, Packs, Kinds, Staged, Uses
<1>3. \A i \in Job \ {j} :
        pc'[i] = pc[i] /\ held'[i] = held[i] /\ work'[i] = work[i] /\ input'[i] = input[i]
  BY DEF Inv, Shape
<1> QED
  BY <1>1, <1>2, <1>3, Privately

LEMMA Inductive == Inv /\ [Next]_vars => Inv'
<1> SUFFICES ASSUME Inv, [Next]_vars PROVE Inv'
  OBVIOUS
<1>1. CASE UNCHANGED vars
  BY <1>1 DEF Inv, vars, Shape, Foreign, SignedIsWhole, Packs, Kinds, Staged, Uses, Holds, Signing
<1>2. ASSUME NEW j \in Job, Step(j) PROVE Inv'
  BY <1>2, BeginCreateKeeps, IngestKeeps, DefineKeeps, BeginReconfigureKeeps, VerifyInputKeeps,
     CheckOutputKeeps, RebuildKeeps, BeginSignKeeps, OpenKeeps, AttestKeeps, PackKeeps,
     PublishKeeps, FailKeeps, StopKeeps DEF Step
<1> QED
  BY <1>1, <1>2 DEF Next

LEMMA Invariant == Spec => []Inv
  BY Initially, Inductive, PTL DEF Spec

-----------------------------------------------------------------------------
\* What these commands sign is whole (Sign), whatever overlaps, fails or is killed.
THEOREM SignedStaysWhole == Spec => []SignedIsWhole
<1>1. Inv => SignedIsWhole
  BY DEF Inv
<1> QED
  BY <1>1, Invariant, PTL

\* A verifying reconfigure rebuilds an archive that was given, whole and signed
\* by the vendor, whoever replaced its source in between (Reconfigure).
THEOREM VerifiedStaysUsed == Spec => []VerifiedIsUsed
<1>1. Inv => VerifiedIsUsed
  <2> SUFFICES ASSUME Inv, NEW j \in Job, Verifies(j), ~Signing(j), pc[j] \in {"pack", "publish"}
               PROVE \E p \in Path :
                       /\ Attested(given[p]) /\ Missing(given[p]) = {}
                       /\ work[j].index = Rebuilt(given[p].index, Request[j].defaults)
    BY DEF VerifiedIsUsed, Verifies
  <2>1. Holds(j) /\ work[j].index = Rebuilt(input[j].index, Request[j].defaults)
    BY DEF Inv, Uses
  <2>2. input[j].evidence.by = "vendor"
    BY <2>1 DEF Holds, Attested
  <2>3. PICK p \in Path : input[j] = given[p]
    BY <2>2 DEF Inv, Staged
  <2>4. Missing(given[p]) = {}
    BY <2>1, <2>3 DEF Holds, VerifyGraph, Missing
  <2> QED
    BY <2>1, <2>3, <2>4 DEF Holds
<1> QED
  BY <1>1, Invariant, PTL
-----------------------------------------------------------------------------
\* How far each command is, and what it has put together by then.
Progress(j) ==
  /\ pc[j] \in {"idle", "unused"} => work[j] = NoFile /\ held[j] = {}
  /\ pc[j] \in {"ingest", "verify", "check", "rebuild", "open"} => ~Signing(j)
  /\ pc[j] \in {"verify", "check", "rebuild"} => Request[j].op = "reconfigure"
  /\ pc[j] = "ingest" => Request[j].op = "create"
  /\ pc[j] \in {"open", "attest"} => Request[j].sign
  /\ pc[j] = "attest" => Signing(j)
  /\ pc[j] \in {"pack", "publish"} =>
       IF Signing(j) THEN work[j].evidence.by = "us"
                     ELSE work[j].evidence = Unsigned /\ Request[j].op # "sign"

\* What it is about to write was pruned, or is what it was given to sign.
Tidy(j) ==
  /\ Missing(input[j]) \subseteq GivenMissing
  /\ pc[j] = "ingest" =>
       /\ work[j].blobs \subseteq reachableDigests(work[j].index)
       /\ Missing(work[j]) = {}
  /\ pc[j] \in {"attest", "pack", "publish"} =>
       /\ work[j].index # {}
       /\ Pruned(work[j]) \/ (Signing(j) /\ SameFiles(work[j], given[Out(j)]))

\* Its output, as long as nobody else writes it: as it was found, until it writes it
\* itself.  A reconfigure goes on only where there was none.
Told(j) ==
  before[j] # Disturbed =>
    /\ pc[j] \in Active /\ ~SigningOutput(j) => disk[Out(j)] = before[j]
    /\ Request[j].op = "reconfigure" /\ pc[j] \in {"rebuild", "pack", "publish", "open", "attest"} =>
         before[j] = NoFile
    /\ pc[j] = "failed" =>
         \/ disk[Out(j)] = before[j]
         \/ Request[j].op = "create" /\ Request[j].sign /\ Absent(disk[Out(j)])
    /\ pc[j] = "ok" =>
         /\ ~Absent(disk[Out(j)])
         /\ Request[j].sign = (disk[Out(j)].evidence.by = "us")

Good(j) == JobTypes(j) /\ Progress(j) /\ Tidy(j) /\ Told(j)

World ==
  /\ before = [j \in Job |-> before[j]] /\ todo = [j \in Job |-> todo[j]]
  /\ \A p \in Path : IsArchive(disk[p]) /\ (Absent(disk[p]) => disk[p] = NoFile)
  /\ PrunedExactly

Inv2 == Inv /\ World /\ \A j \in Job : Good(j)

-----------------------------------------------------------------------------
\* What an index reaches, and that it is finite.
LEMMA ReachUnion ==
  ASSUME NEW A, NEW B
  PROVE  reachableDigests(A \union B) = reachableDigests(A) \union reachableDigests(B)
BY DEF reachableDigests

LEMMA ReachManifest ==
  ASSUME NEW p \in Package
  PROVE  /\ reachableDigests({ManifestBlob(p)}) =
              {ManifestBlob(p)} \union {LayerBlob(l) : l \in Layers[p]}
         /\ BlobSet(reachableDigests({ManifestBlob(p)}))
<1>1. ManifestBlob(p)[1] = "manifest" /\ ManifestBlob(p)[2] = p
  BY DEF ManifestBlob
<1>2. Successors(ManifestBlob(p)) = {LayerBlob(l) : l \in Layers[p]}
  BY <1>1 DEF Successors
<1>3. reachableDigests({ManifestBlob(p)}) =
        {ManifestBlob(p)} \union {LayerBlob(l) : l \in Layers[p]}
  BY <1>2 DEF reachableDigests
<1> DEFINE leaves == {LayerBlob(l) : l \in Layers[p]}
           leaf == [l \in Layers[p] |-> LayerBlob(l)]
<1>4. leaf \in Surjection(Layers[p], leaves)
  BY Fun_IsSurj
<1>5. IsFiniteSet(leaves)
  BY <1>4, FS_Surjection, ArchiveAssumption
<1>6. IsFiniteSet(leaves \union {ManifestBlob(p)})
  BY <1>5, FS_AddElement
<1>7. \A b \in leaves \union {ManifestBlob(p)} : b[1] \in {"layer", "manifest"}
  BY DEF LayerBlob, ManifestBlob
<1> QED
  BY <1>3, <1>6, <1>7 DEF BlobSet

LEMMA ReachDefinition ==
  ASSUME NEW s, NEW d
  PROVE  /\ DefinitionBlob(s, d)[1] = "definition"
         /\ Successors(DefinitionBlob(s, d)) = {HCLBlob(s), ValuesBlob} \union
              {DefaultsBlob(x) : x \in {d} \ {NoDefaults}}
         /\ BlobSet(reachableDigests({DefinitionBlob(s, d)}))
<1> DEFINE b == DefinitionBlob(s, d)
           leaves == {HCLBlob(s), ValuesBlob} \union {DefaultsBlob(x) : x \in {d} \ {NoDefaults}}
<1>1. b[1] = "definition" /\ b[2] = s /\ b[3] = d
  BY DEF DefinitionBlob
<1>2. Successors(b) = leaves
  BY <1>1 DEF Successors
<1>3. reachableDigests({b}) = leaves \union {b}
  BY <1>2 DEF reachableDigests
<1>4. leaves \union {b} \subseteq {HCLBlob(s), ValuesBlob, DefaultsBlob(d), b}
  OBVIOUS
<1>5. IsFiniteSet({HCLBlob(s), ValuesBlob, DefaultsBlob(d), b})
  <2>1. IsFiniteSet({HCLBlob(s)})
    BY FS_Singleton
  <2>2. IsFiniteSet({HCLBlob(s)} \union {ValuesBlob})
    BY <2>1, FS_AddElement
  <2>3. IsFiniteSet({HCLBlob(s)} \union {ValuesBlob} \union {DefaultsBlob(d)})
    BY <2>2, FS_AddElement
  <2>4. IsFiniteSet({HCLBlob(s)} \union {ValuesBlob} \union {DefaultsBlob(d)} \union {b})
    BY <2>3, FS_AddElement
  <2>5. {HCLBlob(s)} \union {ValuesBlob} \union {DefaultsBlob(d)} \union {b}
          = {HCLBlob(s), ValuesBlob, DefaultsBlob(d), b}
    OBVIOUS
  <2> QED
    BY <2>4, <2>5
<1>6. IsFiniteSet(leaves \union {b})
  BY <1>4, <1>5, FS_Subset
<1>7. \A x \in leaves \union {b} : x[1] \in {"hcl", "values", "defaults", "definition"}
  BY <1>1, <1>4 DEF HCLBlob, ValuesBlob, DefaultsBlob
<1> QED
  BY <1>1, <1>2, <1>3, <1>6, <1>7 DEF BlobSet

LEMMA BlobSets ==
  ASSUME NEW A, NEW B, BlobSet(A)
  PROVE  /\ BlobSet(B) => BlobSet(A \union B)
         /\ B \subseteq A => BlobSet(B)
<1>1. ASSUME BlobSet(B) PROVE IsFiniteSet(A \union B)
  BY <1>1, FS_Union DEF BlobSet
<1>2. ASSUME B \subseteq A PROVE IsFiniteSet(B)
  BY <1>2, FS_Subset DEF BlobSet
<1> QED
  BY <1>1, <1>2 DEF BlobSet

LEMMA LeafBlobs ==
  ASSUME NEW x PROVE BlobSet({HCLBlob(x)}) /\ BlobSet({DefaultsBlob(x)})
<1>1. IsFiniteSet({HCLBlob(x)}) /\ IsFiniteSet({DefaultsBlob(x)})
  BY FS_Singleton
<1>2. HCLBlob(x)[1] = "hcl" /\ DefaultsBlob(x)[1] = "defaults"
  BY DEF HCLBlob, DefaultsBlob
<1> QED
  BY <1>1, <1>2 DEF BlobSet

LEMMA NothingIsArchive == IsArchive(NoFile) /\ Missing(NoFile) = {} /\ Pruned(NoFile)
<1>1. IsFiniteSet({})
  BY FS_EmptySet
<1>2. reachableDigests({}) = {}
  BY DEF reachableDigests
<1> QED
  BY <1>1, <1>2 DEF IsArchive, BlobSet, Evidence, NoFile, Unsigned, Missing, Pruned

\* At first every archive is as it was given, and nothing has been put together.
LEMMA Initially2 == Init => Inv2
<1> SUFFICES ASSUME Init PROVE Inv2
  OBVIOUS
<1>1. World
  <2>1. \A p \in Path : IsArchive(disk[p]) /\ (Absent(disk[p]) => disk[p] = NoFile)
    BY ArchiveAssumption DEF Init
  <2>2. PrunedExactly
    BY DEF Init, PrunedExactly, SameFiles
  <2> QED
    BY <2>1, <2>2 DEF Init, World
<1>2. ASSUME NEW j \in Job PROVE Good(j)
  <2>1. /\ pc[j] \in {"idle", "unused"} /\ held[j] = {} /\ work[j] = NoFile
        /\ input[j] = NoFile /\ todo[j] = {}
    BY DEF Init
  <2> QED
    BY <2>1, NothingIsArchive
       DEF Good, JobTypes, Progress, Tidy, Told, Active, Ended
<1> QED
  BY <1>1, <1>2, Initially DEF Inv2

-----------------------------------------------------------------------------
\* A step that leaves the disk alone need only be looked at for its own command.
LEMMA Privately2 ==
  ASSUME NEW j \in Job, Inv2, Inv', UNCHANGED <<disk, given>>,
         before' = [i \in Job |-> before'[i]], todo' = [i \in Job |-> todo'[i]],
         \A i \in Job \ {j} :
           /\ pc'[i] = pc[i] /\ held'[i] = held[i] /\ work'[i] = work[i]
           /\ input'[i] = input[i] /\ todo'[i] = todo[i] /\ before'[i] = before[i],
         Good(j)'
  PROVE  Inv2'
<1>1. World'
  BY DEF Inv2, World, PrunedExactly, Pruned, GivenMissing
<1>2. ASSUME NEW i \in Job \ {j} PROVE Good(i)'
  <2>1. /\ pc'[i] = pc[i] /\ held'[i] = held[i] /\ work'[i] = work[i]
        /\ input'[i] = input[i] /\ todo'[i] = todo[i] /\ before'[i] = before[i]
    OBVIOUS
  <2>2. JobTypes(i)' /\ Progress(i)'
    BY <2>1 DEF Inv2, Good, JobTypes, Progress, Signing
  <2>3. Tidy(i)'
    <3>1. Tidy(i) /\ GivenMissing' = GivenMissing
      BY DEF Inv2, Good, GivenMissing
    <3>2. (Signing(i))' = Signing(i) /\ Pruned(work[i])' = Pruned(work[i])
      BY <2>1, <3>1 DEF Signing, Pruned
    <3> QED
      BY <2>1, <3>1, <3>2 DEF Tidy
  <2>4. Told(i)'
    BY <2>1 DEF Inv2, Good, Told, Signing, SigningOutput
  <2> QED
    BY <2>2, <2>3, <2>4 DEF Good
<1> QED
  BY <1>1, <1>2 DEF Inv2

\* Writing an output disturbs the commands that have the same one.
LEMMA Publicly2 ==
  ASSUME NEW j \in Job, Inv2, Inv', NEW a, Place(j, a), IsArchive(a),
         a = NoFile \/ a.index # {},
         Pruned(a) \/ SameFiles(a, given[Out(j)]),
         UNCHANGED <<work, input, todo, given>>,
         \A i \in Job \ {j} : pc'[i] = pc[i] /\ held'[i] = held[i],
         Good(j)'
  PROVE  Inv2'
<1>1. /\ \A p \in Path : disk'[p] = IF p = Out(j) THEN a ELSE disk[p]
      /\ before' = [i \in Job |-> before'[i]]
      /\ \A i \in Job \ {j} :
           before'[i] = IF Out(i) = Out(j) THEN Disturbed ELSE before[i]
  BY DEF Inv2, Inv, Shape, Place
<1>2. World'
  <2>1. PrunedExactly'
    BY <1>1 DEF Inv2, World, PrunedExactly, Pruned, GivenMissing
  <2> QED
    BY <1>1, <2>1 DEF Inv2, World, Absent
<1>3. ASSUME NEW i \in Job \ {j} PROVE Good(i)'
  <2>1. /\ pc'[i] = pc[i] /\ held'[i] = held[i] /\ work'[i] = work[i]
        /\ input'[i] = input[i] /\ todo'[i] = todo[i]
    OBVIOUS
  <2>2. (JobTypes(i) /\ Progress(i) /\ Tidy(i))'
    BY <2>1 DEF Inv2, Good, JobTypes, Progress, Tidy, Signing, Pruned, GivenMissing
  <2>3. Told(i)'
    <3>1. CASE Out(i) = Out(j)
      BY <1>1, <3>1 DEF Told
    <3>2. CASE Out(i) # Out(j)
      <4>1. Out(i) \in Path
        BY ArchiveAssumption DEF Out
      <4>2. disk'[Out(i)] = disk[Out(i)] /\ before'[i] = before[i]
        BY <1>1, <3>2, <4>1
      <4> QED
        BY <2>1, <4>2 DEF Inv2, Good, Told, Signing, SigningOutput
    <3> QED
      BY <3>1, <3>2
  <2> QED
    BY <2>2, <2>3 DEF Good
<1> QED
  BY <1>2, <1>3 DEF Inv2

-----------------------------------------------------------------------------
\* The steps of one command.
LEMMA BeginCreateGood == ASSUME NEW j \in Job, Inv2, BeginCreate(j) PROVE Inv2'
<1> USE DEF BeginCreate
<1>1. /\ pc'[j] = "ingest" /\ held'[j] = {"create"} /\ todo'[j] = Request[j].packages
      /\ work'[j] = NoFile /\ input'[j] = input[j] /\ before'[j] = disk[Out(j)]
      /\ pc[j] = "idle" /\ Request[j].op = "create"
  BY DEF Inv2, Inv, Shape, World, Good, Progress
<1>2. Good(j)'
  <2>1. JobTypes(j)'
    BY <1>1 DEF Inv2, Good, JobTypes, Active
  <2>2. Progress(j)' /\ Tidy(j)'
    BY <1>1, NothingIsArchive
       DEF Inv2, Good, Progress, Tidy, Signing, GivenMissing, Pruned
  <2>3. Told(j)'
    BY <1>1 DEF Told, SigningOutput, Signing
  <2> QED
    BY <2>1, <2>2, <2>3 DEF Good
<1> QED
  BY <1>2, BeginCreateKeeps, Privately2 DEF Inv2, Inv, Shape, World

LEMMA IngestGood == ASSUME NEW j \in Job, Inv2, Ingest(j) PROVE Inv2'
<1> USE DEF Ingest, UnchangedDisk
<1>1. PICK p \in todo[j] :
        /\ todo' = [todo EXCEPT ![j] = @ \ {p}]
        /\ work' = [work EXCEPT ![j].index = @ \union {ManifestBlob(p)},
                                ![j].blobs = @ \union reachableDigests({ManifestBlob(p)})]
  OBVIOUS
<1>2. Inv'
  BY IngestKeeps DEF Inv2
<1> DEFINE index == work[j].index \union {ManifestBlob(p)}
           blobs == work[j].blobs \union reachableDigests({ManifestBlob(p)})
<1>3. /\ work'[j].index = index /\ work'[j].blobs = blobs
      /\ work'[j].evidence = work[j].evidence
      /\ \A i \in Job \ {j} : work'[i] = work[i]
  <2>1. work[j] = [index |-> work[j].index, blobs |-> work[j].blobs,
                   evidence |-> work[j].evidence]
    BY DEF Inv2, Inv, Shape, IsLayout
  <2>2. work = [i \in Job |-> work[i]]
    BY DEF Inv2, Inv, Shape
  <2> QED
    BY <1>1, <2>1, <2>2
<1>4. p \in Package
  BY ArchiveAssumption DEF Inv2, Good, JobTypes
<1>5. BlobSet(index) /\ BlobSet(blobs)
  <2>1. BlobSet(reachableDigests({ManifestBlob(p)})) /\ BlobSet({ManifestBlob(p)})
    BY <1>4, ReachManifest, BlobSets
  <2>2. BlobSet(work[j].index) /\ BlobSet(work[j].blobs)
    BY DEF Inv2, Good, JobTypes, IsArchive
  <2> QED
    BY <2>1, <2>2, BlobSets
<1>6. blobs = reachableDigests(index)
  <2>1. work[j].blobs = reachableDigests(work[j].index)
    BY DEF Inv2, Good, Tidy, Missing
  <2> QED
    BY <2>1, ReachUnion
<1>7. Good(j)'
  <2>1. JobTypes(j)'
    <3>1. IsArchive(work'[j])
      BY <1>3, <1>5 DEF Inv2, Good, JobTypes, IsArchive
    <3>2. todo'[j] \subseteq todo[j]
      BY <1>1 DEF Inv2, World
    <3> QED
      BY <3>1, <3>2 DEF Inv2, Good, JobTypes
  <2>2. Progress(j)' /\ Told(j)'
    BY DEF Inv2, Good, Progress, Told, Signing, SigningOutput
  <2>3. Tidy(j)'
    <3>1. pc'[j] = "ingest" /\ Missing(work'[j]) = {}
      BY <1>3, <1>6 DEF Missing
    <3>2. input'[j] = input[j] /\ GivenMissing' = GivenMissing
      BY DEF GivenMissing
    <3> QED
      BY <1>3, <1>6, <3>1, <3>2 DEF Inv2, Good, Tidy
  <2> QED
    BY <2>1, <2>2, <2>3 DEF Good
<1> QED
  BY <1>1, <1>2, <1>3, <1>7, Privately2 DEF Inv2, Inv, Shape, World

LEMMA DefineGood == ASSUME NEW j \in Job, Inv2, Define(j) PROVE Inv2'
<1> USE DEF Define, UnchangedDisk
<1> DEFINE definition == DefinitionBlob("bundle", Request[j].defaults)
           index == work[j].index \union {definition}
           blobs == work[j].blobs \union reachableDigests({definition})
           a == [index |-> index, blobs |-> PruneUnreferencedBlobs(blobs, index),
                 evidence |-> Unsigned]
<1>1. work' = [work EXCEPT ![j] = a]
  OBVIOUS
<1>2. Inv'
  BY DefineKeeps DEF Inv2
<1>3. work'[j] = a /\ pc'[j] = "pack" /\ \A i \in Job \ {j} : work'[i] = work[i]
  BY <1>1 DEF Inv2, Inv, Shape
<1>4. blobs = reachableDigests(index) /\ a.blobs = blobs
  <2>1. work[j].blobs = reachableDigests(work[j].index)
    BY DEF Inv2, Good, Tidy, Missing
  <2> QED
    BY <2>1, ReachUnion DEF PruneUnreferencedBlobs
<1>5. IsArchive(a)
  <2>1. BlobSet(reachableDigests({definition})) /\ definition \in reachableDigests({definition})
    BY ReachDefinition DEF reachableDigests
  <2>2. BlobSet({definition})
    BY <2>1, BlobSets
  <2>3. BlobSet(work[j].index) /\ BlobSet(work[j].blobs)
    BY DEF Inv2, Good, JobTypes, IsArchive
  <2>4. BlobSet(index) /\ BlobSet(blobs)
    BY <2>1, <2>2, <2>3, BlobSets
  <2> QED
    BY <1>4, <2>4, NothingIsArchive DEF IsArchive, NoFile
<1>6. Good(j)'
  <2>1. JobTypes(j)'
    BY <1>3, <1>5 DEF Inv2, Good, JobTypes, Active
  <2>2. Progress(j)' /\ Told(j)'
    BY <1>3 DEF Inv2, Good, Progress, Told, Signing, SigningOutput, Active
  <2>3. Tidy(j)'
    <3>1. Pruned(a) /\ a.index # {}
      BY <1>4 DEF Pruned, Missing
    <3>2. input'[j] = input[j] /\ GivenMissing' = GivenMissing
      BY DEF GivenMissing
    <3> QED
      BY <1>3, <3>1, <3>2 DEF Inv2, Good, Tidy, Pruned
  <2> QED
    BY <2>1, <2>2, <2>3 DEF Good
<1> QED
  BY <1>2, <1>3, <1>6, Privately2 DEF Inv2, Inv, Shape, World

\* The staged copy lacks what the file on the disk lacks.
LEMMA DiskMissing ==
  ASSUME World, NEW p \in Path PROVE Missing(disk[p]) \subseteq GivenMissing
BY DEF World, PrunedExactly, Pruned, SameFiles, Missing, GivenMissing

LEMMA BeginReconfigureGood == ASSUME NEW j \in Job, Inv2, BeginReconfigure(j) PROVE Inv2'
<1> USE DEF BeginReconfigure
<1>1. Inv'
  BY BeginReconfigureKeeps DEF Inv2
<1>2. /\ pc'[j] \in {"verify", "check"} /\ held'[j] \in {{}, {"input"}}
      /\ input'[j] \in {input[j], disk[Request[j].src]}
      /\ work'[j] = work[j] /\ todo'[j] = todo[j] /\ before'[j] = disk[Out(j)]
  BY DEF Inv2, Inv, Shape, World, Good, Progress
<1>3. Request[j].src \in Path
  BY ArchiveAssumption
<1>4. IsArchive(input'[j]) /\ Missing(input'[j]) \subseteq GivenMissing
  BY <1>2, <1>3, DiskMissing DEF Inv2, World, Good, JobTypes, Tidy
<1>5. Good(j)'
  <2>1. JobTypes(j)'
    BY <1>2, <1>4 DEF Inv2, Good, JobTypes, Active
  <2>2. Progress(j)' /\ Tidy(j)'
    BY <1>2, <1>4 DEF Progress, Tidy, Signing, GivenMissing
  <2>3. Told(j)'
    BY <1>2 DEF Told, SigningOutput, Signing
  <2> QED
    BY <2>1, <2>2, <2>3 DEF Good
<1> QED
  BY <1>1, <1>5, Privately2 DEF Inv2, Inv, Shape, World

LEMMA CheckInputGood ==
  ASSUME NEW j \in Job, Inv2, VerifyInput(j) \/ CheckOutput(j) PROVE Inv2'
<1> USE DEF VerifyInput, CheckOutput, UnchangedDisk
<1>1. Inv'
  BY VerifyInputKeeps, CheckOutputKeeps DEF Inv2
<1>2. /\ \/ pc[j] = "verify" /\ pc'[j] = "check" /\ held'[j] = held[j]
         \/ pc[j] = "check" /\ pc'[j] = "rebuild" /\ held'[j] = held[j] \union {"reconfigure"}
              /\ Absent(disk[Out(j)])
      /\ UNCHANGED <<disk, before, work, input, todo, given>>
  BY DEF Inv2, Inv, Shape
<1>3. Good(j)'
  <2>1. JobTypes(j)'
    BY <1>2 DEF Inv2, Good, JobTypes, Progress, Active
  <2>2. Progress(j)' /\ Tidy(j)'
    BY <1>2 DEF Inv2, Good, Progress, Tidy, Signing, GivenMissing
  <2>3. Told(j)'
    <3>1. Out(j) \in Path /\ ~SigningOutput(j) /\ ~SigningOutput(j)'
      BY <1>2, ArchiveAssumption DEF Out, SigningOutput, Inv2, Good, Progress, Signing
    <3>2. Absent(disk[Out(j)]) => disk[Out(j)] = NoFile
      BY <3>1 DEF Inv2, World
    <3> QED
      BY <1>2, <3>1, <3>2 DEF Inv2, Good, Told, Active
  <2> QED
    BY <2>1, <2>2, <2>3 DEF Good
<1> QED
  BY <1>1, <1>2, <1>3, Privately2 DEF Inv2, Inv, Shape, World

\* What is rebuilt lacks nothing its input did not lack.
LEMMA RebuiltMissing ==
  ASSUME NEW old, HasDefinition(old.index), NEW d
  PROVE  reachableDigests(Rebuilt(old.index, d)) \
           (old.blobs \union {RebuiltDefinition(old.index, d),
              HCLBlob(RebuiltDefinition(old.index, d)[2]),
              DefaultsBlob(RebuiltDefinition(old.index, d)[3])}) \subseteq Missing(old)
<1> DEFINE D == Definition(old.index)
           R == RebuiltDefinition(old.index, d)
<1>1. D \in old.index /\ D[1] = "definition"
  BY DEF HasDefinition, Definition
<1>2. /\ R[2] = Suffixed(D[2]) /\ R[3] = d
      /\ Successors(R) \subseteq {HCLBlob(R[2]), ValuesBlob, DefaultsBlob(R[3])}
  <2> DEFINE s == Suffixed(D[2])
  <2>1. R = DefinitionBlob(s, d)
    BY DEF RebuiltDefinition
  <2>2. R[2] = s /\ R[3] = d
    BY <2>1 DEF DefinitionBlob
  <2>3. Successors(DefinitionBlob(s, d)) = {HCLBlob(s), ValuesBlob} \union
          {DefaultsBlob(x) : x \in {d} \ {NoDefaults}}
    BY ReachDefinition
  <2>4. Successors(R) \subseteq {HCLBlob(s), ValuesBlob, DefaultsBlob(d)}
    BY <2>1, <2>3
  <2> QED
    BY <2>2, <2>4
<1>3. ValuesBlob \in Successors(D)
  BY <1>1 DEF Successors
<1>4. reachableDigests(Rebuilt(old.index, d)) \subseteq
        reachableDigests(old.index) \union {R} \union Successors(R)
  BY DEF Rebuilt, reachableDigests
<1>5. ValuesBlob \in reachableDigests(old.index)
  BY <1>1, <1>3 DEF reachableDigests
<1> QED
  BY <1>2, <1>4, <1>5 DEF Missing

LEMMA RebuildGood == ASSUME NEW j \in Job, Inv2, Rebuild(j) PROVE Inv2'
<1> USE DEF Rebuild, UnchangedDisk
<1> DEFINE old == InputOf(j)
           index == Rebuilt(old.index, Request[j].defaults)
           definition == RebuiltDefinition(old.index, Request[j].defaults)
           blobs == old.blobs \union {definition, HCLBlob(definition[2]), DefaultsBlob(definition[3])}
           a == [index |-> index, blobs |-> PruneUnreferencedBlobs(blobs, index),
                 evidence |-> Unsigned]
<1>1. work' = [work EXCEPT ![j] = a] /\ HasDefinition(old.index)
  OBVIOUS
<1>2. Inv'
  BY RebuildKeeps DEF Inv2
<1>3. work'[j] = a /\ pc'[j] = "pack" /\ \A i \in Job \ {j} : work'[i] = work[i]
  BY <1>1 DEF Inv2, Inv, Shape
<1>4. IsArchive(old) /\ Missing(old) \subseteq GivenMissing
  <2>1. Request[j].src \in Path
    BY ArchiveAssumption
  <2>2. IsArchive(disk[Request[j].src]) /\ Missing(disk[Request[j].src]) \subseteq GivenMissing
    BY <2>1, DiskMissing DEF Inv2, World
  <2>3. IsArchive(input[j]) /\ Missing(input[j]) \subseteq GivenMissing
    BY DEF Inv2, Good, JobTypes, Tidy
  <2> QED
    BY <2>2, <2>3 DEF InputOf
<1>5. Pruned(a) /\ a.index # {}
  <2>1. reachableDigests(index) \ blobs \subseteq GivenMissing
    <3>1. HasDefinition(old.index)
      BY <1>1
    <3> HIDE DEF Rebuild, old
    <3>2. reachableDigests(index) \ blobs \subseteq Missing(old)
      BY <3>1, RebuiltMissing
    <3> QED
      BY <1>4, <3>2
  <2>2. definition \in index
    BY DEF Rebuilt
  <2> QED
    BY <2>1, <2>2 DEF Pruned, Missing, PruneUnreferencedBlobs
<1>6. IsArchive(a)
  <2> DEFINE new == reachableDigests({definition}) \union {HCLBlob(definition[2]), DefaultsBlob(definition[3])}
  <2>1. BlobSet(reachableDigests({definition})) /\ definition \in reachableDigests({definition})
    <3> DEFINE s == Suffixed(Definition(old.index)[2])
    <3>1. definition = DefinitionBlob(s, Request[j].defaults)
      BY DEF RebuiltDefinition
    <3>2. BlobSet(reachableDigests({DefinitionBlob(s, Request[j].defaults)}))
      BY ReachDefinition
    <3> QED
      BY <3>1, <3>2 DEF reachableDigests
  <2>2. BlobSet({HCLBlob(definition[2])}) /\ BlobSet({DefaultsBlob(definition[3])})
    BY LeafBlobs
  <2>3. BlobSet({definition})
    BY <2>1, BlobSets
  <2>4. BlobSet(blobs)
    <3>1. blobs = ((old.blobs \union {definition}) \union {HCLBlob(definition[2])})
                    \union {DefaultsBlob(definition[3])}
      OBVIOUS
    <3>2. BlobSet(old.blobs)
      BY <1>4 DEF IsArchive
    <3>3. BlobSet(old.blobs \union {definition})
      BY <2>3, <3>2, BlobSets
    <3>4. BlobSet((old.blobs \union {definition}) \union {HCLBlob(definition[2])})
      BY <2>2, <3>3, BlobSets
    <3> QED
      BY <2>2, <3>1, <3>4, BlobSets
  <2>5. BlobSet(a.blobs)
    <3>1. a.blobs \subseteq blobs
      BY DEF PruneUnreferencedBlobs
    <3> QED
      BY <2>4, <3>1, BlobSets
  <2>6. BlobSet(index)
    <3>1. BlobSet(old.index \union {definition})
      BY <1>4, <2>3, BlobSets DEF IsArchive
    <3>2. index \subseteq old.index \union {definition}
      BY DEF Rebuilt
    <3> QED
      BY <3>1, <3>2, BlobSets
  <2> QED
    BY <2>5, <2>6, NothingIsArchive DEF IsArchive, NoFile
<1>7. Good(j)'
  <2>1. JobTypes(j)'
    BY <1>3, <1>6 DEF Inv2, Good, JobTypes, Active
  <2>2. Progress(j)'
    BY <1>3 DEF Inv2, Good, Progress, Signing
  <2>3. Tidy(j)'
    BY <1>3, <1>5 DEF Inv2, Good, Tidy, Pruned, GivenMissing
  <2>4. Told(j)'
    BY <1>3 DEF Inv2, Good, Told, Progress, Signing, SigningOutput, Active
  <2> QED
    BY <2>1, <2>2, <2>3, <2>4 DEF Good
<1> QED
  BY <1>2, <1>3, <1>7, Privately2 DEF Inv2, Inv, Shape, World

LEMMA BeginSignGood == ASSUME NEW j \in Job, Inv2, BeginSign(j) PROVE Inv2'
<1> USE DEF BeginSign
<1>1. Inv'
  BY BeginSignKeeps DEF Inv2
<1>2. /\ pc'[j] = "open" /\ held'[j] = {} /\ before'[j] = disk[Out(j)]
      /\ Request[j].op = "sign" /\ Request[j].sign
      /\ UNCHANGED <<work, input, todo, given>>
  BY ArchiveAssumption DEF Inv2, Inv, Shape, World, Good, Progress
<1>3. Good(j)'
  <2>1. JobTypes(j)'
    BY <1>2 DEF Inv2, Good, JobTypes, Active
  <2>2. Progress(j)' /\ Tidy(j)'
    BY <1>2 DEF Inv2, Good, Progress, Tidy, Signing, GivenMissing
  <2>3. Told(j)'
    BY <1>2 DEF Told, SigningOutput, Signing
  <2> QED
    BY <2>1, <2>2, <2>3 DEF Good
<1> QED
  BY <1>1, <1>3, Privately2 DEF Inv2, Inv, Shape, World

LEMMA OpenGood == ASSUME NEW j \in Job, Inv2, Open(j) PROVE Inv2'
<1> USE DEF Open, UnchangedDisk
<1>1. Inv'
  BY OpenKeeps DEF Inv2
<1>2. /\ pc[j] = "open" /\ pc'[j] = "attest" /\ held'[j] = held[j] \union {"sign"}
      /\ work'[j] = disk[Out(j)] /\ ~Absent(disk[Out(j)])
      /\ \A i \in Job \ {j} : work'[i] = work[i]
      /\ UNCHANGED <<disk, before, input, todo, given>>
  BY DEF Inv2, Inv, Shape
<1>3. Out(j) \in Path
  BY ArchiveAssumption DEF Out
<1>4. Good(j)'
  <2>1. JobTypes(j)'
    BY <1>2, <1>3 DEF Inv2, World, Good, JobTypes, Progress, Active
  <2>2. Progress(j)'
    BY <1>2 DEF Inv2, Good, Progress, Signing
  <2>3. Tidy(j)'
    <3>1. SameFiles(disk[Out(j)], given[Out(j)]) \/ Pruned(disk[Out(j)])
      BY <1>3 DEF Inv2, World, PrunedExactly
    <3> QED
      BY <1>2, <3>1 DEF Inv2, Good, Tidy, Signing, Absent, Pruned, GivenMissing
  <2>4. Told(j)'
    BY <1>2 DEF Inv2, Good, Told, Signing, SigningOutput, Active
  <2> QED
    BY <2>1, <2>2, <2>3, <2>4 DEF Good
<1>5. /\ before' = [i \in Job |-> before'[i]] /\ todo' = [i \in Job |-> todo'[i]]
      /\ \A i \in Job \ {j} :
           /\ pc'[i] = pc[i] /\ held'[i] = held[i] /\ work'[i] = work[i]
           /\ input'[i] = input[i] /\ todo'[i] = todo[i] /\ before'[i] = before[i]
  BY <1>2 DEF Inv2, Inv, Shape, World
<1> HIDE DEF Open
<1> QED
  BY <1>1, <1>2, <1>4, <1>5, Privately2

LEMMA AttestGood == ASSUME NEW j \in Job, Inv2, Attest(j) PROVE Inv2'
<1> USE DEF Attest, UnchangedDisk
<1>1. Inv'
  BY AttestKeeps DEF Inv2
<1>2. /\ pc[j] = "attest" /\ pc'[j] = "pack" /\ held'[j] = held[j]
      /\ work'[j].index = work[j].index /\ work'[j].blobs = work[j].blobs
      /\ work'[j].evidence = [by |-> "us", over |-> work[j].index]
      /\ \A i \in Job \ {j} : work'[i] = work[i]
      /\ UNCHANGED <<disk, before, input, todo, given>>
  BY DEF Inv2, Inv, Shape, IsLayout
<1>3. Good(j)'
  <2>1. JobTypes(j)'
    <3>1. IsArchive(work'[j])
      BY <1>2 DEF Inv2, Good, JobTypes, IsArchive, Evidence
    <3> QED
      BY <1>2, <3>1 DEF Inv2, Good, JobTypes, Active
  <2>2. Progress(j)'
    BY <1>2 DEF Inv2, Good, Progress, Signing
  <2>3. Tidy(j)'
    BY <1>2 DEF Inv2, Good, Tidy, Signing, SameFiles, Pruned, Missing, GivenMissing
  <2>4. Told(j)'
    BY <1>2 DEF Inv2, Good, Told, Signing, SigningOutput, Active
  <2> QED
    BY <2>1, <2>2, <2>3, <2>4 DEF Good
<1>5. /\ before' = [i \in Job |-> before'[i]] /\ todo' = [i \in Job |-> todo'[i]]
      /\ \A i \in Job \ {j} :
           /\ pc'[i] = pc[i] /\ held'[i] = held[i] /\ work'[i] = work[i]
           /\ input'[i] = input[i] /\ todo'[i] = todo[i] /\ before'[i] = before[i]
  BY <1>2 DEF Inv2, Inv, Shape, World
<1> HIDE DEF Attest
<1> QED
  BY <1>1, <1>2, <1>3, <1>5, Privately2

LEMMA PackGood == ASSUME NEW j \in Job, Inv2, Pack(j) PROVE Inv2'
<1> USE DEF Pack, UnchangedDisk
<1>1. Inv'
  BY PackKeeps DEF Inv2
<1>2. /\ pc[j] = "pack" /\ pc'[j] = "publish" /\ held'[j] = held[j] \union {"archive"}
      /\ UNCHANGED <<disk, before, work, input, todo, given>>
  BY DEF Inv2, Inv, Shape
<1>3. Signing(j)' <=> Signing(j)
  BY <1>2 DEF Signing
<1>4. Good(j)'
  <2>1. JobTypes(j)'
    BY <1>2 DEF Inv2, Good, JobTypes, Active
  <2>2. Progress(j)' /\ Tidy(j)'
    BY <1>2, <1>3 DEF Inv2, Good, Progress, Tidy, Pruned, GivenMissing
  <2>3. Told(j)'
    BY <1>2, <1>3 DEF Inv2, Good, Told, SigningOutput, Active
  <2> QED
    BY <2>1, <2>2, <2>3 DEF Good
<1> QED
  BY <1>1, <1>2, <1>4, Privately2 DEF Inv2, Inv, Shape, World

-----------------------------------------------------------------------------
\* The output is written, and signed next or done with.
LEMMA PublishGood == ASSUME NEW j \in Job, Inv2, Publish(j) PROVE Inv2'
<1> USE DEF Publish
<1>1. Inv'
  BY PublishKeeps DEF Inv2
<1>2. /\ pc[j] = "publish"
      /\ IF Request[j].sign /\ ~Signing(j)
         THEN pc'[j] = "open" /\ held'[j] = held[j] \intersect {"input"}
         ELSE pc'[j] = "ok" /\ held'[j] = {}
      /\ UNCHANGED <<work, input, todo, given>>
  BY DEF Inv2, Inv, Shape, Kept
<1>3. Out(j) \in Path
  BY ArchiveAssumption DEF Out
<1>4. disk'[Out(j)] = work[j] /\ before'[j] = before[j]
  BY <1>3 DEF Inv2, Inv, Shape, World, Place
<1>5. /\ work[j].index # {} /\ IsArchive(work[j])
      /\ Pruned(work[j]) \/ SameFiles(work[j], given[Out(j)])
  BY <1>2 DEF Inv2, Good, JobTypes, Tidy
<1>6. Good(j)'
  <2>1. JobTypes(j)'
    BY <1>2 DEF Inv2, Good, JobTypes, Active, Ended
  <2>2. Progress(j)' /\ Tidy(j)'
    BY <1>2 DEF Inv2, Good, Progress, Tidy, Signing, GivenMissing
  <2>3. Told(j)'
    <3>1. CASE Request[j].sign /\ ~Signing(j)
      <4>1. pc'[j] = "open" /\ SigningOutput(j)'
        BY <1>2, <3>1 DEF Inv2, Good, Progress, SigningOutput, Signing
      <4> QED
        BY <1>2, <1>4, <3>1, <4>1 DEF Inv2, Good, Told
    <3>2. CASE ~(Request[j].sign /\ ~Signing(j))
      <4>1. pc'[j] = "ok" /\ Request[j].sign = Signing(j)
        BY <1>2, <3>2, ArchiveAssumption DEF Inv2, Good, JobTypes, Signing
      <4>2. Signing(j) = (work[j].evidence.by = "us")
        BY <1>2 DEF Inv2, Good, Progress, Unsigned, Signing
      <4> QED
        BY <1>4, <1>5, <4>1, <4>2 DEF Told, Absent, Active
    <3> QED
      BY <3>1, <3>2
  <2> QED
    BY <2>1, <2>2, <2>3 DEF Good
<1>7. \A i \in Job \ {j} : pc'[i] = pc[i] /\ held'[i] = held[i]
  BY DEF Inv2, Inv, Shape
<1> QED
  BY <1>1, <1>5, <1>6, <1>7, Publicly2

\* What failed leaves the output as it was, or none where it was to be signed.
LEMMA FailGood == ASSUME NEW j \in Job, Inv2, Fail(j) PROVE Inv2'
<1> USE DEF Fail, UnchangedDisk
<1>1. Inv'
  BY FailKeeps DEF Inv2
<1>2. /\ pc[j] \in Active /\ pc'[j] = "failed" /\ held'[j] = {}
      /\ UNCHANGED <<work, input, todo, given>>
      /\ \A i \in Job \ {j} : pc'[i] = pc[i] /\ held'[i] = held[i]
  BY DEF Inv2, Inv, Shape
<1>3. (JobTypes(j) /\ Progress(j) /\ Tidy(j))'
  BY <1>2 DEF Inv2, Good, JobTypes, Progress, Tidy, Ended, GivenMissing, Signing
<1>4. CASE SigningOutput(j)
  <2>1. Out(j) \in Path
    BY ArchiveAssumption DEF Out
  <2>2. disk'[Out(j)] = NoFile /\ before'[j] = before[j] /\ Place(j, NoFile)
    BY <1>4, <2>1 DEF Inv2, Inv, Shape, World, Place
  <2>3. Told(j)'
    <3>1. Request[j].op \in {"create", "reconfigure"} /\ Request[j].sign
      BY <1>4, ArchiveAssumption DEF Inv2, Good, JobTypes, Progress, SigningOutput, Signing
    <3>2. pc[j] \in {"open", "attest", "pack", "publish"}
      BY <1>2, <1>4 DEF Inv2, Good, Progress, SigningOutput, Active
    <3>3. Request[j].op = "reconfigure" /\ before[j] # Disturbed => before[j] = NoFile
      BY <3>2 DEF Inv2, Good, Told
    <3>4. pc'[j] = "failed" /\ Absent(disk'[Out(j)]) /\ before'[j] = before[j]
      BY <1>2, <2>2 DEF Absent, NoFile
    <3>5. "failed" \notin Active
      BY DEF Active
    <3> HIDE DEF Fail
    <3> QED
      BY <2>2, <3>1, <3>3, <3>4, <3>5 DEF Told
  <2> QED
    BY <1>1, <1>2, <1>3, <2>2, <2>3, NothingIsArchive, Publicly2 DEF Good
<1>5. CASE ~SigningOutput(j)
  <2>1. UNCHANGED <<disk, before>>
    BY <1>5
  <2>2. Told(j)'
    BY <1>2, <1>5, <2>1 DEF Inv2, Good, Told, Active
  <2> QED
    BY <1>1, <1>2, <1>3, <2>1, <2>2, Privately2 DEF Inv2, Inv, Shape, World, Good
<1> QED
  BY <1>4, <1>5

LEMMA StopGood == ASSUME NEW j \in Job, Inv2, FailToBegin(j) \/ Kill(j) PROVE Inv2'
<1> USE DEF FailToBegin, Kill, UnchangedDisk
<1>1. Inv'
  BY StopKeeps DEF Inv2
<1>2. /\ \/ pc'[j] = "failed" /\ pc[j] = "idle" /\ before'[j] = disk[Out(j)]
         \/ pc'[j] = "killed" /\ before' = before
      /\ UNCHANGED <<disk, held, work, input, todo, given>>
      /\ \A i \in Job \ {j} : pc'[i] = pc[i] /\ before'[i] = before[i]
  BY DEF Inv2, Inv, Shape, World
<1>3. Good(j)'
  <2>1. JobTypes(j)'
    BY <1>2 DEF Inv2, Good, JobTypes, Progress, Ended
  <2>2. Progress(j)' /\ Tidy(j)' /\ Told(j)'
    BY <1>2 DEF Inv2, Good, Progress, Tidy, Told, Active, GivenMissing, Signing, SigningOutput
  <2> QED
    BY <2>1, <2>2 DEF Good
<1> QED
  BY <1>1, <1>2, <1>3, Privately2 DEF Inv2, Inv, Shape, World

LEMMA Inductive2 == Inv2 /\ [Next]_vars => Inv2'
<1> SUFFICES ASSUME Inv2, [Next]_vars PROVE Inv2'
  OBVIOUS
<1>1. CASE UNCHANGED vars
  <2>1. Inv'
    BY <1>1, Inductive DEF Inv2
  <2>2. World'
    BY <1>1 DEF vars, Inv2, World, PrunedExactly, Pruned, GivenMissing
  <2>3. ASSUME NEW j \in Job PROVE Good(j)'
    <3>1. JobTypes(j)' /\ Progress(j)'
      BY <1>1 DEF vars, Inv2, Good, JobTypes, Progress, Signing
    <3>2. Tidy(j)'
      BY <1>1 DEF vars, Inv2, Good, Tidy, Signing, Pruned, GivenMissing
    <3>3. Told(j)'
      BY <1>1 DEF vars, Inv2, Good, Told, Signing, SigningOutput
    <3> QED
      BY <3>1, <3>2, <3>3 DEF Good
  <2> QED
    BY <2>1, <2>2, <2>3 DEF Inv2
<1>2. ASSUME NEW j \in Job, Step(j) PROVE Inv2'
  BY <1>2, BeginCreateGood, IngestGood, DefineGood, BeginReconfigureGood, CheckInputGood,
     RebuildGood, BeginSignGood, OpenGood, AttestGood, PackGood, PublishGood, FailGood,
     StopGood DEF Step
<1> QED
  BY <1>1, <1>2 DEF Next

LEMMA Invariant2 == Spec => []Inv2
  BY Initially2, Inductive2, PTL DEF Spec

-----------------------------------------------------------------------------
\* Whatever the commands wrote holds nothing its index does not reach and lacks
\* nothing but what was lacking before (Store.PruneUnreferencedBlobs), or was only
\* signed (Sign packs what it extracted).
THEOREM PrunesExactly == Spec => []PrunedExactly
<1>1. Inv2 => PrunedExactly
  BY DEF Inv2, World
<1> QED
  BY <1>1, Invariant2, PTL

\* A command tells the truth about its output, as long as nobody else writes it: the
\* deferred removal after a failed signature included (Create, Reconfigure, Sign).
THEOREM OutcomesAreTrue == Spec => []OutcomeIsTrue
<1>1. Inv2 => OutcomeIsTrue
  BY DEF Inv2, World, Good, Told, TypeOK, OutcomeIsTrue
<1> QED
  BY <1>1, Invariant2, PTL
----------------------------------------------------------------------------
(* The order of a tarball: the members of a set in a sequence, and the ranks *)
(* one after another.                                                        *)

\* A set of naturals has a least member.
LEMMA Least ==
  ASSUME NEW T, T \subseteq Nat, T # {}
  PROVE  \E x \in T : \A y \in T : x <= y
<1>1. PICK x \in T : \A y \in T : ~(<<y, x>> \in OpToRel(<, Nat))
  BY NatLessThanWellFounded, WFMin
<1>2. \A y \in T : ~(y < x)
  BY <1>1 DEF OpToRel
<1>3. \A y \in T : x \in Nat /\ y \in Nat /\ ~(y < x)
  BY <1>2
<1> QED
  BY <1>3

IsSeq(s) == \E S : s \in Seq(S)

LEMMA SeqFacts ==
  ASSUME NEW s, IsSeq(s)
  PROVE  Len(s) \in Nat /\ DOMAIN s = 1 .. Len(s) /\ ToSet(s) = {s[i] : i \in 1 .. Len(s)}
<1>1. PICK S : s \in Seq(S)
  BY DEF IsSeq
<1> QED
  BY <1>1 DEF ToSet

LEMMA OneMore ==
  ASSUME NEW s, IsSeq(s), NEW t, IsSeq(t), NEW x, Len(t) = Len(s) + 1,
         \A i \in 1 .. Len(s) : t[i] = s[i], t[Len(s) + 1] = x
  PROVE  ToSet(t) = ToSet(s) \cup {x}
<1>1. ToSet(t) = {t[i] : i \in 1 .. Len(t)}
  BY SeqFacts
<1>2. ToSet(s) = {s[i] : i \in 1 .. Len(s)} /\ Len(s) \in Nat
  BY SeqFacts
<1>3. \A i : i \in 1 .. Len(t) <=> i \in 1 .. Len(s) \/ i = Len(s) + 1
  BY <1>2
<1>4. \A y \in ToSet(t) : y \in ToSet(s) \cup {x}
  BY <1>1, <1>2, <1>3
<1>5. \A y \in ToSet(s) : y \in ToSet(t)
  <2>1. \A i \in 1 .. Len(s) : i \in 1 .. Len(t) /\ t[i] = s[i]
    BY <1>3
  <2> QED
    BY <1>1, <1>2, <2>1
<1>6. x \in ToSet(t)
  <2>1. Len(s) + 1 \in 1 .. Len(t)
    BY <1>3
  <2> QED
    BY <1>1, <2>1
<1> QED
  BY <1>4, <1>5, <1>6

\* u is s and after it t.
Follows(u, s, t) ==
  /\ Len(u) = Len(s) + Len(t)
  /\ \A i \in 1 .. Len(s) : u[i] = s[i]
  /\ \A i \in 1 .. Len(t) : u[Len(s) + i] = t[i]

LEMMA Joined ==
  ASSUME NEW s, IsSeq(s), NEW t, IsSeq(t), NEW u, IsSeq(u), Follows(u, s, t)
  PROVE  ToSet(u) = ToSet(s) \cup ToSet(t)
<1> USE DEF Follows
<1>1. ToSet(t) = {t[i] : i \in 1 .. Len(t)} /\ Len(t) \in Nat
  BY SeqFacts
<1>2. ToSet(s) = {s[i] : i \in 1 .. Len(s)} /\ Len(s) \in Nat
  BY SeqFacts
<1>3. ToSet(u) = {u[i] : i \in 1 .. Len(u)}
  BY SeqFacts
<1>4. ASSUME NEW i \in 1 .. Len(u) PROVE u[i] \in ToSet(s) \cup ToSet(t)
  <2>1. CASE i \in 1 .. Len(s)
    BY <1>2, <2>1
  <2>2. CASE i \notin 1 .. Len(s)
    <3>1. i - Len(s) \in 1 .. Len(t) /\ Len(s) + (i - Len(s)) = i
      BY <1>1, <1>2, <2>2
    <3>2. u[i] = t[i - Len(s)]
      BY <3>1
    <3> QED
      BY <1>1, <3>1, <3>2
  <2> QED
    BY <2>1, <2>2
<1>5. ASSUME NEW i \in 1 .. Len(s) PROVE s[i] \in ToSet(u)
  <2>1. i \in 1 .. Len(u)
    BY <1>1, <1>2
  <2> QED
    BY <1>3, <2>1
<1>6. ASSUME NEW i \in 1 .. Len(t) PROVE t[i] \in ToSet(u)
  <2>1. Len(s) + i \in 1 .. Len(u)
    BY <1>1, <1>2
  <2> QED
    BY <1>3, <2>1
<1>7. ToSet(u) \subseteq ToSet(s) \cup ToSet(t)
  BY <1>3, <1>4
<1>8. ToSet(s) \subseteq ToSet(u)
  BY <1>2, <1>5
<1>9. ToSet(t) \subseteq ToSet(u)
  BY <1>1, <1>6
<1> QED
  BY <1>7, <1>8, <1>9

LEMMA AppendFacts ==
  ASSUME NEW s, IsSeq(s), NEW x, NEW t, t = Append(s, x)
  PROVE  /\ IsSeq(t) /\ Len(t) = Len(s) + 1 /\ ToSet(t) = ToSet(s) \cup {x}
         /\ \A i \in 1 .. Len(s) : t[i] = s[i]
         /\ t[Len(s) + 1] = x
<1>1. PICK S : s \in Seq(S)
  BY DEF IsSeq
<1>2. s \in Seq(S \cup {x})
  BY <1>1
<1>3. t \in Seq(S \cup {x})
  BY <1>2
<1>4. Len(t) = Len(s) + 1 /\ t[Len(s) + 1] = x /\ \A i \in 1 .. Len(s) : t[i] = s[i]
  BY <1>2
<1>5. IsSeq(t)
  BY <1>3 DEF IsSeq
<1> DEFINE u == t
<1>6. ToSet(u) = ToSet(s) \cup {x}
  <2>1. /\ IsSeq(u) /\ Len(u) = Len(s) + 1 /\ u[Len(s) + 1] = x
        /\ \A i \in 1 .. Len(s) : u[i] = s[i]
    BY <1>4, <1>5
  <2> HIDE DEF u
  <2> QED
    BY <2>1, OneMore
<1> QED
  BY <1>4, <1>5, <1>6

LEMMA ConcatFacts ==
  ASSUME NEW s, IsSeq(s), NEW t, IsSeq(t), NEW u, u = s \o t
  PROVE  IsSeq(u) /\ Follows(u, s, t) /\ ToSet(u) = ToSet(s) \cup ToSet(t)
<1>1. PICK S : s \in Seq(S)
  BY DEF IsSeq
<1>2. PICK T : t \in Seq(T)
  BY DEF IsSeq
<1>3. s \in Seq(S \cup T) /\ t \in Seq(S \cup T)
  BY <1>1, <1>2
<1>4. u \in Seq(S \cup T)
  BY <1>3
<1>5. Follows(u, s, t)
  BY <1>3 DEF Follows
<1>6. IsSeq(u)
  BY <1>4 DEF IsSeq
<1>7. ToSet(u) = ToSet(s) \cup ToSet(t)
  BY <1>5, <1>6, Joined, Zenon
<1> QED
  BY <1>5, <1>6, <1>7

LEMMA NoMembers ==
  ASSUME NEW s, s = <<>>
  PROVE  IsSeq(s) /\ Len(s) = 0 /\ ToSet(s) = {}
<1>1. s \in Seq({}) /\ Len(s) = 0
  OBVIOUS
<1>2. IsSeq(s)
  BY <1>1 DEF IsSeq
<1>3. DOMAIN s = {}
  BY <1>1
<1>4. ToSet(s) = {}
  BY <1>3, Zenon DEF ToSet
<1> QED
  BY <1>1, <1>2, <1>4

----------------------------------------------------------------------------
\* One step of Listed.
ListMore(f, s) ==
  IF s = {} THEN <<>> ELSE LET x == CHOOSE x \in s : TRUE IN Append(f[s \ {x}], x)

\* f lists the subsets of S that have fewer than n members.
Lists(f, S, n) == \A s \in SUBSET S : Cardinality(s) < n => f[s] = ListMore(f, s)

LEMMA OneLess ==
  ASSUME NEW s, IsFiniteSet(s), s # {}, NEW x, x = CHOOSE y \in s : TRUE
  PROVE  /\ x \in s /\ IsFiniteSet(s \ {x}) /\ Cardinality(s) \in Nat
         /\ Cardinality(s \ {x}) \in Nat /\ Cardinality(s \ {x}) < Cardinality(s)
<1>1. x \in s
  OBVIOUS
<1>2. IsFiniteSet(s \ {x}) /\ Cardinality(s \ {x}) = Cardinality(s) - 1
  BY <1>1, FS_RemoveElement
<1>3. Cardinality(s) \in Nat /\ Cardinality(s \ {x}) \in Nat
  BY <1>2, FS_CardinalityType
<1> QED
  BY <1>1, <1>2, <1>3

LEMMA ListsExist ==
  ASSUME NEW S, IsFiniteSet(S)
  PROVE  \A n \in Nat : \E f : Lists(f, S, n)
<1> DEFINE Without == {n \in Nat : ~\E f : Lists(f, S, n)}
<1>0. SUFFICES ASSUME Without # {} PROVE FALSE
  OBVIOUS
<1>1. PICK n \in Without : \A m \in Without : n <= m
  <2>1. Without \subseteq Nat
    OBVIOUS
  <2> QED
    BY <1>0, <2>1, Least
<1>a. \A s \in SUBSET S : IsFiniteSet(s) /\ Cardinality(s) \in Nat
  BY FS_Subset, FS_CardinalityType
<1>2. n # 0
  <2>1. Lists(S, S, 0)
    BY <1>a DEF Lists
  <2> QED
    BY <1>1, <2>1
<1>3. n - 1 \in Nat /\ n \in Nat
  BY <1>1, <1>2
<1>4. n - 1 \notin Without
  BY <1>1, <1>3
<1>5. PICK f : Lists(f, S, n - 1)
  BY <1>3, <1>4
<1> DEFINE g == [s \in SUBSET S |-> ListMore(f, s)]
<1>6. ASSUME NEW s \in SUBSET S, Cardinality(s) < n PROVE g[s] = ListMore(g, s)
  <2>1. CASE s = {}
    BY <2>1 DEF ListMore
  <2>2. CASE s # {}
    <3> DEFINE x == CHOOSE x \in s : TRUE
    <3>1. Cardinality(s \ {x}) < Cardinality(s) /\ Cardinality(s \ {x}) \in Nat
      BY <1>a, <2>2, OneLess
    <3>2. s \ {x} \in SUBSET S /\ Cardinality(s \ {x}) < n - 1
      BY <1>3, <1>6, <1>a, <3>1
    <3>3. f[s \ {x}] = ListMore(f, s \ {x})
      BY <1>5, <3>2 DEF Lists
    <3>4. g[s \ {x}] = f[s \ {x}]
      BY <3>2, <3>3
    <3>5. g[s] = Append(f[s \ {x}], x)
      BY <2>2 DEF ListMore
    <3> HIDE DEF g
    <3> QED
      BY <2>2, <3>4, <3>5 DEF ListMore
  <2> QED
    BY <2>1, <2>2
<1>7. Lists(g, S, n)
  BY <1>6 DEF Lists
<1> HIDE DEF g
<1> QED
  BY <1>1, <1>7

\* Listed lists a finite set, no more and no less.
LEMMA ListedMembers ==
  ASSUME NEW S, IsFiniteSet(S)
  PROVE  IsSeq(Listed(S)) /\ ToSet(Listed(S)) = S
<1> DEFINE N == Cardinality(S) + 1
<1>a. \A s \in SUBSET S : IsFiniteSet(s) /\ Cardinality(s) \in Nat /\ Cardinality(s) <= Cardinality(S)
  BY FS_Subset, FS_CardinalityType
<1>b. Cardinality(S) \in Nat /\ N \in Nat
  BY FS_CardinalityType
<1>1. PICK f : Lists(f, S, N)
  BY <1>b, ListsExist
<1> DEFINE h == [s \in SUBSET S |-> f[s]]
<1>2. ASSUME NEW s \in SUBSET S PROVE h[s] = ListMore(h, s)
  <2>1. f[s] = ListMore(f, s)
    <3>1. Cardinality(s) < N
      BY <1>a, <1>b
    <3> QED
      BY <1>1, <3>1 DEF Lists
  <2>2. \A x : s \ {x} \in SUBSET S
    OBVIOUS
  <2> QED
    BY <2>1, <2>2 DEF ListMore
<1>3. h = [s \in SUBSET S |-> ListMore(h, s)]
  BY <1>2
<1> HIDE DEF h
<1> DEFINE order == CHOOSE g : g = [s \in SUBSET S |-> ListMore(g, s)]
<1>4. order = [s \in SUBSET S |-> ListMore(order, s)]
  BY <1>3
<1>5. Listed(S) = order[S]
  BY DEF Listed, ListMore
<1> HIDE DEF order
<1> DEFINE Right(s) == IsSeq(order[s]) /\ ToSet(order[s]) = s
           Bad == {s \in SUBSET S : ~Right(s)}
           Sizes == {Cardinality(s) : s \in Bad}
<1>6. ASSUME Bad # {} PROVE FALSE
  <2>1. Sizes \subseteq Nat /\ Sizes # {}
    BY <1>6, <1>a
  <2>2. PICK c \in Sizes : \A d \in Sizes : c <= d
    BY <2>1, Least
  <2>3. PICK s \in Bad : Cardinality(s) = c
    BY <2>2
  <2>4. order[s] = ListMore(order, s)
    BY <1>4, <2>3
  <2>5. s # {}
    <3>1. s = {} => order[s] = <<>>
      BY <2>4 DEF ListMore
    <3> SUFFICES ASSUME s = {} PROVE FALSE
      OBVIOUS
    <3> DEFINE v == order[s]
    <3>a. v = <<>>
      BY <3>1
    <3> HIDE DEF v
    <3>b. IsSeq(v) /\ ToSet(v) = {}
      BY <3>a, NoMembers, Zenon
    <3>2. IsSeq(order[s]) /\ ToSet(order[s]) = s
      BY <3>b DEF v
    <3> QED
      BY <2>3, <3>2
  <2> DEFINE x == CHOOSE x \in s : TRUE
             r == s \ {x}
  <2>6. x \in s /\ Cardinality(r) \in Nat /\ Cardinality(s) \in Nat /\ Cardinality(r) < Cardinality(s)
    BY <1>a, <2>3, <2>5, OneLess
  <2>7. r \in SUBSET S
    BY <2>3
  <2>8. order[s] = Append(order[r], x)
    BY <2>4, <2>5 DEF ListMore
  <2> HIDE DEF x, r
  <2>9. r \notin Bad
    <3>1. r \in Bad => Cardinality(r) \in Sizes
      OBVIOUS
    <3>2. r \in Bad => c <= Cardinality(r)
      BY <2>2, <3>1
    <3> HIDE DEF Bad, Sizes
    <3> QED
      BY <2>3, <2>6, <3>2
  <2>10. IsSeq(order[r]) /\ ToSet(order[r]) = r
    BY <2>7, <2>9
  <2>11. IsSeq(order[s]) /\ ToSet(order[s]) = r \cup {x}
    <3> DEFINE u == order[r]
               v == order[s]
    <3>1. IsSeq(u) /\ ToSet(u) = r /\ v = Append(u, x)
      BY <2>8, <2>10
    <3> HIDE DEF u, v
    <3>2. IsSeq(v) /\ ToSet(v) = ToSet(u) \cup {x}
      BY <3>1, AppendFacts
    <3> QED
      BY <3>1, <3>2 DEF v
  <2>12. r \cup {x} = s
    BY <2>6 DEF r
  <2> QED
    BY <2>3, <2>11, <2>12
<1>7. S \notin Bad
  BY <1>6
<1> QED
  BY <1>5, <1>7

----------------------------------------------------------------------------
\* Rank by rank: what comes of the ranks up to N, where piece[r] is what is of rank r.
IsUpTo(u, piece, N) ==
  u = [r \in 0 .. N |-> (IF r = 0 THEN <<>> ELSE u[r - 1]) \o piece[r]]

LEMMA UpToExists ==
  ASSUME NEW piece, NEW N \in Nat
  PROVE  \E u : IsUpTo(u, piece, N)
<1> DEFINE Without == {n \in Nat : ~\E u : IsUpTo(u, piece, n)}
<1>1. SUFFICES ASSUME Without # {} PROVE FALSE
  OBVIOUS
<1>2. PICK n \in Without : \A m \in Without : n <= m
  <2>1. Without \subseteq Nat
    OBVIOUS
  <2> QED
    BY <1>1, <2>1, Least
<1>3. n # 0
  <2> DEFINE u == [r \in 0 .. 0 |-> <<>> \o piece[0]]
  <2>1. IsUpTo(u, piece, 0)
    BY DEF IsUpTo
  <2> QED
    BY <1>2, <2>1
<1>4. n \in Nat /\ n - 1 \in Nat
  BY <1>2, <1>3
<1>5. PICK u : IsUpTo(u, piece, n - 1)
  BY <1>2, <1>4
<1> DEFINE v == [r \in 0 .. n |-> IF r = n THEN u[n - 1] \o piece[n] ELSE u[r]]
<1>6. ASSUME NEW r \in 0 .. n
      PROVE  v[r] = (IF r = 0 THEN <<>> ELSE v[r - 1]) \o piece[r]
  <2>1. CASE r = n
    BY <1>3, <1>4, <2>1
  <2>2. CASE r # n
    <3>1. r \in 0 .. n - 1 /\ r - 1 # n
      BY <1>4, <2>2
    <3>2. u[r] = (IF r = 0 THEN <<>> ELSE u[r - 1]) \o piece[r]
      BY <1>5, <3>1 DEF IsUpTo
    <3>3. r # 0 => v[r - 1] = u[r - 1]
      BY <1>4, <3>1
    <3> QED
      BY <2>2, <3>2, <3>3
  <2> QED
    BY <2>1, <2>2
<1>7. v = [r \in 0 .. n |-> (IF r = 0 THEN <<>> ELSE v[r - 1]) \o piece[r]]
  <2> DEFINE w == [r \in 0 .. n |-> (IF r = 0 THEN <<>> ELSE v[r - 1]) \o piece[r]]
  <2>1. \A r \in 0 .. n : v[r] = w[r]
    BY <1>6
  <2>a. v = [r \in 0 .. n |-> v[r]]
    OBVIOUS
  <2> HIDE DEF v
  <2>b. w = [r \in 0 .. n |-> w[r]]
    OBVIOUS
  <2>2. v = [r \in 0 .. n |-> v[r]] /\ w = [r \in 0 .. n |-> w[r]]
    BY <2>a, <2>b
  <2> HIDE DEF w
  <2>3. v = w
    BY <2>1, <2>2
  <2> QED
    BY <2>3 DEF w
<1>8. IsUpTo(v, piece, n)
  BY <1>7 DEF IsUpTo
<1> QED
  BY <1>2, <1>8

\* In the order of their ranks.
InRanks(s, R) == \A i, j \in 1 .. Len(s) : i <= j => R[s[i]] <= R[s[j]]

\* What has one rank, after what has lower ones.
LEMMA Higher ==
  ASSUME NEW s, IsSeq(s), NEW t, IsSeq(t), NEW u, IsSeq(u), Follows(u, s, t), NEW R, NEW r \in Nat, InRanks(s, R),
         \A x \in ToSet(s) : R[x] \in Nat /\ R[x] <= r,
         \A x \in ToSet(t) : R[x] = r
  PROVE  InRanks(u, R)
<1> USE DEF Follows
<1>1. Len(s) \in Nat /\ \A i \in 1 .. Len(s) : R[s[i]] \in Nat /\ R[s[i]] <= r
  BY SeqFacts
<1>2. Len(t) \in Nat /\ \A i \in 1 .. Len(t) : R[t[i]] = r
  BY SeqFacts
<1>3. ASSUME NEW i \in 1 .. Len(u), i \notin 1 .. Len(s) PROVE R[u[i]] = r
  <2>1. i - Len(s) \in 1 .. Len(t) /\ Len(s) + (i - Len(s)) = i
    BY <1>1, <1>2, <1>3
  <2>2. u[i] = t[i - Len(s)]
    BY <2>1
  <2> QED
    BY <1>2, <2>1, <2>2
<1>4. ASSUME NEW i \in 1 .. Len(u), NEW j \in 1 .. Len(u), i <= j PROVE R[u[i]] <= R[u[j]]
  <2>1. CASE j \in 1 .. Len(s)
    <3>1. i \in 1 .. Len(s)
      BY <1>1, <1>4, <2>1
    <3>2. R[s[i]] <= R[s[j]]
      BY <1>4, <2>1, <3>1 DEF InRanks
    <3> QED
      BY <2>1, <3>1, <3>2
  <2>2. CASE j \notin 1 .. Len(s) /\ i \in 1 .. Len(s)
    BY <1>1, <1>3, <2>2
  <2>3. CASE j \notin 1 .. Len(s) /\ i \notin 1 .. Len(s)
    BY <1>3, <2>3
  <2> QED
    BY <2>1, <2>2, <2>3
<1> QED
  BY <1>4 DEF InRanks

ByRank(piece, N, R) ==
  \A r \in 0 .. N : IsSeq(piece[r]) /\ \A x \in ToSet(piece[r]) : R[x] = r

OfPieces(s, piece, r) == \A x : x \in ToSet(s) <=> \E q \in 0 .. r : x \in ToSet(piece[q])

\* Rank by rank what is of each rank, and in the order of ranks.
LEMMA UpToRanks ==
  ASSUME NEW piece, NEW N \in Nat, NEW u, IsUpTo(u, piece, N), NEW R, ByRank(piece, N, R)
  PROVE  \A r \in 0 .. N : IsSeq(u[r]) /\ InRanks(u[r], R) /\ OfPieces(u[r], piece, r)
<1> USE DEF ByRank, OfPieces
<1> DEFINE Complete(r) == \A x : x \in ToSet(u[r]) <=> \E q \in 0 .. r : x \in ToSet(piece[q])
           Right(r) == IsSeq(u[r]) /\ InRanks(u[r], R) /\ Complete(r)
           Bad == {r \in 0 .. N : ~Right(r)}
<1>1. SUFFICES ASSUME Bad # {} PROVE FALSE
  OBVIOUS
<1>2. PICK r \in Bad : \A q \in Bad : r <= q
  <2>1. Bad \subseteq Nat
    OBVIOUS
  <2> QED
    BY <1>1, <2>1, Least
<1>3. r \in 0 .. N /\ r \in Nat
  BY <1>2
<1> DEFINE s == IF r = 0 THEN <<>> ELSE u[r - 1]
<1>4. u[r] = s \o piece[r]
  BY <1>3 DEF IsUpTo
<1>5. r # 0 => r - 1 \in 0 .. N /\ Right(r - 1)
  BY <1>2, <1>3
<1>6. r = 0 => IsSeq(s) /\ Len(s) = 0 /\ ToSet(s) = {}
  BY NoMembers
<1>7. IsSeq(s)
  BY <1>5, <1>6
<1>8. \A x : x \in ToSet(s) <=> \E q \in 0 .. r : q # r /\ x \in ToSet(piece[q])
  <2>1. CASE r = 0
    <3>1. \A q \in 0 .. r : q = r
      BY <2>1
    <3> QED
      BY <1>6, <2>1, <3>1
  <2>2. CASE r # 0
    <3>1. \A q : q \in 0 .. r /\ q # r <=> q \in 0 .. r - 1
      BY <1>3, <2>2
    <3>2. \A x : x \in ToSet(u[r - 1]) <=> \E q \in 0 .. r - 1 : x \in ToSet(piece[q])
      BY <1>5, <2>2
    <3>3. s = u[r - 1]
      BY <2>2
    <3> HIDE DEF s
    <3> QED
      BY <3>1, <3>2, <3>3
  <2> QED
    BY <2>1, <2>2
<1>9. \A x \in ToSet(s) : R[x] \in Nat /\ R[x] <= r
  <2>1. \A q \in 0 .. r : q \in 0 .. N /\ q \in Nat /\ q <= r
    BY <1>3
  <2> HIDE DEF s
  <2> QED
    BY <1>8, <2>1
<1>10. InRanks(s, R)
  <2>1. CASE r = 0
    BY <1>6, <2>1 DEF InRanks
  <2>2. CASE r # 0
    BY <1>5, <2>2
  <2> QED
    BY <2>1, <2>2
<1> DEFINE t == piece[r]
           v == u[r]
<1>11. IsSeq(t) /\ \A x \in ToSet(t) : R[x] = r
  BY <1>3
<1>12. v = s \o t
  BY <1>4
<1> HIDE DEF s, t, v
<1>a. IsSeq(s) /\ IsSeq(t)
  BY <1>7, <1>11
<1>b. IsSeq(v)
  BY <1>a, <1>12, ConcatFacts
<1>c. Follows(v, s, t)
  BY <1>a, <1>12, ConcatFacts
<1>d. ToSet(v) = ToSet(s) \cup ToSet(t)
  BY <1>a, <1>12, ConcatFacts
<1>14. InRanks(v, R)
  BY <1>3, <1>a, <1>b, <1>c, <1>9, <1>10, <1>11, Higher
<1>15. \A x : x \in ToSet(v) <=> \E q \in 0 .. r : x \in ToSet(piece[q])
  <2>1. r \in 0 .. r
    BY <1>3
  <2> QED
    BY <1>8, <1>d, <2>1 DEF t
<1>16. Right(r)
  BY <1>b, <1>14, <1>15 DEF v
<1> QED
  BY <1>2, <1>16

----------------------------------------------------------------------------
LEMMA Images ==
  ASSUME NEW S, IsFiniteSet(S), NEW f, NEW T, T = {f[x] : x \in S}
  PROVE  IsFiniteSet(T)
<1> DEFINE g == [x \in S |-> f[x]]
<1>1. g \in Surjection(S, T)
  BY DEF Surjection
<1> QED
  BY <1>1, FS_Surjection

LEMMA Greatest ==
  ASSUME NEW n \in Nat, NEW T, T \subseteq 1 .. n, T # {}
  PROVE  \E x \in T : \A y \in T : y <= x
<1> DEFINE Down == {k \in 0 .. n : n - k \in T}
<1>1. PICK x \in T : TRUE
  OBVIOUS
<1>2. n - x \in Down
  BY <1>1
<1>3. PICK k \in Down : \A j \in Down : k <= j
  <2>a. Down \subseteq Nat
    OBVIOUS
  <2>b. Down # {}
    BY <1>2, Zenon
  <2> HIDE DEF Down
  <2>1. Down \subseteq Nat /\ Down # {}
    BY <2>a, <2>b
  <2> QED
    BY <2>1, Least
<1>4. \A y \in T : n - y \in Down /\ k <= n - y
  BY <1>3
<1>5. n - k \in T /\ \A y \in T : y <= n - k
  BY <1>3, <1>4
<1> QED
  BY <1>5

\* What is assumed of a bundle.
LEMMA BundleFacts ==
  ASSUME NEW b \in Bundles
  PROVE  /\ Len(b.pkgs) \in Nat \ {0} /\ DOMAIN b.pkgs = 1 .. Len(b.pkgs)
         /\ \A i \in 1 .. Len(b.pkgs) : /\ b.pkgs[i].manifest \in Manifests
                                        /\ b.pkgs[i].want \subseteq LayerIds
                                        /\ b.pkgs[i].want \subseteq ToSet(Contents[b.pkgs[i].manifest])
<1>1. BundleOK(b)
  BY LocalAssumption
<1>2. \A m \in Manifests : ToSet(Contents[m]) \subseteq LayerIds
  BY LocalAssumption
<1>3. Len(b.pkgs) \in Nat \ {0} /\ DOMAIN b.pkgs = 1 .. Len(b.pkgs)
  BY <1>1 DEF BundleOK
<1>4. \A i \in 1 .. Len(b.pkgs) : /\ b.pkgs[i].manifest \in Manifests
                                  /\ b.pkgs[i].want \subseteq ToSet(Contents[b.pkgs[i].manifest])
  BY <1>1, <1>3 DEF BundleOK
<1> QED
  BY <1>2, <1>3, <1>4

\* What the bundle leads to, entry by entry.
LEMMA PathsAre ==
  ASSUME NEW b \in Bundles, NEW x
  PROVE  x \in Paths(b) <=>
           \/ x \in {Index, OciLayout, Root(b), Yaml(b), Config}
           \/ \E i \in 1 .. Len(b.pkgs) : x = Manifest(b.pkgs[i].manifest)
           \/ \E i \in 1 .. Len(b.pkgs) : \E l \in b.pkgs[i].want : x = BlobOf(l)
<1>1. DOMAIN b.pkgs = 1 .. Len(b.pkgs)
  BY BundleFacts
<1> DEFINE Of1(i) == {Manifest(b.pkgs[i].manifest)} \cup {BlobOf(l) : l \in b.pkgs[i].want}
<1>2. x \in Paths(b) <=> \/ x \in {Index, OciLayout, Root(b), Yaml(b), Config}
                         \/ \E i \in 1 .. Len(b.pkgs) : x \in Of1(i)
  BY <1>1 DEF Paths
<1>3. \A i : x \in Of1(i) <=> x = Manifest(b.pkgs[i].manifest) \/ \E l \in b.pkgs[i].want : x = BlobOf(l)
  OBVIOUS
<1> HIDE DEF Of1
<1> QED
  BY <1>2, <1>3

LEMMA PathsFinite ==
  ASSUME NEW b \in Bundles
  PROVE  IsFiniteSet(Paths(b))
<1> DEFINE n == Len(b.pkgs)
           F == [i \in 1 .. n |-> Manifest(b.pkgs[i].manifest)]
           G == [l \in LayerIds |-> BlobOf(l)]
           MS == {F[i] : i \in 1 .. n}
           LS == {G[l] : l \in LayerIds}
<1>1. n \in Nat /\ \A i \in 1 .. n : b.pkgs[i].want \subseteq LayerIds
  BY BundleFacts
<1>2. IsFiniteSet(1 .. n)
  BY <1>1, FS_Interval
<1>3. IsFiniteSet(LayerIds)
  BY LocalAssumption
<1>4. IsFiniteSet(MS)
  BY <1>2, Images, Zenon
<1>5. IsFiniteSet(LS)
  BY <1>3, Images, Zenon
<1>6. IsFiniteSet({Index, OciLayout, Root(b), Yaml(b), Config})
  <2>1. IsFiniteSet({Index})
    BY FS_Singleton
  <2>2. IsFiniteSet({Index} \cup {OciLayout})
    BY <2>1, FS_AddElement
  <2>3. IsFiniteSet(({Index} \cup {OciLayout}) \cup {Root(b)})
    BY <2>2, FS_AddElement
  <2>4. IsFiniteSet((({Index} \cup {OciLayout}) \cup {Root(b)}) \cup {Yaml(b)})
    BY <2>3, FS_AddElement
  <2>5. IsFiniteSet(((({Index} \cup {OciLayout}) \cup {Root(b)}) \cup {Yaml(b)}) \cup {Config})
    BY <2>4, FS_AddElement
  <2>6. {Index, OciLayout, Root(b), Yaml(b), Config}
          = ((({Index} \cup {OciLayout}) \cup {Root(b)}) \cup {Yaml(b)}) \cup {Config}
    BY Zenon
  <2> QED
    BY <2>5, <2>6, Zenon
<1> DEFINE All == ({Index, OciLayout, Root(b), Yaml(b), Config} \cup MS) \cup LS
<1>7. IsFiniteSet(All)
  BY <1>4, <1>5, <1>6, FS_Union
<1>8. ASSUME NEW x \in Paths(b) PROVE x \in All
  <2>1. \A i \in 1 .. n : Manifest(b.pkgs[i].manifest) \in MS
    <3>1. \A i \in 1 .. n : F[i] = Manifest(b.pkgs[i].manifest)
      OBVIOUS
    <3> HIDE DEF F
    <3> QED
      BY <3>1
  <2>2. \A l \in LayerIds : BlobOf(l) \in LS
    <3>1. \A l \in LayerIds : G[l] = BlobOf(l)
      OBVIOUS
    <3> HIDE DEF G
    <3> QED
      BY <3>1
  <2>3. \/ x \in {Index, OciLayout, Root(b), Yaml(b), Config}
        \/ \E i \in 1 .. Len(b.pkgs) : x = Manifest(b.pkgs[i].manifest)
        \/ \E i \in 1 .. Len(b.pkgs) : \E l \in b.pkgs[i].want : x = BlobOf(l)
    BY <1>8, PathsAre
  <2> HIDE DEF MS, LS
  <2> QED
    BY <1>1, <2>1, <2>2, <2>3
<1> HIDE DEF All
<1>9. Paths(b) \in SUBSET All
  BY <1>8
<1> QED
  BY <1>7, <1>9, FS_Subset

\* A path has a rank from 0 to twice the number of entries and two.
LEMMA RankBound ==
  ASSUME NEW b \in Bundles, NEW x \in Paths(b)
  PROVE  Rank(b)[x] \in 0 .. 2 * Len(b.pkgs) + 2
<1> DEFINE n == Len(b.pkgs)
           Listing == {i \in DOMAIN b.pkgs : x \in InFront(b.pkgs[i])}
           Latest == CHOOSE i \in Listing : \A j \in Listing : j <= i
<1>1. n \in Nat /\ DOMAIN b.pkgs = 1 .. n
  BY BundleFacts
<1>2. Rank(b)[x] = IF x \in {OciLayout, Index, Root(b), Config, Yaml(b)} THEN 0
                   ELSE IF Listing # {} THEN 2 * Latest + Turn(x) ELSE 2 * n + 2
  BY DEF Rank
<1>3. Listing # {} => Latest \in 1 .. n
  <2>1. SUFFICES ASSUME Listing # {} PROVE Latest \in 1 .. n
    OBVIOUS
  <2>2. Listing \subseteq 1 .. n
    BY <1>1
  <2>3. \E i \in Listing : \A j \in Listing : j <= i
    BY <1>1, <2>1, <2>2, Greatest
  <2>4. Latest \in Listing
    BY <2>3
  <2> QED
    BY <2>2, <2>4
<1>4. Turn(x) \in 0 .. 1
  BY DEF Turn
<1> HIDE DEF Listing, Latest, n
<1>5. CASE x \in {OciLayout, Index, Root(b), Config, Yaml(b)}
  <2>1. Rank(b)[x] = 0
    BY <1>2, <1>5
  <2> QED
    BY <1>1, <2>1 DEF n
<1>6. CASE x \notin {OciLayout, Index, Root(b), Config, Yaml(b)} /\ Listing # {}
  <2>1. Rank(b)[x] = 2 * Latest + Turn(x)
    BY <1>2, <1>6
  <2> QED
    BY <1>1, <1>3, <1>4, <1>6, <2>1 DEF n
<1>7. CASE x \notin {OciLayout, Index, Root(b), Config, Yaml(b)} /\ Listing = {}
  <2>1. Rank(b)[x] = 2 * n + 2
    BY <1>2, <1>7
  <2> QED
    BY <1>1, <2>1 DEF n
<1> QED
  BY <1>5, <1>6, <1>7

\* The archive of a bundle has every path once the ranks allow it, and in their order.
LEMMA OrderIs ==
  ASSUME NEW b \in Bundles
  PROVE  /\ IsSeq(ArchiveOrder(b)) /\ ToSet(ArchiveOrder(b)) = Paths(b)
         /\ InRanks(ArchiveOrder(b), Rank(b))
<1> DEFINE N == 2 * Len(b.pkgs) + 2
           Ranked(r) == {x \in Paths(b) : Rank(b)[x] = r}
           piece == [r \in 0 .. N |-> Listed(Ranked(r))]
<1>1. N \in Nat /\ N \in 0 .. N
  BY BundleFacts
<1>2. PICK v : IsUpTo(v, piece, N)
  BY <1>1, UpToExists
<1>3. \A r \in 0 .. N : IsFiniteSet(Ranked(r))
  BY PathsFinite, FS_Subset
<1>4. ASSUME NEW r \in 0 .. N PROVE piece[r] = Listed(Ranked(r)) /\ IsSeq(piece[r]) /\ ToSet(piece[r]) = Ranked(r)
  <2>1. IsSeq(Listed(Ranked(r))) /\ ToSet(Listed(Ranked(r))) = Ranked(r)
    BY <1>3, ListedMembers
  <2>2. piece[r] = Listed(Ranked(r))
    OBVIOUS
  <2> HIDE DEF piece, Ranked
  <2> QED
    BY <2>1, <2>2
<1> DEFINE upTo == CHOOSE u : u = [r \in 0 .. N |-> (IF r = 0 THEN <<>> ELSE u[r - 1]) \o Listed(Ranked(r))]
<1>5. v = [r \in 0 .. N |-> (IF r = 0 THEN <<>> ELSE v[r - 1]) \o Listed(Ranked(r))]
  <2> HIDE DEF N
  <2> QED
    BY <1>2 DEF IsUpTo
<1>6. upTo = [r \in 0 .. N |-> (IF r = 0 THEN <<>> ELSE upTo[r - 1]) \o Listed(Ranked(r))]
  BY <1>5
<1>7. ArchiveOrder(b) = upTo[N]
  BY DEF ArchiveOrder
<1> HIDE DEF upTo
<1>8. IsUpTo(upTo, piece, N)
  BY <1>6 DEF IsUpTo
<1>9. \A r \in 0 .. N : \A x \in ToSet(piece[r]) : Rank(b)[x] = r
  <2> HIDE DEF piece
  <2> QED
    BY <1>4
<1> HIDE DEF piece
<1>10. /\ IsSeq(upTo[N]) /\ InRanks(upTo[N], Rank(b))
       /\ \A x : x \in ToSet(upTo[N]) <=> \E q \in 0 .. N : x \in ToSet(piece[q])
  <2> DEFINE R == Rank(b)
  <2> HIDE DEF N, R
  <2>1. ByRank(piece, N, R)
    BY <1>4, <1>9 DEF R, ByRank
  <2>2. IsSeq(upTo[N]) /\ InRanks(upTo[N], R) /\ OfPieces(upTo[N], piece, N)
    BY <1>1, <1>8, <2>1, UpToRanks
  <2> QED
    BY <1>1, <2>2 DEF R, OfPieces
<1>11. \A x : x \in Paths(b) <=> \E q \in 0 .. N : x \in ToSet(piece[q])
  <2>1. \A x \in Paths(b) : Rank(b)[x] \in 0 .. N /\ x \in Ranked(Rank(b)[x])
    BY RankBound
  <2>2. \A q : Ranked(q) \subseteq Paths(b)
    OBVIOUS
  <2> HIDE DEF N, Ranked
  <2> QED
    BY <1>4, <2>1, <2>2
<1>12. ToSet(upTo[N]) = Paths(b)
  BY <1>10, <1>11
<1> QED
  BY <1>7, <1>10, <1>12

----------------------------------------------------------------------------
(* What the commands leave. *)

Files == Blobs \cup {Index, OciLayout}
Ids == {b.id : b \in Bundles} \cup {""}
LocalArchives ==
  [by : {"none", "create", "pull"}, of : Ids,
   entries : Seq([blob : Files, is : {"absent", "cut", "whole"}]), broken : BOOLEAN]

Archiving == at \in {"drain", "select", "wait"}

\* What there is.
Typed ==
  /\ Types
  /\ at \in {"idle", "fetch", "copy", "cache", "drain", "select", "wait", "load", "checked", "pulled"}
  /\ pkg \in Nat \ {0}
  /\ archive \in LocalArchives /\ jobs \in Seq(Files) /\ results \in Seq({"ok", "error"})
  /\ busy \in BOOLEAN /\ moved \in BOOLEAN /\ cut \subseteq LayerIds
  /\ at # "idle" => outcome = "none"
  /\ at \in {"fetch", "copy", "cache", "load", "checked", "pulled"} => ~busy

\* Nothing is cut but layers that were noted.
CacheNoted == \A l \in LayerIds : cache[l] = "cut" => l \in cut
StoreNoted == \A x \in Blobs : store[x] = "cut" => \E l \in cut : x = BlobOf(l)
TarballNoted ==
  \A i \in 1 .. Len(archive.entries) :
    archive.entries[i].is # "whole" => \E l \in cut : archive.entries[i].blob = BlobOf(l)
CutNoted == CacheNoted /\ StoreNoted /\ TarballNoted

\* The tarball so far and what is to come after it, in the order of the ranks.
Line(e, q, R) ==
  /\ \A i, j \in 1 .. Len(e) : i <= j => R[e[i].blob] <= R[e[j].blob]
  /\ InRanks(q, R)
  /\ \A i \in 1 .. Len(e), j \in 1 .. Len(q) : R[e[i].blob] <= R[q[j]]

Sorted(b) == Line(archive.entries, jobs, Rank(b))

\* While the archiver is at work every path is in the tarball or still to come, unless a
\* write has failed and its result is still to be read.
Queued ==
  Archiving =>
    /\ archive.by = "create" /\ archive.of = bundle.id
    /\ busy => archive.entries # <<>>
    /\ archive.broken => Unread
    /\ archive.broken \/ Paths(bundle) \subseteq Held \cup ToSet(jobs)
    /\ Held \cup ToSet(jobs) \subseteq Paths(bundle)
    /\ \A x \in ToSet(jobs) : OnDisk(store, x)
    /\ Sorted(bundle)

\* A pull goes on with one root as long as nobody publishes.
SameRoot ==
  ~moved => /\ at \in {"load", "checked", "pulled"} => tag = bundle
            /\ at \in {"checked", "pulled"} => root = bundle

\* What success leaves.
Success ==
  outcome = "ok" =>
    /\ at = "idle"
    /\ archive.by \in {"create", "pull"} /\ \E b \in Bundles : b.id = archive.of
    /\ Paths(Of) \subseteq Held \/ (archive.by = "create" /\ Unread) \/ (archive.by = "pull" /\ moved)
    /\ archive.by = "create" => jobs = <<>> /\ Held \subseteq Paths(Of) /\ Sorted(Of)

LocalInv == Typed /\ CutNoted /\ Queued /\ SameRoot /\ Success

\* What lies in a layout that was copied into, or was empty.
LEMMA CopyIntoIs ==
  ASSUME Typed, StoreNoted, NEW R, store' = CopyInto(R), cut' = cut
  PROVE  store' \in [Blobs -> {"absent", "cut", "whole"}] /\ StoreNoted'
<1>1. store \in [Blobs -> {"absent", "cut", "whole"}]
  BY DEF Typed, Types
<1>2. \A x \in Blobs : store'[x] = IF x \in R /\ store[x] = "absent" THEN "whole" ELSE store[x]
  BY DEF CopyInto
<1>3. store' \in [Blobs -> {"absent", "cut", "whole"}]
  BY <1>1 DEF CopyInto
<1>4. StoreNoted'
  BY <1>1, <1>2 DEF StoreNoted
<1> QED
  BY <1>3, <1>4

LEMMA CheckLayersIs ==
  ASSUME Typed, CacheNoted, StoreNoted, NEW W, W \subseteq LayerIds, CheckLayers(W), cache' = cache
  PROVE  /\ store' \in [Blobs -> {"absent", "cut", "whole"}] /\ StoreNoted' /\ CacheNoted'
         /\ pull' \subseteq LayerIds /\ cut \subseteq cut' /\ cut' \subseteq LayerIds
<1> DEFINE known == {l \in W : store[BlobOf(l)] = "absent" /\ cache[l] # "absent"}
<1>0. /\ store \in [Blobs -> {"absent", "cut", "whole"}] /\ cache \in [LayerIds -> {"absent", "cut", "whole"}]
      /\ pull \subseteq LayerIds /\ cut \subseteq LayerIds
  BY DEF Typed, Types
<1>1. PICK failed \in SUBSET known :
        /\ cut' = cut \cup failed
        /\ store' = [x \in Blobs |->
                        IF \E l \in known : x = BlobOf(l) THEN Use(x[2], failed) ELSE store[x]]
        /\ pull' = pull \cup failed
                   \cup {l \in W : store[BlobOf(l)] = "absent" /\ cache[l] = "absent"}
  BY DEF CheckLayers
<1>2. known \subseteq LayerIds /\ failed \subseteq LayerIds
  OBVIOUS
<1>3. ASSUME NEW l \in known
      PROVE  /\ Use(BlobOf(l)[2], failed) \in {"absent", "cut", "whole"}
             /\ Use(BlobOf(l)[2], failed) = "cut" => l \in cut'
  <2>1. BlobOf(l)[2] = l
    BY DEF BlobOf
  <2>2. Use(l, failed) = IF l \in failed THEN "cut" ELSE cache[l]
    BY DEF Use
  <2>3. cache[l] \in {"absent", "cut", "whole"} /\ (cache[l] = "cut" => l \in cut)
    BY <1>0, <1>2 DEF CacheNoted
  <2> QED
    BY <1>1, <2>1, <2>2, <2>3
<1>4. \A x \in Blobs : store'[x] = IF \E l \in known : x = BlobOf(l) THEN Use(x[2], failed) ELSE store[x]
  BY <1>1
<1>5. pull' \subseteq LayerIds /\ cut \subseteq cut' /\ cut' \subseteq LayerIds
  BY <1>0, <1>1, <1>2
<1>a. DOMAIN store' = Blobs /\ store' = [x \in Blobs |-> store'[x]]
  BY <1>1
<1> HIDE DEF known
<1>6. ASSUME NEW x \in Blobs
      PROVE  /\ store'[x] \in {"absent", "cut", "whole"}
             /\ store'[x] = "cut" => \E l \in cut' : x = BlobOf(l)
  <2>1. CASE \E l \in known : x = BlobOf(l)
    BY <1>3, <1>4, <2>1
  <2>2. CASE ~\E l \in known : x = BlobOf(l)
    <3>1. store'[x] = store[x]
      BY <1>4, <2>2
    <3>2. store[x] \in {"absent", "cut", "whole"} /\ (store[x] = "cut" => \E l \in cut : x = BlobOf(l))
      BY <1>0 DEF StoreNoted
    <3> QED
      BY <1>5, <3>1, <3>2
  <2> QED
    BY <2>1, <2>2
<1>7. store' \in [Blobs -> {"absent", "cut", "whole"}]
  BY <1>6, <1>a
<1>8. StoreNoted'
  BY <1>6 DEF StoreNoted
<1>9. CacheNoted'
  BY <1>5 DEF CacheNoted
<1> QED
  BY <1>5, <1>7, <1>8, <1>9

\* A tarball that is left as it is.
LEMMA TarballKept ==
  ASSUME TarballNoted, archive' = archive, cut \subseteq cut'
  PROVE  TarballNoted'
BY DEF TarballNoted

LEMMA CacheKept ==
  ASSUME CacheNoted, cache' = cache, cut \subseteq cut'
  PROVE  CacheNoted'
BY DEF CacheNoted

LEMMA StoreKept ==
  ASSUME StoreNoted, store' = store, cut \subseteq cut'
  PROVE  StoreNoted'
BY DEF StoreNoted

\* Steps that neither archive nor succeed.
LEMMA Elsewhere ==
  ASSUME at' \notin {"drain", "select", "wait"}, outcome' # "ok"
  PROVE  Queued' /\ Success'
BY DEF Queued, Success, Archiving

LEMMA BeginsNew ==
  ASSUME LocalInv, Create \/ Pull
  PROVE  LocalInv'
<1>1. PICK command \in {"fetch", "load"} : Start(command)
  BY DEF Create, Pull
<1>2. /\ at' \in {"fetch", "load"} /\ outcome' = "none" /\ store' = EmptyStore /\ pkg' = 1 /\ pull' = {}
      /\ jobs' = <<>> /\ busy' = FALSE /\ results' = <<>> /\ moved' = FALSE
      /\ tag' = tag /\ archive' = archive /\ cache' = cache /\ cut' = cut
  BY <1>1 DEF Start, Goto
<1>3. bundle' \in Bundles /\ root' = root /\ (at' = "load" => bundle' = tag)
  BY DEF Create, Pull, Start, Goto, LocalInv, Typed, Types
<1>4. store' \in [Blobs -> {"absent", "cut", "whole"}] /\ \A x \in Blobs : store'[x] = "absent"
  BY <1>2 DEF EmptyStore
<1>5. StoreNoted'
  BY <1>4 DEF StoreNoted
<1>6. TarballNoted' /\ CacheNoted'
  BY <1>2, TarballKept, CacheKept DEF LocalInv, CutNoted
<1>7. Queued' /\ Success'
  BY <1>2, Elsewhere
<1>8. SameRoot'
  BY <1>2, <1>3 DEF SameRoot
<1>a. Types'
  BY <1>2, <1>3, <1>4 DEF LocalInv, Typed, Types
<1>b. jobs' \in Seq(Files) /\ results' \in Seq({"ok", "error"})
  BY <1>2
<1>c. pkg' \in Nat \ {0} /\ busy' \in BOOLEAN /\ moved' \in BOOLEAN
  <2>1. pkg' \in Nat \ {0}
    BY <1>2
  <2>2. busy' = FALSE /\ moved' = FALSE
    BY <1>2
  <2>3. busy' \in BOOLEAN /\ moved' \in BOOLEAN
    BY <2>2, Zenon
  <2> QED
    BY <2>1, <2>3
<1>d. archive' \in LocalArchives /\ cut' \subseteq LayerIds
  BY <1>2 DEF LocalInv, Typed
<1>e. at' \in {"idle", "fetch", "copy", "cache", "drain", "select", "wait", "load", "checked", "pulled"}
  BY <1>2
<1>9. Typed'
  BY <1>2, <1>a, <1>b, <1>c, <1>d, <1>e DEF Typed
<1> QED
  BY <1>5, <1>6, <1>7, <1>8, <1>9 DEF LocalInv, CutNoted

\* The entry in work is one of the bundle's.
LEMMA EntryIs ==
  ASSUME Typed, pkg <= Len(bundle.pkgs)
  PROVE  Entry.want \subseteq LayerIds
<1>1. bundle \in Bundles /\ pkg \in Nat \ {0}
  BY DEF Typed, Types
<1>2. pkg \in 1 .. Len(bundle.pkgs)
  BY <1>1, BundleFacts
<1> QED
  BY <1>1, <1>2, BundleFacts DEF Entry

LEMMA LayersOfAre ==
  ASSUME NEW b \in Bundles
  PROVE  LayersOf(b) \subseteq LayerIds
BY BundleFacts DEF LayersOf, PackagesOf

LEMMA LooksUp ==
  ASSUME LocalInv, FetchRemote \/ ResolvePull
  PROVE  LocalInv'
<1>1. /\ at' \in {"copy", "checked"} /\ at \in {"fetch", "load"} /\ outcome' = outcome
      /\ tag' = tag /\ bundle' = bundle /\ pkg' = pkg /\ cache' = cache /\ archive' = archive
      /\ jobs' = jobs /\ busy' = busy /\ results' = results /\ moved' = moved
      /\ root' \in Bundles
  BY DEF FetchRemote, ResolvePull, Goto, LocalInv, Typed, Types, archiverVars
<1>2. PICK W : W \subseteq LayerIds /\ CheckLayers(W)
  <2>1. CASE FetchRemote
    BY <2>1, EntryIs DEF FetchRemote, LocalInv
  <2>2. CASE ResolvePull
    BY <2>2, LayersOfAre DEF ResolvePull, LocalInv, Typed, Types
  <2> QED
    BY <2>1, <2>2
<1>3. /\ store' \in [Blobs -> {"absent", "cut", "whole"}] /\ StoreNoted' /\ CacheNoted'
      /\ pull' \subseteq LayerIds /\ cut \subseteq cut' /\ cut' \subseteq LayerIds
  BY <1>1, <1>2, CheckLayersIs DEF LocalInv, CutNoted
<1>4. TarballNoted'
  BY <1>1, <1>3, TarballKept DEF LocalInv, CutNoted
<1>5. outcome' = "none"
  BY <1>1 DEF LocalInv, Typed
<1>6. Queued' /\ Success'
  BY <1>1, <1>5, Elsewhere
<1>7. SameRoot'
  <2>1. CASE FetchRemote
    BY <2>1 DEF FetchRemote, Goto, SameRoot
  <2>2. CASE ResolvePull
    BY <2>2 DEF ResolvePull, Goto, LocalInv, SameRoot
  <2> QED
    BY <2>1, <2>2
<1>8. Typed'
  BY <1>1, <1>3, <1>5 DEF LocalInv, Typed, Types
<1> QED
  BY <1>3, <1>4, <1>6, <1>7, <1>8 DEF LocalInv, CutNoted

LEMMA LaysIn ==
  ASSUME LocalInv, CopyRemote \/ FetchLocal \/ CopyPull
  PROVE  LocalInv'
<1>1. /\ at' \in {"fetch", "cache", "pulled"} /\ at \in {"fetch", "copy", "checked"} /\ outcome' = outcome
      /\ tag' = tag /\ bundle' = bundle /\ root' = root /\ cache' = cache /\ archive' = archive
      /\ jobs' = jobs /\ busy' = busy /\ results' = results /\ moved' = moved /\ cut' = cut
      /\ pull' = pull /\ (pkg' = pkg \/ pkg' = pkg + 1) /\ (at' = "pulled" => at = "checked")
  BY DEF CopyRemote, FetchLocal, CopyPull, Goto, archiverVars, history
<1>2. PICK R : store' = CopyInto(R)
  BY DEF CopyRemote, FetchLocal, CopyPull
<1>3. store' \in [Blobs -> {"absent", "cut", "whole"}] /\ StoreNoted'
  BY <1>1, <1>2, CopyIntoIs DEF LocalInv, CutNoted
<1>4. TarballNoted' /\ CacheNoted'
  BY <1>1, TarballKept, CacheKept DEF LocalInv, CutNoted
<1>5. outcome' = "none"
  BY <1>1 DEF LocalInv, Typed
<1>6. Queued' /\ Success'
  BY <1>1, <1>5, Elsewhere
<1>7. SameRoot'
  BY <1>1 DEF LocalInv, SameRoot
<1>8. Typed'
  BY <1>1, <1>3, <1>5 DEF LocalInv, Typed, Types
<1> QED
  BY <1>3, <1>4, <1>6, <1>7, <1>8 DEF LocalInv, CutNoted

\* A layer is cached as it lies in the layout, or cut short and noted.
LEMMA Caches ==
  ASSUME LocalInv, NEW from \in {"cache", "pulled"}, CacheLayer(from)
  PROVE  LocalInv'
<1>0. /\ store \in [Blobs -> {"absent", "cut", "whole"}] /\ cache \in [LayerIds -> {"absent", "cut", "whole"}]
      /\ pull \subseteq LayerIds /\ cut \subseteq LayerIds
  BY DEF LocalInv, Typed, Types
<1>1. /\ at = from /\ tag' = tag /\ bundle' = bundle /\ root' = root /\ pkg' = pkg /\ store' = store
      /\ archive' = archive /\ jobs' = jobs /\ busy' = busy /\ results' = results /\ moved' = moved
  BY DEF CacheLayer, archiverVars
<1>2. PICK l \in pull :
        /\ Kind[l] = "image" /\ store[BlobOf(l)] # "absent" /\ pull' = pull \ {l}
        /\ \/ /\ cache' = IF Cached(l) THEN cache ELSE [cache EXCEPT ![l] = store[BlobOf(l)]]
              /\ UNCHANGED <<at, outcome, faults, cut>>
           \/ /\ ~Cached(l) /\ faults < MaxFaults
              /\ cache' = [cache EXCEPT ![l] = "cut"]
              /\ faults' = faults + 1
              /\ cut' = cut \cup {l}
              /\ End(from, "error")
  BY DEF CacheLayer
<1>3. l \in LayerIds /\ BlobOf(l) \in Blobs
  BY <1>0 DEF Blobs
<1>4. store[BlobOf(l)] = "cut" => l \in cut
  <2>1. store[BlobOf(l)] = "cut" => \E k \in cut : BlobOf(l) = BlobOf(k)
    BY <1>3 DEF LocalInv, CutNoted, StoreNoted
  <2>2. \A k : BlobOf(l) = BlobOf(k) => l = k
    BY DEF BlobOf
  <2> QED
    BY <2>1, <2>2
<1>5. /\ cache' \in [LayerIds -> {"absent", "cut", "whole"}] /\ cut \subseteq cut' /\ cut' \subseteq LayerIds
      /\ \/ at' = from /\ outcome' = outcome
         \/ at' = "idle" /\ outcome' = "error"
  BY <1>0, <1>1, <1>2, <1>3 DEF End
<1>6. CacheNoted'
  <2>1. CASE cache' = cache
    BY <1>5, <2>1, CacheKept DEF LocalInv, CutNoted
  <2>2. CASE cache' = [cache EXCEPT ![l] = store[BlobOf(l)]]
    BY <1>0, <1>3, <1>4, <1>5, <2>2 DEF LocalInv, CutNoted, CacheNoted
  <2>3. CASE cache' = [cache EXCEPT ![l] = "cut"] /\ cut' = cut \cup {l}
    BY <1>0, <1>3, <1>5, <2>3 DEF LocalInv, CutNoted, CacheNoted
  <2> QED
    BY <1>2, <2>1, <2>2, <2>3
<1>7. TarballNoted' /\ StoreNoted'
  BY <1>1, <1>5, TarballKept, StoreKept DEF LocalInv, CutNoted
<1>8. outcome' # "ok" /\ at' \notin {"drain", "select", "wait"} /\ (at' # "idle" => outcome' = "none")
  BY <1>1, <1>5 DEF LocalInv, Typed
<1>9. Queued' /\ Success'
  BY <1>8, Elsewhere
<1>10. SameRoot'
  BY <1>1, <1>5 DEF LocalInv, SameRoot
<1>11. pull' \subseteq LayerIds
  BY <1>0, <1>2
<1>a. outcome' \in {"none", "ok", "error", "killed"}
  BY <1>1, <1>5 DEF LocalInv, Typed, Types
<1>12. Typed'
  BY <1>0, <1>1, <1>5, <1>8, <1>11, <1>a DEF LocalInv, Typed, Types
<1> QED
  BY <1>6, <1>7, <1>9, <1>10, <1>12 DEF LocalInv, CutNoted

----------------------------------------------------------------------------
(* The archiver. *)

\* The first of a queue and the rest of it.
LEMMA Queue ==
  ASSUME NEW S, NEW s \in Seq(S), s # <<>>
  PROVE  /\ Head(s) \in S /\ Tail(s) \in Seq(S) /\ Head(s) = s[1]
         /\ Len(s) \in Nat /\ Len(s) > 0 /\ Len(Tail(s)) = Len(s) - 1
         /\ \A i \in 1 .. Len(Tail(s)) : Tail(s)[i] = s[i + 1]
OBVIOUS

LEMMA QueueMembers ==
  ASSUME NEW S, NEW s \in Seq(S), s # <<>>
  PROVE  ToSet(s) = {Head(s)} \cup ToSet(Tail(s))
<1>1. /\ Head(s) = s[1] /\ Len(s) \in Nat /\ Len(s) > 0 /\ Len(Tail(s)) = Len(s) - 1
      /\ \A i \in 1 .. Len(Tail(s)) : Tail(s)[i] = s[i + 1]
  BY Queue
<1>2. ToSet(s) = {s[i] : i \in 1 .. Len(s)}
  BY SeqFacts DEF IsSeq
<1>3. ToSet(Tail(s)) = {Tail(s)[i] : i \in 1 .. Len(Tail(s))}
  <2>1. Tail(s) \in Seq(S)
    BY Queue
  <2> QED
    BY <2>1, SeqFacts DEF IsSeq
<1>4. ASSUME NEW i \in 1 .. Len(s) PROVE s[i] \in {Head(s)} \cup ToSet(Tail(s))
  <2>1. CASE i = 1
    BY <1>1, <2>1
  <2>2. CASE i # 1
    <3>1. i - 1 \in 1 .. Len(Tail(s)) /\ (i - 1) + 1 = i
      BY <1>1, <2>2
    <3>2. Tail(s)[i - 1] = s[i]
      BY <1>1, <3>1
    <3> QED
      BY <1>3, <3>1, <3>2
  <2> QED
    BY <2>1, <2>2
<1>5. ASSUME NEW i \in 1 .. Len(Tail(s)) PROVE Tail(s)[i] \in ToSet(s)
  <2>1. i + 1 \in 1 .. Len(s)
    BY <1>1
  <2> QED
    BY <1>1, <1>2, <2>1
<1>6. Head(s) \in ToSet(s)
  <2>1. 1 \in 1 .. Len(s)
    BY <1>1
  <2> QED
    BY <1>1, <1>2, <2>1
<1>7. ToSet(s) \subseteq {Head(s)} \cup ToSet(Tail(s))
  BY <1>2, <1>4
<1>8. ToSet(Tail(s)) \subseteq ToSet(s)
  BY <1>3, <1>5
<1> QED
  BY <1>6, <1>7, <1>8

Entries(e) == {e[i].blob : i \in 1 .. Len(e)}

\* The first job becomes the last entry.
Takes(e, q, x, f, r) == q # <<>> /\ x.blob = Head(q) /\ f = Append(e, x) /\ r = Tail(q)

LEMMA OneTaken ==
  ASSUME NEW E, NEW e \in Seq(E), NEW S, NEW q \in Seq(S), NEW x \in E, NEW f, NEW r,
         Takes(e, q, x, f, r), NEW R, \A y \in S : R[y] \in Int
  PROVE  /\ Entries(f) = Entries(e) \cup {Head(q)}
         /\ Line(e, q, R) => Line(f, r, R)
<1> USE DEF Takes
<1>1. /\ f \in Seq(E) /\ Len(e) \in Nat /\ Len(f) = Len(e) + 1 /\ f[Len(e) + 1] = x
      /\ \A i \in 1 .. Len(e) : f[i] = e[i]
  OBVIOUS
<1>2. /\ Head(q) = q[1] /\ Len(q) \in Nat /\ Len(q) > 0 /\ Len(r) = Len(q) - 1
      /\ \A i \in 1 .. Len(r) : r[i] = q[i + 1]
  BY Queue
<1>3. \A i : i \in 1 .. Len(f) <=> i \in 1 .. Len(e) \/ i = Len(e) + 1
  BY <1>1
<1>4. Entries(f) = Entries(e) \cup {Head(q)}
  <2>1. \A i \in 1 .. Len(e) : f[i].blob = e[i].blob
    BY <1>1
  <2>2. f[Len(e) + 1].blob = Head(q)
    BY <1>1
  <2> QED
    BY <1>3, <2>1, <2>2 DEF Entries
<1>5. ASSUME Line(e, q, R) PROVE Line(f, r, R)
  <2>1. /\ \A i, j \in 1 .. Len(e) : i <= j => R[e[i].blob] <= R[e[j].blob]
        /\ \A i, j \in 1 .. Len(q) : i <= j => R[q[i]] <= R[q[j]]
        /\ \A i \in 1 .. Len(e), j \in 1 .. Len(q) : R[e[i].blob] <= R[q[j]]
    BY <1>5 DEF Line, InRanks
  <2>2. 1 \in 1 .. Len(q)
    BY <1>2
  <2>3. ASSUME NEW i \in 1 .. Len(f), NEW j \in 1 .. Len(f), i <= j
        PROVE  R[f[i].blob] <= R[f[j].blob]
    <3>1. CASE j \in 1 .. Len(e)
      <4>1. i \in 1 .. Len(e)
        BY <1>1, <2>3, <3>1
      <4> QED
        BY <1>1, <2>1, <2>3, <3>1, <4>1
    <3>2. CASE i \in 1 .. Len(e) /\ j = Len(e) + 1
      BY <1>1, <1>2, <2>1, <2>2, <3>2
    <3>3. CASE i = Len(e) + 1 /\ j = Len(e) + 1
      BY <1>1, <1>2, <2>1, <2>2, <3>3
    <3> QED
      BY <1>1, <1>3, <2>3, <3>1, <3>2, <3>3
  <2>4. \A j \in 1 .. Len(r) : j + 1 \in 1 .. Len(q) /\ 1 <= j + 1 /\ r[j] = q[j + 1]
    BY <1>2
  <2>5. InRanks(r, R)
    <3>1. \A i, j \in 1 .. Len(r) : i <= j => i + 1 <= j + 1
      BY <1>2
    <3> QED
      BY <2>1, <2>4, <3>1 DEF InRanks
  <2>6. ASSUME NEW i \in 1 .. Len(f), NEW j \in 1 .. Len(r) PROVE R[f[i].blob] <= R[r[j]]
    <3>1. CASE i \in 1 .. Len(e)
      BY <1>1, <2>1, <2>4, <3>1
    <3>2. CASE i = Len(e) + 1
      <4>1. R[q[1]] <= R[q[j + 1]]
        BY <2>1, <2>2, <2>4
      <4> QED
        BY <1>1, <1>2, <2>4, <3>2, <4>1
    <3> QED
      BY <1>3, <3>1, <3>2
  <2> QED
    BY <2>3, <2>5, <2>6 DEF Line
<1> QED
  BY <1>4, <1>5

\* The last entry is taken back.
LEMMA OneDropped ==
  ASSUME NEW E, NEW e \in Seq(E), e # <<>>, NEW f, f = Front(e), NEW q, NEW R
  PROVE  /\ f \in Seq(E) /\ Entries(f) \subseteq Entries(e)
         /\ \A i \in 1 .. Len(f) : i \in 1 .. Len(e) /\ f[i] = e[i]
         /\ Line(e, q, R) => Line(f, q, R)
<1>1. Len(e) \in Nat /\ Len(e) > 0
  OBVIOUS
<1>2. f \in Seq(E) /\ Len(f) = Len(e) - 1 /\ \A i \in 1 .. Len(f) : f[i] = e[i]
  <2>1. f = SubSeq(e, 1, Len(e) - 1)
    BY Zenon DEF Front
  <2> DEFINE n == Len(e) - 1
  <2>c. n \in Int /\ (n = 0 \/ 1 <= n)
    <3>1. \A k : k \in Nat /\ k > 0 => k - 1 \in Int /\ (k - 1 = 0 \/ 1 <= k - 1)
      OBVIOUS
    <3> QED
      BY <1>1, <3>1
  <2>d. \A i \in 1 .. n : i \in 1 .. Len(e)
    BY <1>1
  <2>a. 1 \in Int /\ n \in Int /\ (n = 0 \/ 1 <= n) /\ \A i \in 1 .. n : i \in 1 .. Len(e)
    BY <2>c, <2>d
  <2>b. \A i \in 1 .. Len(e) : e[i] \in E
    OBVIOUS
  <2>2. 1 \in Int /\ n \in Int /\ (n = 0 \/ 1 <= n) /\ \A i \in 1 .. n : e[i] \in E
    BY <2>a, <2>b
  <2>3. f = SubSeq(e, 1, n)
    BY <2>1
  <2> HIDE DEF n
  <2>4. /\ SubSeq(e, 1, n) \in Seq(E)
        /\ Len(SubSeq(e, 1, n)) = IF 1 <= n THEN n - 1 + 1 ELSE 0
        /\ \A i \in 1 .. n - 1 + 1 : SubSeq(e, 1, n)[i] = e[1 + i - 1]
    BY <2>2, SubSeqProperties
  <2>5. f \in Seq(E) /\ Len(f) = n
    BY <2>2, <2>3, <2>4
  <2>6. \A i \in 1 .. n : f[i] = e[i]
    <3>1. \A i \in 1 .. n : i \in 1 .. n - 1 + 1 /\ 1 + i - 1 = i
      BY <2>2
    <3> QED
      BY <2>3, <2>4, <3>1
  <2> QED
    BY <2>5, <2>6 DEF n
<1>3. \A i \in 1 .. Len(f) : i \in 1 .. Len(e) /\ f[i] = e[i]
  BY <1>1, <1>2
<1>4. Entries(f) \subseteq Entries(e)
  BY <1>3 DEF Entries
<1>5. Line(e, q, R) => Line(f, q, R)
  BY <1>3 DEF Line
<1> QED
  BY <1>2, <1>3, <1>4, <1>5

\* Only the archiver's steps, and those that start and end it, concern the tarball.
LEMMA Unmoved ==
  ASSUME LocalInv, at' = at, bundle' = bundle, store' = store, jobs' = jobs, busy' = busy,
         results' = results, archive' = archive, outcome' = outcome, moved' \in {moved, TRUE}
  PROVE  Queued' /\ Success'
<1>1. Of' = Of /\ Held' = Held /\ Unread' = Unread /\ (Archiving' <=> Archiving)
  BY DEF Of, Held, Unread, Archiving
<1>2. \A b : Sorted(b)' <=> Sorted(b)
  BY DEF Sorted
<1>3. Queued'
  BY <1>1, <1>2 DEF LocalInv, Queued
<1>4. Success'
  BY <1>1, <1>2 DEF LocalInv, Success
<1> QED
  BY <1>3, <1>4

LEMMA PathsAreFiles ==
  ASSUME NEW b \in Bundles
  PROVE  Paths(b) \subseteq Files
<1>1. Root(b) \in Blobs /\ Yaml(b) \in Blobs /\ Config \in Blobs
  BY DEF Blobs
<1>2. \A m \in Manifests : Manifest(m) \in Blobs
  BY DEF Blobs
<1>3. \A l \in LayerIds : BlobOf(l) \in Blobs
  BY DEF Blobs
<1>4. \A i \in 1 .. Len(b.pkgs) : b.pkgs[i].manifest \in Manifests /\ b.pkgs[i].want \subseteq LayerIds
  BY BundleFacts
<1>5. ASSUME NEW x \in Paths(b) PROVE x \in Files
  <2>1. \/ x \in {Index, OciLayout, Root(b), Yaml(b), Config}
        \/ \E i \in 1 .. Len(b.pkgs) : x = Manifest(b.pkgs[i].manifest)
        \/ \E i \in 1 .. Len(b.pkgs) : \E l \in b.pkgs[i].want : x = BlobOf(l)
    BY PathsAre
  <2> QED
    BY <1>1, <1>2, <1>3, <1>4, <2>1 DEF Files
<1> QED
  BY <1>5

LEMMA SequenceIn ==
  ASSUME NEW s, IsSeq(s), NEW S, ToSet(s) \subseteq S
  PROVE  s \in Seq(S)
<1>1. PICK T : s \in Seq(T)
  BY DEF IsSeq
<1>2. Len(s) \in Nat /\ s = [i \in 1 .. Len(s) |-> s[i]]
  BY <1>1
<1>3. \A i \in 1 .. Len(s) : s[i] \in S
  BY SeqFacts
<1> QED
  BY <1>2, <1>3

\* The id of a bundle tells the bundle.
LEMMA OfIs ==
  ASSUME NEW b \in Bundles, archive.of = b.id
  PROVE  Of = b
<1>1. \A c \in Bundles : c.id = b.id => c = b
  BY LocalAssumption
<1> QED
  BY <1>1 DEF Of

LEMMA HeldIs ==
  ASSUME archive \in LocalArchives
  PROVE  Held = Entries(archive.entries)
BY DEF LocalArchives, Held, Entries

LEMMA ArchiveStarts ==
  ASSUME LocalInv, StartArchive
  PROVE  LocalInv'
<1>0. bundle \in Bundles
  BY DEF LocalInv, Typed, Types
<1>1. /\ at = "fetch" /\ tag' = tag /\ bundle' = bundle /\ root' = root /\ pkg' = pkg /\ pull' = pull
      /\ cache' = cache /\ busy' = busy /\ results' = results /\ cut' = cut /\ moved' = moved
      /\ store' = CopyInto({Root(bundle), Yaml(bundle), Config})
      /\ archive' = [by |-> "create", of |-> bundle.id, entries |-> <<>>, broken |-> FALSE]
      /\ \/ /\ \A x \in Paths(bundle) : OnDisk(store', x)
            /\ at' = "drain" /\ jobs' = ArchiveOrder(bundle) /\ outcome' = outcome
         \/ at' = "idle" /\ outcome' = "error" /\ jobs' = jobs
  BY DEF StartArchive, Goto, End, history
<1>2. store' \in [Blobs -> {"absent", "cut", "whole"}] /\ StoreNoted'
  BY <1>1, CopyIntoIs DEF LocalInv, CutNoted
<1>3. CacheNoted'
  BY <1>1, CacheKept DEF LocalInv, CutNoted
<1>4. archive'.entries = <<>> /\ Len(archive'.entries) = 0 /\ archive'.by = "create" /\ archive'.of = bundle.id
      /\ archive'.broken = FALSE
  BY <1>1
<1>5. TarballNoted'
  BY <1>4 DEF TarballNoted
<1>6. archive' \in LocalArchives
  <2>1. bundle.id \in Ids
    BY <1>0 DEF Ids
  <2> QED
    BY <1>1, <2>1 DEF LocalArchives
<1>7. ~busy /\ outcome = "none"
  BY <1>1 DEF LocalInv, Typed
<1>8. SameRoot'
  BY <1>1 DEF LocalInv, SameRoot
<1>9. CASE at' = "idle"
  <2>1. outcome' = "error" /\ jobs' = jobs
    BY <1>1, <1>9
  <2>2. Queued' /\ Success'
    BY <1>9, <2>1, Elsewhere
  <2>3. Typed'
    BY <1>1, <1>2, <1>6, <1>9, <2>1 DEF LocalInv, Typed, Types
  <2> QED
    BY <1>2, <1>3, <1>5, <1>8, <2>2, <2>3 DEF LocalInv, CutNoted
<1>10. CASE at' # "idle"
  <2>1. /\ at' = "drain" /\ jobs' = ArchiveOrder(bundle) /\ outcome' = "none"
        /\ \A x \in Paths(bundle) : OnDisk(store', x)
    BY <1>1, <1>7, <1>10
  <2>2. IsSeq(jobs') /\ ToSet(jobs') = Paths(bundle) /\ InRanks(jobs', Rank(bundle))
    BY <1>0, <2>1, OrderIs
  <2>3. jobs' \in Seq(Files)
    BY <1>0, <2>2, SequenceIn, PathsAreFiles
  <2>4. Typed'
    BY <1>1, <1>2, <1>6, <1>7, <2>1, <2>3 DEF LocalInv, Typed, Types
  <2>5. Held' = {}
    BY <1>4, <1>6, HeldIs DEF Entries, LocalArchives, Held
  <2>6. Sorted(bundle)'
    BY <1>1, <1>4, <2>2 DEF Sorted, Line
  <2>7. Paths(bundle)' = Paths(bundle) /\ \A x : OnDisk(store, x)' <=> OnDisk(store', x)
    BY <1>1
  <2>8. Queued'
    BY <1>1, <1>4, <1>7, <2>1, <2>2, <2>5, <2>6, <2>7 DEF Queued
  <2>9. Success'
    BY <2>1 DEF Success
  <2> QED
    BY <1>2, <1>3, <1>5, <1>8, <2>4, <2>8, <2>9 DEF LocalInv, CutNoted
<1> QED
  BY <1>9, <1>10

\* The rank of what is on the list is a number, and what is not is not asked for.
LEMMA RanksAre ==
  ASSUME NEW b \in Bundles
  PROVE  \A x \in Paths(b) : Rank(b)[x] \in Int
<1>1. ASSUME NEW x \in Paths(b) PROVE Rank(b)[x] \in Int
  <2>1. Rank(b)[x] \in 0 .. 2 * Len(b.pkgs) + 2
    BY RankBound
  <2>2. Len(b.pkgs) \in Nat
    BY BundleFacts
  <2> QED
    BY <2>1, <2>2
<1> QED
  BY <1>1

\* While the archiver is at work the commands leave all else alone.
ArchiverOnly ==
  /\ tag' = tag /\ bundle' = bundle /\ root' = root /\ pkg' = pkg /\ pull' = pull /\ store' = store
  /\ cache' = cache /\ cut' = cut /\ moved' = moved

LEMMA OnlyArchives ==
  ASSUME LocalInv, ArchiverOnly, at \in {"drain", "select", "wait"},
         at' \in {"drain", "select", "wait", "idle"}
  PROVE  /\ StoreNoted' /\ CacheNoted' /\ SameRoot'
         /\ outcome' \in {"none", "ok", "error", "killed"} => Types'
<1>1. StoreNoted' /\ CacheNoted'
  BY StoreKept, CacheKept DEF ArchiverOnly, LocalInv, CutNoted
<1>2. SameRoot'
  BY DEF SameRoot
<1>3. outcome' \in {"none", "ok", "error", "killed"} => Types'
  BY DEF ArchiverOnly, LocalInv, Typed, Types
<1> QED
  BY <1>1, <1>2, <1>3

LEMMA TakesJob ==
  ASSUME LocalInv, TakeJob
  PROVE  LocalInv'
<1> DEFINE x == [blob |-> Head(jobs), is |-> State(store, Head(jobs))]
           e == archive.entries
           E == [blob : Files, is : {"absent", "cut", "whole"}]
<1>0. bundle \in Bundles /\ Archiving
  BY DEF LocalInv, Typed, Types, TakeJob, Archiving
<1>1. /\ at \in {"drain", "select", "wait"} /\ at' = at /\ ArchiverOnly /\ outcome' = outcome /\ results' = results
      /\ busy' = TRUE /\ jobs # <<>> /\ jobs' = Tail(jobs)
      /\ archive' = [archive EXCEPT !.entries = Append(e, x)]
  BY DEF TakeJob, ArchiverOnly, workVars, history
<1>2. /\ archive \in LocalArchives /\ jobs \in Seq(Files)
      /\ store \in [Blobs -> {"absent", "cut", "whole"}]
  BY DEF LocalInv, Typed, Types
<1>3. /\ archive.by = "create" /\ archive.of = bundle.id
      /\ archive.broken => Unread
      /\ archive.broken \/ Paths(bundle) \subseteq Held \cup ToSet(jobs)
      /\ Held \cup ToSet(jobs) \subseteq Paths(bundle)
      /\ \A y \in ToSet(jobs) : OnDisk(store, y)
      /\ Sorted(bundle)
  BY <1>0 DEF LocalInv, Queued
<1>4. Head(jobs) \in Files /\ jobs' \in Seq(Files) /\ ToSet(jobs) = {Head(jobs)} \cup ToSet(jobs')
  BY <1>1, <1>2, QueueMembers
<1>5. State(store, Head(jobs)) \in {"cut", "whole"}
      /\ (State(store, Head(jobs)) = "cut" => \E l \in cut : Head(jobs) = BlobOf(l))
  <2>1. State(store, Head(jobs)) # "absent"
    BY <1>3, <1>4 DEF OnDisk
  <2>2. CASE Head(jobs) \in {Index, OciLayout}
    BY <2>2 DEF State
  <2>3. CASE Head(jobs) \notin {Index, OciLayout}
    <3>1. Head(jobs) \in Blobs /\ State(store, Head(jobs)) = store[Head(jobs)]
      BY <1>4, <2>3 DEF Files, State
    <3> QED
      BY <1>2, <2>1, <3>1 DEF LocalInv, CutNoted, StoreNoted
  <2> QED
    BY <2>2, <2>3
<1>6. x \in E /\ x.blob = Head(jobs) /\ x.is = State(store, Head(jobs))
  BY <1>4, <1>5
<1>7. e \in Seq(E)
  BY <1>2 DEF LocalArchives
<1> DEFINE f == archive'.entries
<1>8. /\ f = Append(e, x) /\ archive'.by = archive.by /\ archive'.of = archive.of
      /\ archive'.broken = archive.broken
  BY <1>1, <1>2 DEF LocalArchives
<1>9. f \in Seq(E) /\ Len(f) = Len(e) + 1 /\ f[Len(e) + 1] = x /\ \A i \in 1 .. Len(e) : f[i] = e[i]
  <2> HIDE DEF x, E, f, e
  <2> QED
    BY <1>6, <1>7, <1>8
<1>10. archive' \in LocalArchives
  <2>1. archive' \in [by : {"none", "create", "pull"}, of : Ids, entries : Seq(E), broken : BOOLEAN]
    <3>1. archive \in [by : {"none", "create", "pull"}, of : Ids, entries : Seq(E), broken : BOOLEAN]
      BY <1>2 DEF LocalArchives
    <3>2. Append(e, x) \in Seq(E)
      BY <1>8, <1>9
    <3> HIDE DEF E, x, e, f
    <3> QED
      BY <1>1, <3>1, <3>2
  <2> QED
    BY <2>1 DEF LocalArchives
<1> DEFINE R == Rank(bundle)
           P == Paths(bundle)
<1>11. \A y \in P : R[y] \in Int
  BY <1>0, RanksAre
<1>12. IsSeq(jobs) /\ ToSet(jobs) \subseteq P
  BY <1>2, <1>3 DEF IsSeq
<1>13. jobs \in Seq(P)
  <2> HIDE DEF P
  <2> QED
    BY <1>12, SequenceIn
<1>14. Entries(f) = Entries(e) \cup {Head(jobs)} /\ (Line(e, jobs, R) => Line(f, jobs', R))
  <2> HIDE DEF P, R, E, x, e, f
  <2> QED
    <3>1. Takes(e, jobs, x, f, jobs')
      BY <1>1, <1>6, <1>8 DEF Takes
    <3> QED
      BY <1>6, <1>7, <1>11, <1>13, <3>1, OneTaken
<1>15. Held' = Entries(f) /\ Held = Entries(e)
  <2>1. Held = Entries(e)
    BY <1>2, HeldIs
  <2>2. Held' = Entries(f)
    BY <1>10 DEF LocalArchives, Held, Entries
  <2> QED
    BY <2>1, <2>2
<1>16. Sorted(bundle)'
  BY <1>1, <1>3, <1>14 DEF Sorted, ArchiverOnly
<1>17. TarballNoted'
  <2>1. \A i \in 1 .. Len(f) : i \in 1 .. Len(e) \/ i = Len(e) + 1
    <3>1. Len(e) \in Nat
      BY <1>7
    <3> HIDE DEF e, f
    <3> QED
      BY <1>9, <3>1
  <2>2. x.is # "whole" => \E l \in cut : x.blob = BlobOf(l)
    BY <1>5, <1>6
  <2>3. \A i \in 1 .. Len(e) : e[i].is # "whole" => \E l \in cut : e[i].blob = BlobOf(l)
    BY DEF LocalInv, CutNoted, TarballNoted
  <2> HIDE DEF x, E
  <2>4. \A i \in 1 .. Len(f) : f[i].is # "whole" => \E l \in cut : f[i].blob = BlobOf(l)
    BY <1>9, <2>1, <2>2, <2>3
  <2> QED
    BY <1>1, <2>4 DEF TarballNoted, ArchiverOnly
<1>18. Queued'
  <2>1. archive'.entries # <<>>
    <3>1. Len(f) # 0
      BY <1>7, <1>9
    <3> QED
      BY <3>1
  <2>2. Unread' = Unread
    BY <1>1 DEF Unread
  <2>3. archive'.broken => Unread'
    BY <1>3, <1>8, <2>2
  <2>4. archive'.broken \/ Paths(bundle') \subseteq Held' \cup ToSet(jobs')
    BY <1>1, <1>3, <1>4, <1>8, <1>14, <1>15 DEF ArchiverOnly
  <2>5. Held' \cup ToSet(jobs') \subseteq Paths(bundle')
    BY <1>1, <1>3, <1>4, <1>14, <1>15 DEF ArchiverOnly
  <2>6. \A y \in ToSet(jobs') : OnDisk(store', y)
    BY <1>1, <1>3, <1>4 DEF ArchiverOnly
  <2>7. archive'.by = "create" /\ archive'.of = bundle'.id
    BY <1>1, <1>3, <1>8 DEF ArchiverOnly
  <2> HIDE DEF f, e
  <2> QED
    BY <1>1, <1>16, <2>1, <2>3, <2>4, <2>5, <2>6, <2>7 DEF Queued, ArchiverOnly
<1>19. outcome' = "none"
  BY <1>1 DEF LocalInv, Typed
<1>20. Success'
  BY <1>19 DEF Success
<1>21. Types' /\ StoreNoted' /\ CacheNoted' /\ SameRoot'
  BY <1>1, <1>19, OnlyArchives
<1>22. Typed'
  BY <1>1, <1>4, <1>10, <1>19, <1>21 DEF LocalInv, Typed, ArchiverOnly
<1> QED
  BY <1>17, <1>18, <1>20, <1>21, <1>22 DEF LocalInv, CutNoted

\* A result more.
LEMMA OneResult ==
  ASSUME results \in Seq({"ok", "error"}), NEW r \in {"ok", "error"}, results' = Append(results, r)
  PROVE  results' \in Seq({"ok", "error"}) /\ (r = "error" => Unread')
<1>1. /\ results' \in Seq({"ok", "error"}) /\ Len(results) \in Nat
      /\ DOMAIN results' = 1 .. Len(results) + 1 /\ results'[Len(results) + 1] = r
  OBVIOUS
<1>2. Len(results) + 1 \in DOMAIN results'
  BY <1>1
<1>3. r = "error" => \E i \in DOMAIN results' : results'[i] = "error"
  BY <1>1, <1>2, Zenon
<1> QED
  BY <1>1, <1>3 DEF Unread

LEMMA FinishesJob ==
  ASSUME LocalInv, FinishJob
  PROVE  LocalInv'
<1> DEFINE e == archive.entries
           f == archive'.entries
           E == [blob : Files, is : {"absent", "cut", "whole"}]
<1>0. bundle \in Bundles /\ Archiving
  BY DEF LocalInv, Typed, Types, FinishJob, Archiving
<1>1. /\ at \in {"drain", "select", "wait"} /\ at' = at /\ ArchiverOnly /\ outcome' = outcome
      /\ busy' = FALSE /\ busy /\ jobs' = jobs
      /\ \/ ~archive.broken /\ results' = Append(results, "ok") /\ archive' = archive
         \/ /\ archive' = [archive EXCEPT !.broken = TRUE, !.entries = Front(@)]
            /\ results' = Append(results, "error")
  BY DEF FinishJob, ArchiverOnly, workVars, history
<1>2. /\ archive \in LocalArchives /\ jobs \in Seq(Files) /\ results \in Seq({"ok", "error"})
  BY DEF LocalInv, Typed
<1>3. /\ archive.by = "create" /\ archive.of = bundle.id /\ e # <<>>
      /\ archive.broken => Unread
      /\ archive.broken \/ Paths(bundle) \subseteq Held \cup ToSet(jobs)
      /\ Held \cup ToSet(jobs) \subseteq Paths(bundle)
      /\ \A y \in ToSet(jobs) : OnDisk(store, y)
      /\ Sorted(bundle)
  BY <1>0, <1>1 DEF LocalInv, Queued
<1>4. e \in Seq(E) /\ archive.broken \in BOOLEAN
  BY <1>2 DEF LocalArchives
<1>5. /\ archive' \in LocalArchives /\ archive'.by = archive.by /\ archive'.of = archive.of
      /\ f \in Seq(E) /\ Entries(f) \subseteq Entries(e)
      /\ \A i \in 1 .. Len(f) : i \in 1 .. Len(e) /\ f[i] = e[i]
      /\ Sorted(bundle) => Sorted(bundle)'
      /\ archive'.broken => Unread'
      /\ ~archive'.broken => ~archive.broken /\ f = e
      /\ results' \in Seq({"ok", "error"})
  <2>1. CASE ~archive.broken /\ results' = Append(results, "ok") /\ archive' = archive
    <3>1. results' \in Seq({"ok", "error"})
      BY <1>2, <2>1, OneResult
    <3>2. Sorted(bundle) => Sorted(bundle)'
      BY <1>1, <2>1 DEF Sorted, ArchiverOnly
    <3>3. f = e /\ archive'.broken = archive.broken /\ archive'.by = archive.by /\ archive'.of = archive.of
      BY <2>1
    <3>4. archive' \in LocalArchives
      BY <1>2, <2>1
    <3> HIDE DEF e, f, E
    <3> QED
      BY <1>4, <2>1, <3>1, <3>2, <3>3, <3>4
  <2>2. CASE archive' = [archive EXCEPT !.broken = TRUE, !.entries = Front(@)]
             /\ results' = Append(results, "error")
    <3>1. results' \in Seq({"ok", "error"}) /\ Unread'
      BY <1>2, <2>2, OneResult
    <3>2. f = Front(e) /\ archive'.broken = TRUE /\ archive'.by = archive.by /\ archive'.of = archive.of
      BY <1>2, <2>2 DEF LocalArchives
    <3>3. /\ f \in Seq(E) /\ Entries(f) \subseteq Entries(e)
          /\ \A i \in 1 .. Len(f) : i \in 1 .. Len(e) /\ f[i] = e[i]
          /\ Line(e, jobs, Rank(bundle)) => Line(f, jobs, Rank(bundle))
      <4> HIDE DEF e, f, E
      <4> QED
        BY <1>3, <1>4, <3>2, OneDropped
    <3>4. Sorted(bundle) => Sorted(bundle)'
      BY <1>1, <3>3 DEF Sorted, ArchiverOnly
    <3>5. archive' \in LocalArchives
      <4>1. archive \in [by : {"none", "create", "pull"}, of : Ids, entries : Seq(E), broken : BOOLEAN]
        BY <1>2 DEF LocalArchives
      <4>2. archive' = [archive EXCEPT !.broken = TRUE, !.entries = f]
        <5>1. archive' = [archive EXCEPT !.broken = TRUE, !.entries = Front(e)]
          BY <2>2
        <5> QED
          BY <3>2, <5>1
      <4> HIDE DEF E, f
      <4>3. archive' \in [by : {"none", "create", "pull"}, of : Ids, entries : Seq(E), broken : BOOLEAN]
        BY <3>3, <4>1, <4>2
      <4> QED
        BY <4>3 DEF LocalArchives, E
    <3> HIDE DEF e, f, E
    <3> QED
      BY <3>1, <3>2, <3>3, <3>4, <3>5
  <2> QED
    BY <1>1, <2>1, <2>2
<1>6. Held = Entries(e) /\ Held' = Entries(f)
  <2>1. Held = Entries(e)
    BY <1>2, HeldIs
  <2>2. Held' = Entries(f)
    BY <1>5 DEF LocalArchives, Held, Entries
  <2> QED
    BY <2>1, <2>2
<1>7. TarballNoted'
  <2>1. \A i \in 1 .. Len(e) : e[i].is # "whole" => \E l \in cut : e[i].blob = BlobOf(l)
    BY DEF LocalInv, CutNoted, TarballNoted
  <2> HIDE DEF E
  <2>2. \A i \in 1 .. Len(f) : f[i].is # "whole" => \E l \in cut : f[i].blob = BlobOf(l)
    BY <1>5, <2>1
  <2> QED
    BY <1>1, <2>2 DEF TarballNoted, ArchiverOnly
<1>8. Queued'
  <2>1. archive'.broken \/ Paths(bundle') \subseteq Held' \cup ToSet(jobs')
    <3>1. CASE archive'.broken
      BY <3>1
    <3>2. CASE ~archive'.broken
      <4>1. ~archive.broken /\ Held' = Held
        BY <1>5, <1>6, <3>2
      <4> QED
        BY <1>1, <1>3, <4>1 DEF ArchiverOnly
    <3> QED
      BY <3>1, <3>2
  <2>2. Held' \cup ToSet(jobs') \subseteq Paths(bundle')
    BY <1>1, <1>3, <1>5, <1>6 DEF ArchiverOnly
  <2>3. \A y \in ToSet(jobs') : OnDisk(store', y)
    BY <1>1, <1>3 DEF ArchiverOnly
  <2>4. archive'.by = "create" /\ archive'.of = bundle'.id
    BY <1>1, <1>3, <1>5 DEF ArchiverOnly
  <2>5. Sorted(bundle)' /\ (archive'.broken => Unread') /\ ~busy'
    BY <1>1, <1>3, <1>5
  <2> HIDE DEF f, e, E
  <2> QED
    BY <1>1, <2>1, <2>2, <2>3, <2>4, <2>5 DEF Queued, ArchiverOnly
<1>9. outcome' = "none"
  BY <1>1 DEF LocalInv, Typed
<1>10. Success'
  BY <1>9 DEF Success
<1>11. Types' /\ StoreNoted' /\ CacheNoted' /\ SameRoot'
  BY <1>1, <1>9, OnlyArchives
<1>12. busy' \in BOOLEAN /\ ~busy'
  BY <1>1, Zenon
<1> HIDE DEF e, f, E
<1>13. Typed'
  BY <1>1, <1>2, <1>5, <1>9, <1>11, <1>12 DEF LocalInv, Typed, ArchiverOnly
<1> QED
  BY <1>7, <1>8, <1>10, <1>11, <1>13 DEF LocalInv, CutNoted

\* The loop over the queue.
LEMMA Loops ==
  ASSUME LocalInv, TestJobs
  PROVE  LocalInv'
<1>1. /\ at = "drain" /\ at' \in {"select", "wait"} /\ ArchiverOnly /\ outcome' = outcome
      /\ busy' = busy /\ jobs' = jobs /\ results' = results /\ archive' = archive
  BY DEF TestJobs, Goto, ArchiverOnly, workVars, history, archiverVars
<1>2. outcome' = "none"
  BY <1>1 DEF LocalInv, Typed
<1>3. Types' /\ StoreNoted' /\ CacheNoted' /\ SameRoot'
  BY <1>1, <1>2, OnlyArchives
<1>4. TarballNoted'
  BY <1>1, TarballKept DEF LocalInv, CutNoted, ArchiverOnly
<1>5. Held' = Held /\ Unread' = Unread /\ Archiving
  BY <1>1 DEF Held, Unread, Archiving
<1>6. \A b : Sorted(b)' <=> Sorted(b)
  BY <1>1 DEF Sorted
<1>7. Queued'
  BY <1>1, <1>5, <1>6 DEF LocalInv, Queued, ArchiverOnly
<1>8. Success'
  BY <1>2 DEF Success
<1>9. Typed'
  BY <1>1, <1>2, <1>3 DEF LocalInv, Typed, ArchiverOnly
<1> QED
  BY <1>3, <1>4, <1>7, <1>8, <1>9 DEF LocalInv, CutNoted

\* An error that is read ends the command; a success leaves the errors that are unread.
LEMMA ReadsResult ==
  ASSUME LocalInv, ReadResult
  PROVE  LocalInv'
<1>1. /\ at = "select" /\ ArchiverOnly
      /\ busy' = busy /\ jobs' = jobs /\ archive' = archive
      /\ results # <<>> /\ results' = Tail(results)
      /\ \/ Head(results) = "error" /\ at' = "idle" /\ outcome' = "error"
         \/ Head(results) # "error" /\ at' = "drain" /\ outcome' = outcome
  BY DEF ReadResult, Goto, End, IsError, ArchiverOnly, workVars, history
<1>2. outcome = "none" /\ results \in Seq({"ok", "error"})
  BY <1>1 DEF LocalInv, Typed
<1>3. Types' /\ StoreNoted' /\ CacheNoted' /\ SameRoot'
  BY <1>1, <1>2, OnlyArchives
<1>4. TarballNoted'
  BY <1>1, TarballKept DEF LocalInv, CutNoted, ArchiverOnly
<1>5. results' \in Seq({"ok", "error"})
  BY <1>1, <1>2
<1>6. Typed'
  BY <1>1, <1>2, <1>3, <1>5 DEF LocalInv, Typed, ArchiverOnly
<1>7. CASE Head(results) = "error" /\ at' = "idle" /\ outcome' = "error"
  <2>1. Queued' /\ Success'
    BY <1>7, Elsewhere
  <2> QED
    BY <1>3, <1>4, <1>6, <2>1 DEF LocalInv, CutNoted
<1>8. CASE Head(results) # "error" /\ at' = "drain" /\ outcome' = outcome
  <2>1. Held' = Held /\ Archiving
    BY <1>1 DEF Held, Archiving
  <2>2. Unread => Unread'
    <3>1. /\ Head(results) = results[1] /\ Len(results) \in Nat /\ Len(results') = Len(results) - 1
          /\ \A i \in 1 .. Len(results') : results'[i] = results[i + 1]
      BY <1>1, <1>2, Queue
    <3>2. DOMAIN results = 1 .. Len(results) /\ DOMAIN results' = 1 .. Len(results')
      BY <1>2, <1>5
    <3> SUFFICES ASSUME Unread PROVE Unread'
      OBVIOUS
    <3>3. PICK i \in 1 .. Len(results) : results[i] = "error"
      BY <3>2 DEF Unread
    <3>4. i # 1
      BY <1>8, <3>1, <3>3
    <3>5. i - 1 \in 1 .. Len(results') /\ (i - 1) + 1 = i
      BY <3>1, <3>4
    <3>6. results'[i - 1] = "error"
      BY <3>1, <3>3, <3>5
    <3> QED
      BY <3>2, <3>5, <3>6 DEF Unread
  <2>3. \A b : Sorted(b)' <=> Sorted(b)
    BY <1>1 DEF Sorted
  <2>4. Queued'
    BY <1>1, <1>8, <2>1, <2>2, <2>3 DEF LocalInv, Queued, ArchiverOnly
  <2>5. Success'
    BY <1>2, <1>8 DEF Success
  <2> QED
    BY <1>3, <1>4, <1>6, <2>4, <2>5 DEF LocalInv, CutNoted
<1> QED
  BY <1>1, <1>7, <1>8

\* The queue is empty and the archiver has finished.
LEMMA ArchiveEnds ==
  ASSUME LocalInv, Archived
  PROVE  LocalInv'
<1>1. /\ at = "wait" /\ at' = "idle" /\ outcome' = "ok" /\ ArchiverOnly
      /\ busy' = busy /\ jobs' = jobs /\ archive' = archive /\ results' = results
      /\ jobs = <<>> /\ ~busy
  BY DEF Archived, End, ArchiverOnly, workVars, history, archiverVars
<1>3. Types' /\ StoreNoted' /\ CacheNoted' /\ SameRoot'
  BY <1>1, OnlyArchives
<1>4. TarballNoted'
  BY <1>1, TarballKept DEF LocalInv, CutNoted, ArchiverOnly
<1>5. Typed'
  BY <1>1, <1>3 DEF LocalInv, Typed, ArchiverOnly
<1>6. Queued'
  BY <1>1 DEF Queued, Archiving
<1>7. bundle \in Bundles /\ Archiving
  BY <1>1 DEF LocalInv, Typed, Types, Archiving
<1>8. /\ archive.by = "create" /\ archive.of = bundle.id
      /\ archive.broken => Unread
      /\ archive.broken \/ Paths(bundle) \subseteq Held \cup ToSet(jobs)
      /\ Held \cup ToSet(jobs) \subseteq Paths(bundle)
      /\ Sorted(bundle)
  BY <1>7 DEF LocalInv, Queued
<1>9. ToSet(jobs) = {}
  BY <1>1, NoMembers
<1>10. Of = bundle
  BY <1>7, <1>8, OfIs
<1>11. Of' = Of /\ Held' = Held /\ Unread' = Unread
  BY <1>1 DEF Of, Held, Unread
<1>12. \A b : Sorted(b)' <=> Sorted(b)
  BY <1>1 DEF Sorted
<1>13. Success'
  <2>1. Paths(Of) \subseteq Held \/ Unread
    BY <1>8, <1>9, <1>10
  <2>2. Held \subseteq Paths(Of) /\ Sorted(Of)
    BY <1>8, <1>10
  <2> QED
    BY <1>1, <1>7, <1>8, <1>11, <1>12, <2>1, <2>2 DEF Success
<1> QED
  BY <1>3, <1>4, <1>5, <1>6, <1>13 DEF LocalInv, CutNoted

----------------------------------------------------------------------------
\* The order of a path map that Go iterates.
LEMMA OrdersAre ==
  ASSUME NEW S, IsFiniteSet(S), NEW order \in Orders(S)
  PROVE  IsSeq(order) /\ ToSet(order) = S
<1>1. PICK early : early \subseteq S /\ order = Listed(early) \o Listed(S \ early)
  BY DEF Orders
<1>2. IsFiniteSet(early) /\ IsFiniteSet(S \ early)
  BY <1>1, FS_Subset
<1>3. IsSeq(Listed(early)) /\ ToSet(Listed(early)) = early
  BY <1>2, ListedMembers
<1>4. IsSeq(Listed(S \ early)) /\ ToSet(Listed(S \ early)) = S \ early
  BY <1>2, ListedMembers
<1>5. IsSeq(order) /\ ToSet(order) = ToSet(Listed(early)) \cup ToSet(Listed(S \ early))
  BY <1>1, <1>3, <1>4, ConcatFacts
<1>6. early \cup (S \ early) = S
  BY <1>1
<1> QED
  BY <1>3, <1>4, <1>5, <1>6

LEMMA PulledIs ==
  ASSUME Typed
  PROVE  /\ IsFiniteSet(PulledPaths) /\ PulledPaths \subseteq Files
         /\ root = bundle => PulledPaths = Paths(bundle)
<1>0. bundle \in Bundles /\ root \in Bundles
  BY DEF Typed, Types
<1>1. Root(root) \in Paths(root)
  BY <1>0, PathsAre
<1>2. Root(root) \in Files
  BY <1>0, <1>1, PathsAreFiles
<1>3. Paths(bundle) \subseteq Files /\ IsFiniteSet(Paths(bundle))
  BY <1>0, PathsAreFiles, PathsFinite
<1>4. IsFiniteSet(Paths(bundle) \ {Root(bundle)})
  BY <1>3, FS_Subset
<1>5. IsFiniteSet((Paths(bundle) \ {Root(bundle)}) \cup {Root(root)})
  BY <1>4, FS_AddElement
<1> QED
  BY <1>1, <1>2, <1>3, <1>5 DEF PulledPaths

\* The tarball a pull writes.
Written(order, entries) ==
  entries = [i \in DOMAIN order |-> [blob |-> order[i], is |-> State(store, order[i])]]

LEMMA WrittenIs ==
  ASSUME LocalInv, \A x \in PulledPaths : OnDisk(store, x), NEW order \in Orders(PulledPaths),
         NEW entries, Written(order, entries)
  PROVE  /\ entries \in Seq([blob : Files, is : {"absent", "cut", "whole"}])
         /\ Entries(entries) = PulledPaths
         /\ \A i \in 1 .. Len(entries) :
               entries[i].is # "whole" => \E l \in cut : entries[i].blob = BlobOf(l)
<1> DEFINE E == [blob : Files, is : {"absent", "cut", "whole"}]
<1>1. /\ IsFiniteSet(PulledPaths) /\ PulledPaths \subseteq Files
      /\ store \in [Blobs -> {"absent", "cut", "whole"}]
  BY PulledIs DEF LocalInv, Typed, Types
<1>2. IsSeq(order) /\ ToSet(order) = PulledPaths
  BY <1>1, OrdersAre
<1>3. Len(order) \in Nat /\ DOMAIN order = 1 .. Len(order) /\ PulledPaths = {order[i] : i \in 1 .. Len(order)}
  BY <1>2, SeqFacts
<1>4. ASSUME NEW i \in 1 .. Len(order)
      PROVE  /\ order[i] \in PulledPaths /\ State(store, order[i]) \in {"cut", "whole"}
             /\ State(store, order[i]) # "whole" => \E l \in cut : order[i] = BlobOf(l)
  <2>1. order[i] \in PulledPaths /\ order[i] \in Files
    BY <1>1, <1>3
  <2>2. State(store, order[i]) # "absent"
    BY <2>1 DEF OnDisk
  <2>3. CASE order[i] \in {Index, OciLayout}
    BY <2>1, <2>3 DEF State
  <2>4. CASE order[i] \notin {Index, OciLayout}
    <3>1. order[i] \in Blobs /\ State(store, order[i]) = store[order[i]]
      BY <2>1, <2>4 DEF Files, State
    <3> QED
      BY <1>1, <2>1, <2>2, <3>1 DEF LocalInv, CutNoted, StoreNoted
  <2> QED
    BY <2>3, <2>4
<1>5. /\ DOMAIN entries = 1 .. Len(order)
      /\ \A i \in 1 .. Len(order) : entries[i] = [blob |-> order[i], is |-> State(store, order[i])]
      /\ entries = [i \in 1 .. Len(order) |-> entries[i]]
  BY <1>3 DEF Written
<1>6. \A i \in 1 .. Len(order) : /\ entries[i] \in E /\ entries[i].blob = order[i]
                                 /\ entries[i].is = State(store, order[i])
  BY <1>1, <1>4, <1>5
<1> HIDE DEF E
<1>7. entries \in Seq(E) /\ Len(entries) = Len(order)
  BY <1>3, <1>5, <1>6
<1>8. Entries(entries) = PulledPaths
  BY <1>3, <1>6, <1>7 DEF Entries
<1> QED
  BY <1>4, <1>6, <1>7, <1>8 DEF E

LEMMA PullEnds ==
  ASSUME LocalInv, FinishPull
  PROVE  LocalInv'
<1>1. /\ at = "pulled" /\ at' = "idle" /\ tag' = tag /\ bundle' = bundle /\ root' = root /\ pkg' = pkg
      /\ pull' = pull /\ store' = store /\ cache' = cache /\ cut' = cut /\ moved' = moved
      /\ busy' = busy /\ jobs' = jobs /\ results' = results
  BY DEF FinishPull, End, workVars, history
<1>2. \/ /\ \A x \in PulledPaths : OnDisk(store, x)
         /\ outcome' = "ok"
         /\ \E order \in Orders(PulledPaths) :
               archive' = [by |-> "pull", of |-> tag.id, broken |-> FALSE,
                           entries |-> [i \in DOMAIN order |-> [blob |-> order[i], is |-> State(store, order[i])]]]
      \/ /\ outcome' = "error"
         /\ \E broken \in BOOLEAN : archive' = [by |-> "pull", of |-> tag.id, broken |-> broken, entries |-> <<>>]
  BY DEF FinishPull, End
<1>3. tag \in Bundles /\ tag.id \in Ids
  BY DEF LocalInv, Typed, Types, Ids
<1>4. StoreNoted' /\ CacheNoted' /\ SameRoot' /\ Queued'
  BY <1>1, StoreKept, CacheKept DEF LocalInv, CutNoted, SameRoot, Queued, Archiving
<1>5. outcome' \in {"ok", "error"} => Types'
  BY <1>1 DEF LocalInv, Typed, Types
<1>6. outcome' \in {"ok", "error"} /\ archive' \in LocalArchives => Typed'
  BY <1>1, <1>5 DEF LocalInv, Typed
<1>7. ASSUME outcome' = "error",
             NEW broken \in BOOLEAN,
             archive' = [by |-> "pull", of |-> tag.id, broken |-> broken, entries |-> <<>>]
      PROVE  LocalInv'
  <2>1. archive' \in LocalArchives /\ Len(archive'.entries) = 0
    BY <1>3, <1>7 DEF LocalArchives
  <2>2. TarballNoted'
    BY <2>1 DEF TarballNoted
  <2>3. Success'
    BY <1>7 DEF Success
  <2> QED
    BY <1>4, <1>6, <1>7, <2>1, <2>2, <2>3 DEF LocalInv, CutNoted
<1>8. ASSUME \A x \in PulledPaths : OnDisk(store, x), outcome' = "ok",
             NEW order \in Orders(PulledPaths),
             archive' = [by |-> "pull", of |-> tag.id, broken |-> FALSE,
                         entries |-> [i \in DOMAIN order |-> [blob |-> order[i], is |-> State(store, order[i])]]]
      PROVE  LocalInv'
  <2> DEFINE f == archive'.entries
             E == [blob : Files, is : {"absent", "cut", "whole"}]
  <2>1. Written(order, f) /\ archive'.by = "pull" /\ archive'.of = tag.id
    BY <1>8 DEF Written
  <2>2. /\ f \in Seq(E) /\ Entries(f) = PulledPaths
        /\ \A i \in 1 .. Len(f) : f[i].is # "whole" => \E l \in cut : f[i].blob = BlobOf(l)
    <3> HIDE DEF f
    <3> QED
      BY <1>8, <2>1, WrittenIs
  <2>3. archive' \in LocalArchives
    <3>1. archive' = [by |-> "pull", of |-> tag.id, broken |-> FALSE, entries |-> f]
      BY <1>8
    <3> HIDE DEF f, E
    <3>2. archive' \in [by : {"none", "create", "pull"}, of : Ids, entries : Seq(E), broken : BOOLEAN]
      BY <1>3, <2>2, <3>1
    <3> QED
      BY <3>2 DEF LocalArchives, E
  <2>4. TarballNoted'
    BY <1>1, <2>2 DEF TarballNoted
  <2>5. Of' = tag
    <3>1. \A c \in Bundles : c.id = tag.id => c = tag
      BY <1>3, LocalAssumption
    <3> QED
      BY <1>3, <2>1, <3>1 DEF Of
  <2>6. Held' = PulledPaths
    BY <2>2, <2>3 DEF LocalArchives, Held, Entries
  <2>7. ~moved => PulledPaths = Paths(tag)
    BY <1>1, PulledIs DEF LocalInv, SameRoot
  <2>8. Success'
    BY <1>1, <1>3, <2>1, <2>5, <2>6, <2>7 DEF Success
  <2> QED
    BY <1>4, <1>6, <1>8, <2>3, <2>4, <2>8 DEF LocalInv, CutNoted
<1> QED
  BY <1>2, <1>7, <1>8

\* What ends a command without a result, comes from outside or concerns nothing here.
LEMMA RestGoesOn ==
  ASSUME LocalInv, NextPackage \/ Fails \/ (\E from \in {"cache", "pulled"} : CacheMissing(from)) \/ Killed \/ PublishAnew \/ Terminating
  PROVE  LocalInv'
<1>1. /\ bundle' = bundle /\ root' = root /\ store' = store /\ cache' = cache /\ archive' = archive
      /\ jobs' = jobs /\ busy' = busy /\ results' = results /\ cut' = cut
      /\ moved' \in {moved, TRUE} /\ pkg' \in {pkg, pkg + 1} /\ tag' \in Bundles /\ pull' \subseteq LayerIds
      /\ \/ at' = "idle" /\ outcome' \in {"error", "killed"} /\ tag' = tag /\ moved' = moved
         \/ at = "cache" /\ at' = "fetch" /\ outcome' = outcome /\ tag' = tag /\ moved' = moved
         \/ at' = at /\ outcome' = outcome /\ moved' = TRUE
         \/ at' = at /\ outcome' = outcome /\ moved' = moved /\ tag' = tag
  BY DEF NextPackage, Fails, CacheMissing, Killed, PublishAnew, Terminating, Goto, End, LocalInv, Typed,
         Types, localVars, workVars, archiverVars, history
<1>2. TarballNoted' /\ StoreNoted' /\ CacheNoted'
  BY <1>1, TarballKept, StoreKept, CacheKept DEF LocalInv, CutNoted
<1>3. SameRoot'
  BY <1>1 DEF LocalInv, SameRoot
<1>4. Queued' /\ Success'
  <2>1. CASE at' = at /\ outcome' = outcome
    BY <1>1, <2>1, Unmoved
  <2>2. CASE at' = "idle" /\ outcome' \in {"error", "killed"}
    BY <2>2, Elsewhere
  <2>3. CASE at = "cache" /\ at' = "fetch" /\ outcome' = outcome
    BY <2>3, Elsewhere DEF LocalInv, Typed
  <2> QED
    BY <1>1, <2>1, <2>2, <2>3
<1>5. Types' /\ moved' \in BOOLEAN
  BY <1>1 DEF LocalInv, Typed, Types
<1>6. Typed'
  BY <1>1, <1>5 DEF LocalInv, Typed
<1> QED
  BY <1>2, <1>3, <1>4, <1>6 DEF LocalInv, CutNoted

LEMMA LocalAtFirst == LocalInit => LocalInv
<1> SUFFICES ASSUME LocalInit PROVE LocalInv
  OBVIOUS
<1>1. /\ at = "idle" /\ outcome = "none" /\ tag \in Bundles /\ bundle = tag /\ root = tag
      /\ pkg = 1 /\ pull = {} /\ jobs = <<>> /\ results = <<>> /\ cut = {}
      /\ busy = FALSE /\ moved = FALSE
  BY DEF LocalInit
<1>2. /\ cache \in [LayerIds -> {"absent", "cut", "whole"}] /\ \A l \in LayerIds : cache[l] = "absent"
      /\ store \in [Blobs -> {"absent", "cut", "whole"}] /\ \A x \in Blobs : store[x] = "absent"
  BY DEF LocalInit, EmptyStore
<1>3. archive \in LocalArchives /\ Len(archive.entries) = 0
  <2> DEFINE E == [blob : Files, is : {"absent", "cut", "whole"}]
  <2>1. archive = [by |-> "none", of |-> "", entries |-> <<>>, broken |-> FALSE]
    BY DEF LocalInit, NoArchive
  <2> HIDE DEF E
  <2>2. archive \in [by : {"none", "create", "pull"}, of : Ids, entries : Seq(E), broken : BOOLEAN]
    <3>1. <<>> \in Seq(E)
      OBVIOUS
    <3>3. "" \in Ids
      BY DEF Ids
    <3>2. FALSE \in BOOLEAN
      BY Zenon
    <3> QED
      BY <2>1, <3>1, <3>2, <3>3, Zenon
  <2> QED
    BY <2>1, <2>2 DEF LocalArchives, E
<1>4. Types
  BY <1>1, <1>2 DEF Types
<1>5. jobs \in Seq(Files) /\ results \in Seq({"ok", "error"}) /\ pkg \in Nat \ {0}
  BY <1>1
<1>6. busy \in BOOLEAN /\ moved \in BOOLEAN
  BY <1>1, Zenon
<1>7. Typed
  BY <1>1, <1>3, <1>4, <1>5, <1>6 DEF Typed
<1>8. CutNoted
  BY <1>2, <1>3 DEF CutNoted, CacheNoted, StoreNoted, TarballNoted
<1>9. Queued /\ SameRoot /\ Success
  BY <1>1 DEF Queued, Archiving, SameRoot, Success
<1> QED
  BY <1>7, <1>8, <1>9 DEF LocalInv

LEMMA LocalGoesOn == LocalInv /\ [LocalNext]_localVars => LocalInv'
<1> SUFFICES ASSUME LocalInv, [LocalNext]_localVars PROVE LocalInv'
  OBVIOUS
<1>1. CASE UNCHANGED localVars
  <2>1. /\ UNCHANGED <<at, tag, bundle, root, pkg, store, pull, cache, jobs, busy, results, archive, outcome>>
        /\ UNCHANGED <<cut, moved>>
    BY <1>1 DEF localVars, workVars, archiverVars, history
  <2>2. Queued' /\ Success'
    BY <2>1, Unmoved
  <2>3. TarballNoted' /\ StoreNoted' /\ CacheNoted'
    BY <2>1, TarballKept, StoreKept, CacheKept DEF LocalInv, CutNoted
  <2>4. Typed' /\ SameRoot'
    BY <2>1 DEF LocalInv, Typed, Types, SameRoot
  <2> QED
    BY <2>2, <2>3, <2>4 DEF LocalInv, CutNoted
<1>2. CASE LocalNext
  BY <1>2, BeginsNew, LooksUp, LaysIn, Caches, ArchiveStarts, TakesJob, FinishesJob, Loops, ReadsResult,
     ArchiveEnds, PullEnds, RestGoesOn DEF LocalNext
<1> QED
  BY <1>1, <1>2

\* A create or pull that reports success leaves a whole tarball, but for the three causes
\* the property names: for any bundles, layers, cache contents, faults and publications.
THEOREM ArchivesWhole == LocalSpec => []ArchiveWhole
<1>1. LocalInv => ArchiveWhole
  <2> SUFFICES ASSUME LocalInv PROVE ArchiveWhole
    OBVIOUS
  <2>1. Types
    BY DEF LocalInv, Typed
  <2>2. ASSUME NEW i \in DOMAIN archive.entries, archive.entries[i].is # "whole"
        PROVE  archive.entries[i].blob \in {BlobOf(l) : l \in cut}
    <3>1. DOMAIN archive.entries = 1 .. Len(archive.entries)
      BY DEF LocalInv, Typed, LocalArchives
    <3> QED
      BY <2>2, <3>1 DEF LocalInv, CutNoted, TarballNoted
  <2>3. outcome = "ok" => Paths(Of) \subseteq Held \/ (archive.by = "create" /\ Unread) \/ (archive.by = "pull" /\ moved)
    BY DEF LocalInv, Success
  <2> QED
    BY <2>1, <2>2, <2>3 DEF ArchiveWhole
<1> QED
  BY <1>1, LocalAtFirst, LocalGoesOn, PTL DEF LocalSpec

----------------------------------------------------------------------------
(* The prefetch of `uds inspect`. *)

\* Induction on the entries of a tarball.
LEMMA Upwards ==
  ASSUME NEW N \in Nat, NEW T, 0 \in T, \A n \in 0 .. N : n # N /\ n \in T => n + 1 \in T
  PROVE  \A n \in 0 .. N : n \in T
<1> DEFINE Off == {n \in 0 .. N : n \notin T}
<1>1. SUFFICES ASSUME Off # {} PROVE FALSE
  OBVIOUS
<1>2. PICK n \in Off : \A m \in Off : n <= m
  <2>1. Off \subseteq Nat
    OBVIOUS
  <2> QED
    BY <1>1, <2>1, Least
<1>3. n \in 0 .. N /\ n # 0 /\ n - 1 \in 0 .. N /\ n - 1 # N /\ (n - 1) + 1 = n
  BY <1>2
<1>4. n - 1 \in T
  BY <1>2, <1>3
<1> QED
  BY <1>2, <1>3, <1>4

LEMMA BlobKinds ==
  /\ \A l : BlobOf(l)[1] = "layer" /\ BlobOf(l)[2] = l
  /\ \A m : Manifest(m)[1] = "manifest" /\ Manifest(m)[2] = m
  /\ \A l, m : BlobOf(l) # Manifest(m)
<1>1. \A l : BlobOf(l)[1] = "layer" /\ BlobOf(l)[2] = l
  BY DEF BlobOf
<1>2. \A m : Manifest(m)[1] = "manifest" /\ Manifest(m)[2] = m
  BY DEF Manifest
<1>3. \A l, m : BlobOf(l) # Manifest(m)
  BY <1>1, <1>2
<1> QED
  BY <1>1, <1>2, <1>3

MetadataOf(m) == {BlobOf(l) : l \in {k \in ToSet(Contents[m]) : IsMetadata(k)}}

LEMMA MetadataIs ==
  ASSUME NEW m
  PROVE  \A x : x \in MetadataOf(m) <=> \E l \in ToSet(Contents[m]) : IsMetadata(l) /\ x = BlobOf(l)
<1> DEFINE S == {k \in ToSet(Contents[m]) : IsMetadata(k)}
<1>1. \A l : l \in S <=> l \in ToSet(Contents[m]) /\ IsMetadata(l)
  OBVIOUS
<1>2. \A x : x \in MetadataOf(m) <=> \E l \in S : x = BlobOf(l)
  BY DEF MetadataOf
<1> HIDE DEF S
<1> QED
  BY <1>1, <1>2

\* All that is to be found once these manifests are known.
Sought(b, parsed) == {Manifest(m) : m \in ManifestsOf(b)} \cup UNION {MetadataOf(m) : m \in parsed}

LEMMA SoughtIs ==
  ASSUME NEW b, NEW parsed
  PROVE  \A x : x \in Sought(b, parsed) <=> \/ \E m \in ManifestsOf(b) : x = Manifest(m)
                                            \/ \E m \in parsed : x \in MetadataOf(m)
<1>1. \A x : x \in UNION {MetadataOf(m) : m \in parsed} <=> \E m \in parsed : x \in MetadataOf(m)
  OBVIOUS
<1>2. \A x : x \in {Manifest(m) : m \in ManifestsOf(b)} <=> \E m \in ManifestsOf(b) : x = Manifest(m)
  OBVIOUS
<1> QED
  BY <1>1, <1>2 DEF Sought

HandlerStates ==
  [needed : SUBSET Files, captured : SUBSET Files, parsed : SUBSET Manifests, read : Nat, done : BOOLEAN]

\* The handler needs what it seeks and has not found, and stops when it needs nothing more.
Seeking(b, s) ==
  /\ s.parsed \subseteq ManifestsOf(b)
  /\ \A m \in ManifestsOf(b) : m \in s.parsed <=> Manifest(m) \in s.captured
  /\ \A x : ~(x \in s.needed /\ x \in s.captured)
  /\ \A x : x \in s.needed \/ x \in s.captured <=> x \in Sought(b, s.parsed)
  /\ s.done => s.needed = {}
  /\ s.needed = {} => s.done \/ ~AllParsed(b, s)

\* What one entry does to it.
PassesOver(s, x, t) ==
  /\ x \notin s.needed
  /\ t.needed = s.needed /\ t.captured = s.captured /\ t.parsed = s.parsed
  /\ ~t.done /\ t.read = s.read + 1

TakesIn(b, s, x, t) ==
  /\ x \in s.needed /\ t.captured = s.captured \cup {x} /\ t.read = s.read + 1
  /\ t.done <=> t.needed = {} /\ AllParsed(b, t)
  /\ \/ \E m \in ManifestsOf(b) : /\ x = Manifest(m) /\ t.parsed = s.parsed \cup {m}
                                  /\ t.needed = (s.needed \ {x}) \cup (MetadataOf(m) \ s.captured)
     \/ /\ x[1] # "manifest" /\ t.parsed = s.parsed /\ t.needed = s.needed \ {x}

LEMMA ManifestsAre ==
  ASSUME NEW b \in Bundles
  PROVE  /\ ManifestsOf(b) \subseteq Manifests
         /\ \A m : m \in ManifestsOf(b) <=> \E i \in 1 .. Len(b.pkgs) : m = b.pkgs[i].manifest
<1>1. DOMAIN b.pkgs = 1 .. Len(b.pkgs)
  BY BundleFacts
<1>2. \A m : m \in ManifestsOf(b) <=> \E i \in 1 .. Len(b.pkgs) : m = b.pkgs[i].manifest
  BY <1>1 DEF ManifestsOf, PackagesOf
<1> QED
  BY <1>2, BundleFacts

LEMMA MetadataFiles ==
  ASSUME NEW m \in Manifests
  PROVE  MetadataOf(m) \subseteq Files
<1>1. ToSet(Contents[m]) \subseteq LayerIds
  BY LocalAssumption
<1>2. \A l \in LayerIds : BlobOf(l) \in Files
  BY DEF Files, Blobs
<1> QED
  BY <1>1, <1>2, MetadataIs

LEMMA HandleDoes ==
  ASSUME NEW b \in Bundles, NEW s \in HandlerStates, Seeking(b, s), NEW x \in Files,
         NEW t, t = Handle(b, s, x)
  PROVE  /\ t \in HandlerStates
         /\ \/ s.done /\ t = s
            \/ ~s.done /\ PassesOver(s, x, t)
            \/ ~s.done /\ TakesIn(b, s, x, t)
<1>0. /\ s.needed \subseteq Files /\ s.captured \subseteq Files /\ s.parsed \subseteq Manifests
      /\ s.read \in Nat /\ s.done \in BOOLEAN
  BY DEF HandlerStates
<1> DEFINE more == IF x[1] = "manifest" THEN Needs(s, x) ELSE {}
           needed == (s.needed \ {x}) \cup more
           parsed == IF x[1] = "manifest" THEN s.parsed \cup {x[2]} ELSE s.parsed
           done == needed = {} /\ Cardinality(parsed) = Len(b.pkgs)
<1>1. CASE s.done
  BY <1>1 DEF Handle
<1>2. CASE ~s.done /\ x \notin s.needed
  <2>1. t = [s EXCEPT !.read = @ + 1]
    BY <1>2 DEF Handle
  <2>2. /\ t \in HandlerStates /\ t.needed = s.needed /\ t.captured = s.captured /\ t.parsed = s.parsed
        /\ t.done = s.done /\ t.read = s.read + 1
    BY <2>1 DEF HandlerStates
  <2> QED
    BY <1>2, <2>2 DEF PassesOver
<1>3. CASE ~s.done /\ x \in s.needed
  <2>1. t = [needed |-> needed, captured |-> s.captured \cup {x}, parsed |-> parsed,
             read |-> s.read + 1, done |-> done]
    BY <1>3 DEF Handle
  <2>2. /\ t.needed = needed /\ t.captured = s.captured \cup {x} /\ t.parsed = parsed /\ t.read = s.read + 1
    <3> HIDE DEF needed, parsed, done
    <3> QED
      BY <2>1
  <2>3. t.done <=> needed = {} /\ Cardinality(parsed) = Len(b.pkgs)
    <3>1. t.done = done
      <4> HIDE DEF needed, parsed, done
      <4> QED
        BY <2>1
    <3> QED
      BY <3>1, Zenon
  <2>4. t.done <=> t.needed = {} /\ AllParsed(b, t)
    <3> HIDE DEF needed, parsed, done
    <3> QED
      BY <2>2, <2>3 DEF AllParsed
  <2>5. x \in Sought(b, s.parsed)
    BY <1>3 DEF Seeking
  <2>6. /\ TakesIn(b, s, x, t) /\ needed \subseteq Files /\ parsed \subseteq Manifests
    <3>1. CASE x[1] = "manifest"
      <4>1. PICK m \in ManifestsOf(b) : x = Manifest(m)
        BY <2>5, <3>1, SoughtIs, MetadataIs, BlobKinds
      <4>2. x[2] = m /\ m \in Manifests
        BY <4>1, BlobKinds, ManifestsAre
      <4>3. more = MetadataOf(m) \ s.captured
        BY <3>1, <4>2 DEF Needs, MetadataOf
      <4>4. parsed = s.parsed \cup {m}
        BY <3>1, <4>2
      <4>5. needed = (s.needed \ {x}) \cup (MetadataOf(m) \ s.captured)
        BY <4>3
      <4>6. MetadataOf(m) \subseteq Files
        BY <4>2, MetadataFiles
      <4> HIDE DEF needed, parsed, more, done
      <4>7. needed \subseteq Files /\ parsed \subseteq Manifests
        BY <1>0, <4>2, <4>4, <4>5, <4>6
      <4>8. TakesIn(b, s, x, t)
        BY <1>3, <2>2, <2>4, <4>1, <4>4, <4>5 DEF TakesIn
      <4> QED
        BY <4>7, <4>8
    <3>2. CASE x[1] # "manifest"
      <4>1. parsed = s.parsed /\ needed = s.needed \ {x}
        BY <3>2
      <4> HIDE DEF needed, parsed, more, done
      <4>2. needed \subseteq Files /\ parsed \subseteq Manifests
        BY <1>0, <4>1
      <4>3. TakesIn(b, s, x, t)
        BY <1>3, <2>2, <2>4, <3>2, <4>1 DEF TakesIn
      <4> QED
        BY <4>2, <4>3
    <3> QED
      BY <3>1, <3>2
  <2>7. done \in BOOLEAN
    BY Zenon
  <2>8. t \in HandlerStates
    <3>1. needed \in SUBSET Files /\ parsed \in SUBSET Manifests /\ s.captured \cup {x} \in SUBSET Files
          /\ s.read + 1 \in Nat
      BY <1>0, <2>6
    <3> HIDE DEF needed, parsed, done
    <3> QED
      BY <2>1, <2>7, <3>1 DEF HandlerStates
  <2> QED
    BY <1>3, <2>6, <2>8
<1> QED
  BY <1>1, <1>2, <1>3

LEMMA SeeksOn ==
  ASSUME NEW b \in Bundles, NEW s, Seeking(b, s), NEW x, NEW t, TakesIn(b, s, x, t)
  PROVE  Seeking(b, t)
<1>0. /\ s.parsed \subseteq ManifestsOf(b)
      /\ \A m \in ManifestsOf(b) : m \in s.parsed <=> Manifest(m) \in s.captured
      /\ \A y : ~(y \in s.needed /\ y \in s.captured)
      /\ \A y : y \in s.needed \/ y \in s.captured <=> y \in Sought(b, s.parsed)
  BY DEF Seeking
<1>1. x \in s.needed /\ t.captured = s.captured \cup {x} /\ (t.done <=> t.needed = {} /\ AllParsed(b, t))
  BY DEF TakesIn
<1>2. ASSUME NEW m \in ManifestsOf(b), x = Manifest(m), t.parsed = s.parsed \cup {m},
             t.needed = (s.needed \ {x}) \cup (MetadataOf(m) \ s.captured)
      PROVE  Seeking(b, t)
  <2>1. x \notin MetadataOf(m)
    BY <1>2, MetadataIs, BlobKinds
  <2>2. \A k : Manifest(k) = x <=> k = m
    BY <1>2, BlobKinds
  <2>3. t.parsed \subseteq ManifestsOf(b)
    BY <1>0, <1>2
  <2>4. \A k \in ManifestsOf(b) : k \in t.parsed <=> Manifest(k) \in t.captured
    BY <1>0, <1>1, <1>2, <2>2
  <2>5. \A y : ~(y \in t.needed /\ y \in t.captured)
    BY <1>0, <1>1, <1>2, <2>1
  <2>6. \A y : y \in Sought(b, t.parsed) <=> y \in Sought(b, s.parsed) \/ y \in MetadataOf(m)
    BY <1>2, SoughtIs
  <2>7. \A y : y \in t.needed \/ y \in t.captured <=> y \in Sought(b, t.parsed)
    BY <1>0, <1>1, <1>2, <2>6
  <2> QED
    BY <1>1, <2>3, <2>4, <2>5, <2>7 DEF Seeking
<1>3. ASSUME x[1] # "manifest", t.parsed = s.parsed, t.needed = s.needed \ {x}
      PROVE  Seeking(b, t)
  <2>1. \A k : Manifest(k) # x
    BY <1>3, BlobKinds
  <2>2. t.parsed \subseteq ManifestsOf(b)
    BY <1>0, <1>3
  <2>3. \A k \in ManifestsOf(b) : k \in t.parsed <=> Manifest(k) \in t.captured
    BY <1>0, <1>1, <1>3, <2>1
  <2>4. \A y : ~(y \in t.needed /\ y \in t.captured)
    BY <1>0, <1>1, <1>3
  <2>5. \A y : y \in t.needed \/ y \in t.captured <=> y \in Sought(b, t.parsed)
    BY <1>0, <1>1, <1>3
  <2> QED
    BY <1>1, <2>2, <2>3, <2>4, <2>5 DEF Seeking
<1> QED
  BY <1>2, <1>3 DEF TakesIn

LEMMA PassedOver ==
  ASSUME NEW b, NEW s, ~s.done, Seeking(b, s), NEW x, NEW t, PassesOver(s, x, t)
  PROVE  Seeking(b, t)
BY DEF Seeking, PassesOver, AllParsed

\* One pass over a tarball: f[n] is what is known after n entries.
IsPass(f, b, s, e, N) == f = [n \in 0 .. N |-> IF n = 0 THEN s ELSE Handle(b, f[n - 1], e[n].blob)]

LEMMA PassExists ==
  ASSUME NEW b, NEW s, NEW e, NEW N \in Nat
  PROVE  \E f : IsPass(f, b, s, e, N)
<1> DEFINE Without == {n \in Nat : ~\E f : IsPass(f, b, s, e, n)}
<1>1. SUFFICES ASSUME Without # {} PROVE FALSE
  OBVIOUS
<1>2. PICK n \in Without : \A m \in Without : n <= m
  <2>1. Without \subseteq Nat
    OBVIOUS
  <2> QED
    BY <1>1, <2>1, Least
<1>3. n # 0
  <2> DEFINE u == [r \in 0 .. 0 |-> s]
  <2>1. IsPass(u, b, s, e, 0)
    BY DEF IsPass
  <2> QED
    BY <1>2, <2>1
<1>4. n \in Nat /\ n - 1 \in Nat
  BY <1>2, <1>3
<1>5. PICK u : IsPass(u, b, s, e, n - 1)
  BY <1>2, <1>4
<1> DEFINE v == [r \in 0 .. n |-> IF r = n THEN Handle(b, u[n - 1], e[n].blob) ELSE u[r]]
<1>6. ASSUME NEW r \in 0 .. n
      PROVE  v[r] = IF r = 0 THEN s ELSE Handle(b, v[r - 1], e[r].blob)
  <2>1. CASE r = n
    BY <1>3, <1>4, <2>1
  <2>2. CASE r # n
    <3>1. r \in 0 .. n - 1 /\ r - 1 # n
      BY <1>4, <2>2
    <3>2. u[r] = IF r = 0 THEN s ELSE Handle(b, u[r - 1], e[r].blob)
      BY <1>5, <3>1 DEF IsPass
    <3>3. r # 0 => v[r - 1] = u[r - 1]
      BY <1>4, <3>1
    <3>4. v[r] = u[r]
      BY <2>2
    <3> HIDE DEF v
    <3> QED
      BY <3>2, <3>3, <3>4
  <2> QED
    BY <2>1, <2>2
<1>7. v = [r \in 0 .. n |-> IF r = 0 THEN s ELSE Handle(b, v[r - 1], e[r].blob)]
  <2> DEFINE w == [r \in 0 .. n |-> IF r = 0 THEN s ELSE Handle(b, v[r - 1], e[r].blob)]
  <2>1. \A r \in 0 .. n : v[r] = w[r]
    BY <1>6
  <2>a. v = [r \in 0 .. n |-> v[r]]
    OBVIOUS
  <2> HIDE DEF v
  <2>b. w = [r \in 0 .. n |-> w[r]]
    OBVIOUS
  <2>2. v = [r \in 0 .. n |-> v[r]] /\ w = [r \in 0 .. n |-> w[r]]
    BY <2>a, <2>b
  <2> HIDE DEF w
  <2>3. v = w
    BY <2>1, <2>2
  <2> QED
    BY <2>3 DEF w
<1>8. IsPass(v, b, s, e, n)
  BY <1>7 DEF IsPass
<1> QED
  BY <1>2, <1>8

LEMMA RunPassIs ==
  ASSUME NEW b, NEW s, NEW e, Len(e) \in Nat
  PROVE  \E f : IsPass(f, b, s, e, Len(e)) /\ RunPass(b, s, e) = f[Len(e)]
<1> DEFINE N == Len(e)
           after == CHOOSE f : f = [n \in 0 .. N |-> IF n = 0 THEN s ELSE Handle(b, f[n - 1], e[n].blob)]
<1>1. \E f : IsPass(f, b, s, e, N)
  BY PassExists
<1>2. after = [n \in 0 .. N |-> IF n = 0 THEN s ELSE Handle(b, after[n - 1], e[n].blob)]
  <2> HIDE DEF N
  <2> QED
    BY <1>1 DEF IsPass
<1>3. RunPass(b, s, e) = after[N]
  BY DEF RunPass
<1> HIDE DEF after
<1>4. IsPass(after, b, s, e, N)
  BY <1>2 DEF IsPass
<1> QED
  BY <1>3, <1>4

\* It goes entry by entry.
GoesBy(f, b, s, e, N) ==
  f[0] = s /\ \A n \in 0 .. N : n # N => n + 1 \in 1 .. N /\ f[n + 1] = Handle(b, f[n], e[n + 1].blob)

LEMMA PassSteps ==
  ASSUME NEW b, NEW s, NEW e, NEW N \in Nat, NEW f, IsPass(f, b, s, e, N)
  PROVE  GoesBy(f, b, s, e, N)
<1>1. 0 \in 0 .. N
  OBVIOUS
<1>2. f[0] = s
  BY <1>1 DEF IsPass
<1>3. ASSUME NEW n \in 0 .. N, n # N
      PROVE  n + 1 \in 1 .. N /\ f[n + 1] = Handle(b, f[n], e[n + 1].blob)
  <2>1. n + 1 \in 0 .. N /\ n + 1 # 0 /\ (n + 1) - 1 = n /\ n + 1 \in 1 .. N
    BY <1>3
  <2>2. f[n + 1] = IF n + 1 = 0 THEN s ELSE Handle(b, f[(n + 1) - 1], e[n + 1].blob)
    BY <2>1 DEF IsPass
  <2> QED
    BY <2>1, <2>2
<1> QED
  BY <1>2, <1>3 DEF GoesBy


\* How the handler stands after n entries, having begun with s: what it has captured it had
\* or has read, and of what it has read it needs no manifest, nor anything once all the
\* manifests were known at the start.
Stands(b, s, e, n, t) ==
  /\ t \in HandlerStates /\ Seeking(b, t)
  /\ \A x \in t.captured : x \in s.captured \/ \E i \in 1 .. n : e[i].blob = x
  /\ \A i \in 1 .. n : e[i].blob \in t.needed => e[i].blob[1] # "manifest" /\ s.parsed # ManifestsOf(b)
  /\ s.parsed = ManifestsOf(b) => t.parsed = ManifestsOf(b)

LEMMA NothingYet ==
  ASSUME NEW b \in Bundles
  PROVE  Nothing(b) \in HandlerStates /\ Seeking(b, Nothing(b))
<1> DEFINE s == Nothing(b)
           N == {Manifest(m) : m \in ManifestsOf(b)}
<1>1. s = [needed |-> N, captured |-> {}, parsed |-> {}, read |-> 0, done |-> FALSE]
  BY DEF Nothing
<1>2. N \subseteq Files /\ N # {}
  <2>1. \A m \in Manifests : Manifest(m) \in Files
    BY DEF Files, Blobs
  <2>2. ManifestsOf(b) \subseteq Manifests
    BY ManifestsAre
  <2>3. 1 \in 1 .. Len(b.pkgs)
    BY BundleFacts
  <2>4. b.pkgs[1].manifest \in ManifestsOf(b)
    BY <2>3, ManifestsAre
  <2> QED
    BY <2>1, <2>2, <2>4
<1>3. \A x : x \in N <=> x \in Sought(b, {})
  BY SoughtIs
<1> HIDE DEF s, N
<1>4. s.needed = N /\ s.captured = {} /\ s.parsed = {} /\ ~s.done
  BY <1>1
<1>5. s \in HandlerStates
  BY <1>1, <1>2 DEF HandlerStates
<1>6. Seeking(b, s)
  BY <1>2, <1>3, <1>4 DEF Seeking
<1> QED
  BY <1>5, <1>6 DEF s

\* All the manifests are captured once all are known.
LEMMA KnowsAll ==
  ASSUME NEW b, NEW s, Seeking(b, s), s.parsed = ManifestsOf(b), NEW x \in s.needed
  PROVE  x[1] # "manifest" /\ \A m \in ManifestsOf(b) : x # Manifest(m)
<1>1. \A m \in ManifestsOf(b) : x # Manifest(m)
  BY DEF Seeking
<1>2. x \in Sought(b, s.parsed)
  BY DEF Seeking
<1>3. \E m \in s.parsed : x \in MetadataOf(m)
  BY <1>1, <1>2, SoughtIs
<1>4. x[1] = "layer"
  BY <1>3, MetadataIs, BlobKinds
<1> QED
  BY <1>1, <1>4

LEMMA StandsOn ==
  ASSUME NEW b \in Bundles, NEW s, NEW e, NEW n \in Nat, NEW u, Stands(b, s, e, n, u),
         e[n + 1].blob \in Files, NEW t, t = Handle(b, u, e[n + 1].blob)
  PROVE  Stands(b, s, e, n + 1, t)
<1> DEFINE x == e[n + 1].blob
<1>0. /\ u \in HandlerStates /\ Seeking(b, u)
      /\ \A y \in u.captured : y \in s.captured \/ \E i \in 1 .. n : e[i].blob = y
      /\ \A i \in 1 .. n : e[i].blob \in u.needed => e[i].blob[1] # "manifest" /\ s.parsed # ManifestsOf(b)
      /\ s.parsed = ManifestsOf(b) => u.parsed = ManifestsOf(b)
  BY DEF Stands
<1>1. /\ t \in HandlerStates
      /\ \/ u.done /\ t = u
         \/ ~u.done /\ PassesOver(u, x, t)
         \/ ~u.done /\ TakesIn(b, u, x, t)
  BY <1>0, HandleDoes
<1>2. \A i \in 1 .. n + 1 : i \in 1 .. n \/ i = n + 1
  OBVIOUS
<1>3. \A i \in 1 .. n : i \in 1 .. n + 1
  OBVIOUS
<1>4. n + 1 \in 1 .. n + 1
  OBVIOUS
<1> HIDE DEF x
<1>5. CASE u.done /\ t = u
  <2>1. t.needed = {}
    BY <1>0, <1>5 DEF Seeking
  <2> QED
    BY <1>0, <1>1, <1>3, <1>5, <2>1 DEF Stands
<1>6. CASE ~u.done /\ PassesOver(u, x, t)
  <2>1. Seeking(b, t)
    BY <1>0, <1>6, PassedOver
  <2>2. t.needed = u.needed /\ t.captured = u.captured /\ t.parsed = u.parsed /\ x \notin u.needed
    BY <1>6 DEF PassesOver
  <2>3. \A i \in 1 .. n + 1 : e[i].blob \in t.needed => e[i].blob[1] # "manifest" /\ s.parsed # ManifestsOf(b)
    BY <1>0, <1>2, <2>2 DEF x
  <2> QED
    BY <1>0, <1>1, <1>3, <2>1, <2>2, <2>3 DEF Stands
<1>7. CASE ~u.done /\ TakesIn(b, u, x, t)
  <2>1. Seeking(b, t)
    BY <1>0, <1>7, SeeksOn
  <2>2. x \in u.needed /\ t.captured = u.captured \cup {x}
    BY <1>7 DEF TakesIn
  <2>3. \A y \in t.captured : y \in s.captured \/ \E i \in 1 .. n + 1 : e[i].blob = y
    BY <1>0, <1>3, <1>4, <2>2 DEF x
  <2>4. x \notin t.needed
    BY <2>1, <2>2 DEF Seeking
  <2>5. \A y : y \in t.needed => y \in u.needed \/ (y[1] = "layer" /\ \E m \in ManifestsOf(b) : x = Manifest(m))
    <3>1. \A m : \A y \in MetadataOf(m) : y[1] = "layer"
      BY MetadataIs, BlobKinds
    <3> QED
      BY <1>7, <3>1 DEF TakesIn
  <2>6. s.parsed = ManifestsOf(b) => \A m \in ManifestsOf(b) : x # Manifest(m)
    BY <1>0, <2>2, KnowsAll
  <2>7. \A i \in 1 .. n + 1 : e[i].blob \in t.needed => e[i].blob[1] # "manifest" /\ s.parsed # ManifestsOf(b)
    BY <1>0, <1>2, <2>4, <2>5, <2>6 DEF x
  <2>8. s.parsed = ManifestsOf(b) => t.parsed = ManifestsOf(b)
    <3>1. t.parsed \subseteq ManifestsOf(b)
      BY <2>1 DEF Seeking
    <3> QED
      BY <1>0, <1>7, <3>1 DEF TakesIn
  <2> QED
    BY <1>1, <2>1, <2>3, <2>7, <2>8 DEF Stands
<1> QED
  BY <1>1, <1>5, <1>6, <1>7

\* A whole pass.
LEMMA PassStands ==
  ASSUME NEW b \in Bundles, NEW s \in HandlerStates, Seeking(b, s), NEW e, Len(e) \in Nat,
         \A i \in 1 .. Len(e) : e[i].blob \in Files
  PROVE  Stands(b, s, e, Len(e), RunPass(b, s, e))
<1> DEFINE N == Len(e)
<1>1. PICK f : IsPass(f, b, s, e, N) /\ RunPass(b, s, e) = f[N]
  BY RunPassIs
<1> DEFINE T == {n \in 0 .. N : Stands(b, s, e, n, f[n])}
<1>2. N \in Nat /\ N \in 0 .. N /\ 0 \in 0 .. N
  OBVIOUS
<1> HIDE DEF N, T
<1>a. IsPass(f, b, s, e, N)
  BY <1>1
<1>b. GoesBy(f, b, s, e, N)
  BY <1>2, <1>a, PassSteps
<1>3. f[0] = s /\ \A n \in 0 .. N : n # N => n + 1 \in 1 .. N /\ f[n + 1] = Handle(b, f[n], e[n + 1].blob)
  BY <1>b DEF GoesBy
<1>4. 0 \in T
  <2>1. Stands(b, s, e, 0, s)
    BY DEF Stands
  <2> QED
    BY <1>2, <1>3, <2>1 DEF T
<1>5. ASSUME NEW n \in 0 .. N, n # N, n \in T PROVE n + 1 \in T
  <2>1. Stands(b, s, e, n, f[n])
    BY <1>5 DEF T
  <2>2. n \in Nat /\ n + 1 \in 1 .. N /\ n + 1 \in 0 .. N /\ e[n + 1].blob \in Files
    BY <1>2, <1>3, <1>5 DEF N
  <2>3. f[n + 1] = Handle(b, f[n], e[n + 1].blob)
    BY <1>3, <1>5
  <2>4. Stands(b, s, e, n + 1, f[n + 1])
    BY <2>1, <2>2, <2>3, StandsOn
  <2> QED
    BY <2>2, <2>4 DEF T
<1>6. \A n \in 0 .. N : n # N /\ n \in T => n + 1 \in T
  BY <1>5
<1>7. \A n \in 0 .. N : n \in T
  BY <1>2, <1>4, <1>6, Upwards
<1>8. N \in T
  BY <1>2, <1>7
<1>9. Stands(b, s, e, N, f[N])
  BY <1>8 DEF T
<1> QED
  BY <1>1, <1>9 DEF N

\* A bundle whose entries are all of different packages has parsed them all when it has
\* parsed as many.
LEMMA ParsedAll ==
  ASSUME NEW b \in Bundles, Distinct(b), NEW s, s.parsed \subseteq ManifestsOf(b)
  PROVE  AllParsed(b, s) <=> s.parsed = ManifestsOf(b)
<1> DEFINE n == Len(b.pkgs)
           F == [i \in 1 .. n |-> b.pkgs[i].manifest]
           MS == {F[i] : i \in 1 .. n}
<1>1. n \in Nat
  BY BundleFacts
<1>2. IsFiniteSet(1 .. n)
  BY <1>1, FS_Interval
<1>3. IsFiniteSet(ManifestsOf(b))
  <2>1. \A m : m \in ManifestsOf(b) <=> \E i \in 1 .. n : m = b.pkgs[i].manifest
    BY ManifestsAre
  <2> HIDE DEF n
  <2>2. ManifestsOf(b) = MS
    BY <2>1
  <2> HIDE DEF F
  <2>3. IsFiniteSet(MS)
    BY <1>2, Images
  <2> QED
    BY <2>2, <2>3
<1>4. Cardinality(ManifestsOf(b)) = n
  BY DEF Distinct
<1>5. Cardinality(s.parsed) = Cardinality(ManifestsOf(b)) => s.parsed = ManifestsOf(b)
  BY <1>3, FS_Subset
<1> QED
  BY <1>4, <1>5 DEF AllParsed

\* What there is of a package's metadata is among the paths of the bundle.
LEMMA SoughtInPaths ==
  ASSUME NEW b \in Bundles
  PROVE  Sought(b, ManifestsOf(b)) \subseteq Paths(b)
<1>1. ASSUME NEW m \in ManifestsOf(b), NEW x \in MetadataOf(m) PROVE x \in Paths(b)
  <2>1. PICK i \in 1 .. Len(b.pkgs) : m = b.pkgs[i].manifest
    BY ManifestsAre
  <2>2. PICK l \in ToSet(Contents[m]) : IsMetadata(l) /\ x = BlobOf(l)
    BY MetadataIs
  <2>3. DOMAIN b.pkgs = 1 .. Len(b.pkgs) /\ BundleOK(b)
    BY BundleFacts, LocalAssumption
  <2>4. l \in b.pkgs[i].want
    BY <2>1, <2>2, <2>3 DEF BundleOK, IsMetadata
  <2> QED
    BY <2>2, <2>4, PathsAre
<1>2. ASSUME NEW m \in ManifestsOf(b) PROVE Manifest(m) \in Paths(b)
  <2>1. PICK i \in 1 .. Len(b.pkgs) : m = b.pkgs[i].manifest
    BY ManifestsAre
  <2> QED
    BY <2>1, PathsAre
<1> QED
  BY <1>1, <1>2, SoughtIs

\* What one or two passes come to: nothing is captured that is not in the tarball, and of a
\* tarball with nothing missing nothing is needed any more.
InTarball(e, x) == \E i \in 1 .. Len(e) : e[i].blob = x
Complete(b, e) == \A x \in Paths(b) : InTarball(e, x)
Finds(b, e, s) ==
  /\ s \in HandlerStates /\ Seeking(b, s)
  /\ \A x \in s.captured : InTarball(e, x)
  /\ Complete(b, e) => s.needed = {} /\ s.parsed = ManifestsOf(b)

LEMMA FindsInFirst ==
  ASSUME NEW b \in Bundles, Distinct(b), NEW e, Len(e) \in Nat, \A i \in 1 .. Len(e) : e[i].blob \in Files,
         NEW s, Stands(b, Nothing(b), e, Len(e), s)
  PROVE  /\ s \in HandlerStates /\ Seeking(b, s) /\ \A x \in s.captured : InTarball(e, x)
         /\ Complete(b, e) => s.parsed = ManifestsOf(b)
<1>1. Nothing(b).captured = {}
  BY DEF Nothing
<1>2. /\ s \in HandlerStates /\ Seeking(b, s) /\ \A x \in s.captured : InTarball(e, x)
  BY <1>1 DEF Stands, InTarball
<1>3. ASSUME Complete(b, e), NEW m \in ManifestsOf(b) PROVE m \in s.parsed
  <2>1. \A p : Manifest(m) \in Sought(b, p)
    BY SoughtIs
  <2>2. InTarball(e, Manifest(m))
    BY <1>3, <2>1, SoughtInPaths DEF Complete
  <2>3. Manifest(m) \notin s.needed
    BY <2>2, BlobKinds DEF InTarball, Stands
  <2> QED
    BY <1>2, <2>1, <2>3 DEF Seeking
<1>4. s.parsed \subseteq ManifestsOf(b)
  BY <1>2 DEF Seeking
<1> QED
  BY <1>2, <1>3, <1>4

LEMMA PassesFind ==
  ASSUME NEW b \in Bundles, Distinct(b), NEW e, Len(e) \in Nat, \A i \in 1 .. Len(e) : e[i].blob \in Files
  PROVE  Finds(b, e, Passes(b, e))
<1> DEFINE s == Nothing(b)
           first == RunPass(b, s, e)
           second == RunPass(b, first, e)
<1>1. s \in HandlerStates /\ Seeking(b, s)
  BY NothingYet
<1>2. Stands(b, s, e, Len(e), first)
  <2> HIDE DEF s
  <2> QED
    BY <1>1, PassStands
<1>3. Passes(b, e) = IF first.needed # {} /\ AllParsed(b, first) THEN second ELSE first
  BY DEF Passes
<1> HIDE DEF first, second
<1>4. /\ first \in HandlerStates /\ Seeking(b, first) /\ \A x \in first.captured : InTarball(e, x)
      /\ Complete(b, e) => first.parsed = ManifestsOf(b)
  BY <1>2, FindsInFirst
<1>5. first.parsed \subseteq ManifestsOf(b)
  BY <1>4 DEF Seeking
<1>6. AllParsed(b, first) <=> first.parsed = ManifestsOf(b)
  BY <1>5, ParsedAll
<1>7. CASE first.needed # {} /\ AllParsed(b, first)
  <2>1. Stands(b, first, e, Len(e), second)
    BY <1>4, PassStands DEF second
  <2>2. second \in HandlerStates /\ Seeking(b, second) /\ second.parsed = ManifestsOf(b)
    BY <1>6, <1>7, <2>1 DEF Stands
  <2>3. \A x \in second.captured : InTarball(e, x)
    BY <1>4, <2>1 DEF Stands, InTarball
  <2>4. \A x : InTarball(e, x) => x \notin second.needed
    BY <1>6, <1>7, <2>1 DEF Stands, InTarball
  <2>5. \A x \in second.needed : x \in Sought(b, ManifestsOf(b))
    BY <2>2 DEF Seeking
  <2>6. Complete(b, e) => second.needed = {}
    BY <2>4, <2>5, SoughtInPaths DEF Complete
  <2>7. Passes(b, e) = second
    BY <1>3, <1>7
  <2> QED
    BY <2>2, <2>3, <2>6, <2>7 DEF Finds
<1>8. CASE ~(first.needed # {} /\ AllParsed(b, first))
  <2>1. Passes(b, e) = first
    BY <1>3, <1>8
  <2>2. Complete(b, e) => first.needed = {}
    BY <1>4, <1>6, <1>8
  <2> QED
    BY <1>4, <2>1, <2>2 DEF Finds
<1> QED
  BY <1>7, <1>8

\* What the prefetch has of a package when it does not give up, and what there is.
LEMMA PrefetchAgrees ==
  ASSUME NEW b \in Bundles, Distinct(b), NEW e, Len(e) \in Nat, DOMAIN e = 1 .. Len(e), NEW s, Finds(b, e, s)
  PROVE  /\ Complete(b, e) => ~GivesUp(b, s)
         /\ \A p \in PackagesOf(b) : GetMetadata(b, s, e, p) = Extracted(e, p)
         /\ Complete(b, e) => \A p \in PackagesOf(b) : Extracted(e, p) = Fetched(p)
<1>0. Seeking(b, s) /\ s.parsed \subseteq ManifestsOf(b)
  BY DEF Finds, Seeking
<1>1. AllParsed(b, s) <=> s.parsed = ManifestsOf(b)
  BY <1>0, ParsedAll
<1>2. \A p \in PackagesOf(b) : p.manifest \in ManifestsOf(b)
  BY DEF ManifestsOf
<1>3. \A m \in ManifestsOf(b) : \E p \in PackagesOf(b) : m = p.manifest
  BY DEF ManifestsOf
<1>4. ASSUME s.needed = {}, s.parsed = ManifestsOf(b), NEW m \in ManifestsOf(b), NEW l \in ToSet(Contents[m]), IsMetadata(l)
      PROVE  BlobOf(l) \in s.captured
  <2>1. BlobOf(l) \in MetadataOf(m)
    BY <1>4, MetadataIs
  <2>2. BlobOf(l) \in Sought(b, s.parsed)
    BY <1>4, <2>1, SoughtIs
  <2> QED
    BY <1>0, <1>4, <2>2 DEF Seeking
<1>5. Complete(b, e) => ~GivesUp(b, s)
  <2>1. SUFFICES ASSUME Complete(b, e) PROVE ~GivesUp(b, s)
    OBVIOUS
  <2>2. s.needed = {} /\ s.parsed = ManifestsOf(b)
    BY <2>1 DEF Finds
  <2>3. ASSUME NEW p \in PackagesOf(b)
        PROVE  p.manifest \in s.parsed /\ \E l \in ToSet(Contents[p.manifest]) : Kind[l] = "zarf.yaml" /\ BlobOf(l) \in s.captured
    <3>1. p.manifest \in ManifestsOf(b) /\ p.manifest \in Manifests
      BY <1>2, ManifestsAre
    <3>2. PICK l \in ToSet(Contents[p.manifest]) : Kind[l] = "zarf.yaml"
      BY <3>1, LocalAssumption
    <3>3. IsMetadata(l)
      BY <3>2 DEF IsMetadata
    <3>4. BlobOf(l) \in s.captured
      BY <1>4, <2>2, <3>1, <3>3
    <3> QED
      BY <2>2, <3>1, <3>2, <3>4
  <2> QED
    BY <2>2, <2>3 DEF GivesUp
<1>6. ASSUME ~GivesUp(b, s) PROVE s.needed = {} /\ s.parsed = ManifestsOf(b)
  <2>1. \A p \in PackagesOf(b) : p.manifest \in s.parsed
    BY <1>6 DEF GivesUp
  <2>2. s.parsed = ManifestsOf(b)
    BY <1>0, <1>3, <2>1
  <2> QED
    BY <1>1, <1>6, <2>2 DEF GivesUp
<1>7. ASSUME NEW p \in PackagesOf(b), ~GivesUp(b, s) PROVE GetMetadata(b, s, e, p) = Extracted(e, p)
  <2>1. s.needed = {} /\ s.parsed = ManifestsOf(b) /\ p.manifest \in ManifestsOf(b)
    BY <1>2, <1>6, <1>7
  <2>2. \A l \in ToSet(Contents[p.manifest]) : IsMetadata(l) => BlobOf(l) \in s.captured
    BY <1>4, <2>1
  <2>3. \A l : BlobOf(l) \in s.captured => \E i \in DOMAIN e : e[i].blob = BlobOf(l)
    BY DEF Finds, InTarball
  <2>4. GetMetadata(b, s, e, p) = Prefetched(s, p)
    BY <1>7 DEF GetMetadata
  <2> QED
    BY <2>2, <2>3, <2>4 DEF Prefetched, Extracted
<1>8. \A p \in PackagesOf(b) : GetMetadata(b, s, e, p) = Extracted(e, p)
  BY <1>7 DEF GetMetadata
<1>9. ASSUME Complete(b, e), NEW p \in PackagesOf(b) PROVE Extracted(e, p) = Fetched(p)
  <2>1. p.manifest \in ManifestsOf(b)
    BY <1>2
  <2>2. ASSUME NEW l \in ToSet(Contents[p.manifest]), IsMetadata(l) PROVE \E i \in DOMAIN e : e[i].blob = BlobOf(l)
    <3>1. BlobOf(l) \in MetadataOf(p.manifest)
      BY <2>2, MetadataIs
    <3>2. BlobOf(l) \in Sought(b, ManifestsOf(b))
      BY <2>1, <3>1, SoughtIs
    <3>3. BlobOf(l) \in Paths(b)
      BY <3>2, SoughtInPaths
    <3> QED
      BY <1>9, <3>3 DEF Complete, InTarball
  <2> QED
    BY <2>2 DEF Extracted, Fetched
<1> QED
  BY <1>5, <1>8, <1>9

\* The ranks of what the prefetch seeks: a package's manifest is before its metadata, and
\* both are before all that is neither.
OwnBlobs(b) == {OciLayout, Index, Root(b), Config, Yaml(b)}

LEMMA InFrontIs ==
  ASSUME NEW p, NEW x
  PROVE  x \in InFront(p) <=> x = Manifest(p.manifest) \/ x \in MetadataOf(p.manifest)
BY DEF InFront, MetadataOf

LEMMA NotOwn ==
  ASSUME NEW b
  PROVE  (\A l : BlobOf(l) \notin OwnBlobs(b)) /\ (\A m : Manifest(m) \notin OwnBlobs(b))
<1>1. \A x \in OwnBlobs(b) : x[1] \in {"file", "root", "config", "yaml"}
  BY DEF OwnBlobs, OciLayout, Index, Root, Config, Yaml
<1>2. (\A l : BlobOf(l) \notin OwnBlobs(b)) /\ (\A m : Manifest(m) \notin OwnBlobs(b))
  BY <1>1, BlobKinds
<1> QED
  BY <1>2

RankedAt(b, x, k) ==
  /\ Rank(b)[x] = 2 * k + Turn(x) /\ x \in InFront(b.pkgs[k])
  /\ \A j \in 1 .. Len(b.pkgs) : x \in InFront(b.pkgs[j]) => j <= k

LEMMA RankInFront ==
  ASSUME NEW b \in Bundles, NEW x \in Paths(b), x \notin OwnBlobs(b),
         NEW i \in 1 .. Len(b.pkgs), x \in InFront(b.pkgs[i])
  PROVE  \E k \in 1 .. Len(b.pkgs) : RankedAt(b, x, k)
<1> DEFINE n == Len(b.pkgs)
           Listing == {j \in DOMAIN b.pkgs : x \in InFront(b.pkgs[j])}
           Latest == CHOOSE j \in Listing : \A k \in Listing : k <= j
<1>1. n \in Nat /\ DOMAIN b.pkgs = 1 .. n
  BY BundleFacts
<1>2. Rank(b)[x] = IF x \in {OciLayout, Index, Root(b), Config, Yaml(b)} THEN 0
                   ELSE IF Listing # {} THEN 2 * Latest + Turn(x) ELSE 2 * n + 2
  BY DEF Rank
<1>3. \A j : j \in Listing <=> j \in 1 .. n /\ x \in InFront(b.pkgs[j])
  BY <1>1
<1>4. Listing \subseteq 1 .. n /\ Listing # {}
  BY <1>3
<1>5. Latest \in Listing /\ \A j \in Listing : j <= Latest
  <2>1. \E j \in Listing : \A k \in Listing : k <= j
    <3> HIDE DEF Listing
    <3> QED
      BY <1>1, <1>4, Greatest
  <2> QED
    BY <2>1
<1> HIDE DEF Listing, Latest
<1>6. Rank(b)[x] = 2 * Latest + Turn(x)
  BY <1>2, <1>4 DEF OwnBlobs
<1> QED
  BY <1>3, <1>5, <1>6 DEF RankedAt

LEMMA RankBehind ==
  ASSUME NEW b \in Bundles, NEW x \in Paths(b), x \notin OwnBlobs(b),
         \A i \in 1 .. Len(b.pkgs) : x \notin InFront(b.pkgs[i])
  PROVE  Rank(b)[x] = 2 * Len(b.pkgs) + 2
<1> DEFINE n == Len(b.pkgs)
           Listing == {j \in DOMAIN b.pkgs : x \in InFront(b.pkgs[j])}
           Latest == CHOOSE j \in Listing : \A k \in Listing : k <= j
<1>1. DOMAIN b.pkgs = 1 .. n
  BY BundleFacts
<1>2. Rank(b)[x] = IF x \in {OciLayout, Index, Root(b), Config, Yaml(b)} THEN 0
                   ELSE IF Listing # {} THEN 2 * Latest + Turn(x) ELSE 2 * n + 2
  BY DEF Rank
<1>3. Listing = {}
  BY <1>1
<1> HIDE DEF Listing, Latest
<1> QED
  BY <1>2, <1>3 DEF OwnBlobs

LEMMA ManifestThenMetadata ==
  ASSUME NEW b \in Bundles, NEW m \in ManifestsOf(b), NEW x \in MetadataOf(m)
  PROVE  Rank(b)[Manifest(m)] < Rank(b)[x]
<1>1. PICK i \in 1 .. Len(b.pkgs) : m = b.pkgs[i].manifest
  BY ManifestsAre
<1>2. Manifest(m) \in Sought(b, ManifestsOf(b)) /\ x \in Sought(b, ManifestsOf(b))
  BY SoughtIs
<1>3. Manifest(m) \in Paths(b) /\ x \in Paths(b)
  BY <1>2, SoughtInPaths
<1>4. PICK l : x = BlobOf(l)
  BY MetadataIs
<1>5. Manifest(m) \notin OwnBlobs(b) /\ x \notin OwnBlobs(b)
  BY <1>4, NotOwn
<1>6. Manifest(m) \in InFront(b.pkgs[i])
  BY <1>1, InFrontIs
<1>7. PICK k \in 1 .. Len(b.pkgs) : RankedAt(b, Manifest(m), k)
  BY <1>3, <1>5, <1>6, RankInFront
<1>8. x \in InFront(b.pkgs[k])
  <2>1. Manifest(m) \in InFront(b.pkgs[k])
    BY <1>7 DEF RankedAt
  <2>2. Manifest(m) \notin MetadataOf(b.pkgs[k].manifest)
    BY MetadataIs, BlobKinds
  <2>3. b.pkgs[k].manifest = m
    BY <2>1, <2>2, InFrontIs, BlobKinds
  <2> QED
    BY <2>3, InFrontIs
<1>9. PICK q \in 1 .. Len(b.pkgs) : RankedAt(b, x, q)
  BY <1>3, <1>5, <1>8, RankInFront
<1>10. k <= q
  BY <1>8, <1>9 DEF RankedAt
<1>11. Turn(Manifest(m)) = 0 /\ Turn(x) = 1
  BY <1>4, BlobKinds DEF Turn
<1>12. Rank(b)[Manifest(m)] = 2 * k /\ Rank(b)[x] = 2 * q + 1
  BY <1>7, <1>9, <1>11 DEF RankedAt
<1>13. k \in Int /\ q \in Int
  OBVIOUS
<1> QED
  BY <1>10, <1>12, <1>13

LEMMA SoughtBeforeOthers ==
  ASSUME NEW b \in Bundles, NEW x \in Sought(b, ManifestsOf(b)), NEW l, BlobOf(l) \in Paths(b), ~IsMetadata(l)
  PROVE  Rank(b)[x] < Rank(b)[BlobOf(l)]
<1>0. Len(b.pkgs) \in Nat
  BY BundleFacts
<1>1. Rank(b)[BlobOf(l)] = 2 * Len(b.pkgs) + 2
  <2>1. \A m : BlobOf(l) # Manifest(m) /\ BlobOf(l) \notin MetadataOf(m)
    BY MetadataIs, BlobKinds
  <2>2. \A i \in 1 .. Len(b.pkgs) : BlobOf(l) \notin InFront(b.pkgs[i])
    BY <2>1, InFrontIs
  <2> QED
    BY <2>2, NotOwn, RankBehind
<1>2. x \in Paths(b) /\ x \notin OwnBlobs(b)
  BY SoughtInPaths, SoughtIs, MetadataIs, NotOwn
<1>3. PICK m \in ManifestsOf(b) : x = Manifest(m) \/ x \in MetadataOf(m)
  BY SoughtIs
<1>4. PICK i \in 1 .. Len(b.pkgs) : m = b.pkgs[i].manifest
  BY ManifestsAre
<1>5. x \in InFront(b.pkgs[i])
  BY <1>3, <1>4, InFrontIs
<1>6. PICK k \in 1 .. Len(b.pkgs) : RankedAt(b, x, k)
  BY <1>2, <1>5, RankInFront
<1>7. Rank(b)[x] = 2 * k \/ Rank(b)[x] = 2 * k + 1
  <2>1. Turn(x) = 0 \/ Turn(x) = 1
    BY DEF Turn
  <2> QED
    BY <1>6, <2>1 DEF RankedAt
<1>8. k \in Int /\ k <= Len(b.pkgs)
  BY <1>0
<1> QED
  BY <1>0, <1>1, <1>7, <1>8

\* A tarball with nothing missing and nothing else, in the order of the ranks, has been read
\* to n: nothing read is needed any more, and no component and no image has been read.
WellOrdered(b, e) ==
  /\ \A i \in 1 .. Len(e) : e[i].blob \in Paths(b)
  /\ \A i, j \in 1 .. Len(e) : i <= j => Rank(b)[e[i].blob] <= Rank(b)[e[j].blob]
MetadataAlone(e, r) == \A i \in 1 .. r : e[i].blob[1] = "layer" => IsMetadata(e[i].blob[2])
InTurn(e, n, t) ==
  /\ \A i \in 1 .. n : e[i].blob \notin t.needed
  /\ t.read \in 0 .. n /\ (t.done \/ t.read = n)
  /\ MetadataAlone(e, t.read)

LEMMA LayerPaths ==
  ASSUME NEW b \in Bundles, NEW x \in Paths(b), x[1] = "layer"
  PROVE  x = BlobOf(x[2])
<1>1. \A y \in OwnBlobs(b) : y[1] \in {"file", "root", "config", "yaml"}
  BY DEF OwnBlobs, OciLayout, Index, Root, Config, Yaml
<1>2. x \notin OwnBlobs(b)
  BY <1>1
<1>3. \A m : x # Manifest(m)
  BY BlobKinds
<1>4. \E l : x = BlobOf(l)
  BY <1>2, <1>3, PathsAre DEF OwnBlobs
<1> QED
  BY <1>4, BlobKinds

\* While anything is needed no component and no image comes.
LEMMA NothingElseYet ==
  ASSUME NEW b \in Bundles, Distinct(b), NEW e, Len(e) \in Nat, Complete(b, e), WellOrdered(b, e),
         NEW n \in Nat, n + 1 \in 1 .. Len(e), NEW u, Seeking(b, u), InTurn(e, n, u), ~u.done,
         e[n + 1].blob[1] = "layer"
  PROVE  IsMetadata(e[n + 1].blob[2])
<1> DEFINE x == e[n + 1].blob
           l == x[2]
<1>1. SUFFICES ASSUME ~IsMetadata(l) PROVE FALSE
  OBVIOUS
<1>2. x \in Paths(b)
  BY DEF WellOrdered
<1>3. x = BlobOf(l)
  BY <1>2, LayerPaths
<1> HIDE DEF l
<1>4. ASSUME NEW y \in u.needed PROVE FALSE
  <2>1. y \in Sought(b, u.parsed) /\ u.parsed \subseteq ManifestsOf(b)
    BY DEF Seeking
  <2>2. y \in Sought(b, ManifestsOf(b))
    BY <2>1, SoughtIs
  <2>3. Rank(b)[y] < Rank(b)[x]
    BY <1>1, <1>2, <1>3, <2>2, SoughtBeforeOthers
  <2>4. y \in Paths(b)
    BY <2>2, SoughtInPaths
  <2>5. PICK i \in 1 .. Len(e) : e[i].blob = y
    BY <2>4 DEF Complete, InTarball
  <2>6. i \notin 1 .. n
    BY <2>5 DEF InTurn
  <2>7. n + 1 <= i
    BY <2>6
  <2>8. Rank(b)[x] <= Rank(b)[y]
    BY <2>5, <2>7 DEF WellOrdered
  <2>9. Rank(b)[x] \in Int /\ Rank(b)[y] \in Int
    BY <1>2, <2>4, RankBound, BundleFacts
  <2> QED
    BY <2>3, <2>8, <2>9
<1>5. u.needed = {}
  BY <1>4
<1>6. \A m \in ManifestsOf(b) : m \in u.parsed
  <2>1. \A m \in ManifestsOf(b) : Manifest(m) \in Sought(b, u.parsed)
    BY SoughtIs
  <2> QED
    BY <1>5, <2>1 DEF Seeking
<1>7. u.parsed = ManifestsOf(b)
  BY <1>6 DEF Seeking
<1>8. AllParsed(b, u)
  BY <1>7, ParsedAll
<1> QED
  BY <1>5, <1>8 DEF Seeking

LEMMA InTurnOn ==
  ASSUME NEW b \in Bundles, Distinct(b), NEW e, Len(e) \in Nat, Complete(b, e), WellOrdered(b, e),
         NEW n \in Nat, n + 1 \in 1 .. Len(e), e[n + 1].blob \in Files,
         NEW u \in HandlerStates, Seeking(b, u), InTurn(e, n, u),
         NEW t, t = Handle(b, u, e[n + 1].blob)
  PROVE  InTurn(e, n + 1, t)
<1> DEFINE x == e[n + 1].blob
<1>1. \/ u.done /\ t = u
      \/ ~u.done /\ PassesOver(u, x, t)
      \/ ~u.done /\ TakesIn(b, u, x, t)
  BY HandleDoes
<1>2. \A i \in 1 .. n + 1 : i \in 1 .. n \/ i = n + 1
  OBVIOUS
<1>3. /\ \A i \in 1 .. n : e[i].blob \notin u.needed
      /\ u.read \in 0 .. n /\ (u.done \/ u.read = n)
      /\ MetadataAlone(e, u.read)
  BY DEF InTurn
<1>4. ~u.done => MetadataAlone(e, n + 1)
  <2>1. SUFFICES ASSUME ~u.done PROVE MetadataAlone(e, n + 1)
    OBVIOUS
  <2>2. x[1] = "layer" => IsMetadata(x[2])
    BY <2>1, NothingElseYet
  <2>3. MetadataAlone(e, n)
    BY <1>3, <2>1
  <2> QED
    BY <1>2, <2>2, <2>3 DEF MetadataAlone
<1>5. CASE u.done /\ t = u
  <2>1. t.needed = {}
    BY <1>5 DEF Seeking
  <2>2. t.read \in 0 .. n + 1
    BY <1>3, <1>5
  <2> QED
    BY <1>3, <1>5, <2>1, <2>2 DEF InTurn
<1>6. CASE ~u.done /\ PassesOver(u, x, t)
  <2>1. t.needed = u.needed /\ x \notin u.needed /\ t.read = u.read + 1
    BY <1>6 DEF PassesOver
  <2>2. t.read = n + 1
    BY <1>3, <1>6, <2>1
  <2>3. \A i \in 1 .. n + 1 : e[i].blob \notin t.needed
    BY <1>2, <1>3, <2>1
  <2> QED
    BY <1>4, <1>6, <2>2, <2>3 DEF InTurn
<1>7. CASE ~u.done /\ TakesIn(b, u, x, t)
  <2>1. t.read = u.read + 1 /\ x \in u.needed /\ t.captured = u.captured \cup {x}
    BY <1>7 DEF TakesIn
  <2>2. t.read = n + 1
    BY <1>3, <1>7, <2>1
  <2>3. Seeking(b, t)
    BY <1>7, SeeksOn
  <2>4. x \notin t.needed
    BY <2>1, <2>3 DEF Seeking
  <2>5. ASSUME NEW i \in 1 .. n PROVE e[i].blob \notin t.needed
    <3>1. SUFFICES ASSUME NEW m \in ManifestsOf(b), x = Manifest(m), e[i].blob \in MetadataOf(m) PROVE FALSE
      BY <1>3, <1>7 DEF TakesIn
    <3>2. Rank(b)[x] < Rank(b)[e[i].blob]
      BY <3>1, ManifestThenMetadata
    <3>3. i \in 1 .. Len(e) /\ i <= n + 1
      OBVIOUS
    <3>4. Rank(b)[e[i].blob] <= Rank(b)[x] /\ x \in Paths(b) /\ e[i].blob \in Paths(b)
      BY <3>3 DEF WellOrdered
    <3>5. Rank(b)[x] \in Int /\ Rank(b)[e[i].blob] \in Int
      BY <3>4, RankBound, BundleFacts
    <3> QED
      BY <3>2, <3>4, <3>5
  <2>6. \A i \in 1 .. n + 1 : e[i].blob \notin t.needed
    BY <1>2, <2>4, <2>5
  <2> QED
    BY <1>4, <1>7, <2>2, <2>6 DEF InTurn
<1> QED
  BY <1>1, <1>5, <1>6, <1>7

\* Of such a tarball one pass reads the metadata and stops before all else.
LEMMA StopsEarly ==
  ASSUME NEW b \in Bundles, Distinct(b), NEW e, Len(e) \in Nat, Complete(b, e), WellOrdered(b, e),
         \A i \in 1 .. Len(e) : e[i].blob \in Files
  PROVE  MetadataAlone(e, Passes(b, e).read)
<1> DEFINE N == Len(e)
           s == Nothing(b)
           first == RunPass(b, s, e)
<1>1. PICK f : IsPass(f, b, s, e, N) /\ first = f[N]
  BY RunPassIs
<1> DEFINE T == {n \in 0 .. N : Stands(b, s, e, n, f[n]) /\ InTurn(e, n, f[n])}
<1>2. N \in Nat /\ N \in 0 .. N /\ 0 \in 0 .. N
  OBVIOUS
<1>3. s \in HandlerStates /\ Seeking(b, s)
  BY NothingYet
<1>4. s.read = 0
  BY DEF Nothing
<1>5. Passes(b, e) = IF first.needed # {} /\ AllParsed(b, first) THEN RunPass(b, first, e) ELSE first
  BY DEF Passes
<1> HIDE DEF N, T, s, first
<1>6. IsPass(f, b, s, e, N)
  BY <1>1
<1>7. GoesBy(f, b, s, e, N)
  BY <1>2, <1>6, PassSteps
<1>8. f[0] = s /\ \A n \in 0 .. N : n # N => n + 1 \in 1 .. N /\ f[n + 1] = Handle(b, f[n], e[n + 1].blob)
  BY <1>7 DEF GoesBy
<1>9. 0 \in T
  <2>1. Stands(b, s, e, 0, s)
    BY <1>3 DEF Stands
  <2>2. InTurn(e, 0, s)
    BY <1>4 DEF InTurn, MetadataAlone
  <2> QED
    BY <1>2, <1>8, <2>1, <2>2 DEF T
<1>10. ASSUME NEW n \in 0 .. N, n # N, n \in T PROVE n + 1 \in T
  <2>1. Stands(b, s, e, n, f[n]) /\ InTurn(e, n, f[n])
    BY <1>10 DEF T
  <2>2. n \in Nat /\ n + 1 \in 1 .. Len(e) /\ n + 1 \in 0 .. N /\ e[n + 1].blob \in Files
    BY <1>2, <1>8, <1>10 DEF N
  <2>3. f[n + 1] = Handle(b, f[n], e[n + 1].blob)
    BY <1>8, <1>10
  <2>4. Stands(b, s, e, n + 1, f[n + 1])
    BY <2>1, <2>2, <2>3, StandsOn
  <2>5. f[n] \in HandlerStates /\ Seeking(b, f[n])
    BY <2>1 DEF Stands
  <2>6. InTurn(e, n + 1, f[n + 1])
    BY <2>1, <2>2, <2>3, <2>5, InTurnOn
  <2> QED
    BY <2>2, <2>4, <2>6 DEF T
<1>11. \A n \in 0 .. N : n # N /\ n \in T => n + 1 \in T
  BY <1>10
<1>12. \A n \in 0 .. N : n \in T
  BY <1>2, <1>9, <1>11, Upwards
<1>13. Stands(b, s, e, N, first) /\ InTurn(e, N, first)
  BY <1>1, <1>2, <1>12 DEF T
<1>14. first.needed = {}
  <2>1. Seeking(b, first)
    BY <1>13 DEF Stands
  <2>2. first.needed \subseteq Sought(b, ManifestsOf(b))
    BY <2>1, SoughtIs DEF Seeking
  <2>3. \A x \in first.needed : InTarball(e, x)
    BY <2>2, SoughtInPaths DEF Complete
  <2> QED
    BY <1>13, <2>3 DEF InTurn, InTarball, N
<1>15. Passes(b, e) = first
  BY <1>5, <1>14
<1>16. MetadataAlone(e, first.read)
  BY <1>13 DEF InTurn
<1> QED
  BY <1>15, <1>16

LEMMA TarballIs ==
  ASSUME LocalInv, outcome = "ok"
  PROVE  /\ Of \in Bundles /\ Len(archive.entries) \in Nat /\ DOMAIN archive.entries = 1 .. Len(archive.entries)
         /\ \A i \in 1 .. Len(archive.entries) : archive.entries[i].blob \in Files
         /\ \A x : x \in Held <=> InTarball(archive.entries, x)
         /\ Paths(Of) \subseteq Held => Complete(Of, archive.entries)
<1>1. archive \in LocalArchives
  BY DEF LocalInv, Typed
<1>2. /\ Len(archive.entries) \in Nat /\ DOMAIN archive.entries = 1 .. Len(archive.entries)
      /\ \A i \in 1 .. Len(archive.entries) : archive.entries[i].blob \in Files
  <2> DEFINE E == [blob : Files, is : {"absent", "cut", "whole"}]
  <2>1. archive.entries \in Seq(E) /\ \A r \in E : r.blob \in Files
    BY <1>1 DEF LocalArchives
  <2> HIDE DEF E
  <2> QED
    BY <2>1
<1>3. \A x : x \in Held <=> InTarball(archive.entries, x)
  BY <1>2 DEF Held, InTarball
<1>4. Of \in Bundles
  BY OfIs DEF LocalInv, Success
<1> QED
  BY <1>2, <1>3, <1>4 DEF Complete

LEMMA InspectDoesAgree ==
  ASSUME LocalInv, outcome = "ok", Distinct(Of)
  PROVE  InspectAgrees
<1> DEFINE e == archive.entries
           s == Passes(Of, e)
           whole == Paths(Of) \subseteq Held
<1>1. /\ Of \in Bundles /\ Len(e) \in Nat /\ DOMAIN e = 1 .. Len(e)
      /\ \A i \in 1 .. Len(e) : e[i].blob \in Files
      /\ whole => Complete(Of, e)
  BY TarballIs
<1>2. Finds(Of, e, s)
  BY <1>1, PassesFind
<1>3. /\ Complete(Of, e) => ~GivesUp(Of, s)
      /\ \A p \in PackagesOf(Of) : GetMetadata(Of, s, e, p) = Extracted(e, p)
      /\ Complete(Of, e) => \A p \in PackagesOf(Of) : Extracted(e, p) = Fetched(p)
  <2> HIDE DEF e, s
  <2> QED
    BY <1>1, <1>2, PrefetchAgrees
<1>4. whole /\ archive.by = "create" => MetadataAlone(e, s.read)
  <2>1. SUFFICES ASSUME whole, archive.by = "create" PROVE MetadataAlone(e, s.read)
    OBVIOUS
  <2>2. Held \subseteq Paths(Of) /\ Sorted(Of)
    BY <2>1 DEF LocalInv, Success
  <2>3. \A i \in 1 .. Len(e) : e[i].blob \in Paths(Of)
    BY <1>1, <2>2 DEF Held
  <2>4. WellOrdered(Of, e)
    BY <2>2, <2>3 DEF WellOrdered, Sorted, Line
  <2> QED
    BY <1>1, <2>1, <2>4, StopsEarly
<1> QED
  BY <1>1, <1>3, <1>4 DEF InspectAgrees, MetadataAlone

LEMMA TarballDeploys ==
  ASSUME LocalInv, outcome = "ok", Paths(Of) \subseteq Held, NEW p \in PackagesOf(Of)
  PROVE  DeployAgrees(p, LoadsTarball(archive.entries, p), Unpacked(archive.entries, p))
<1> DEFINE e == archive.entries
           C == ToSet(Contents[p.manifest])
           found == {l \in C : \E i \in DOMAIN e : e[i].blob = BlobOf(l)}
           u == Unpacked(e, p)
<1>1. /\ Of \in Bundles /\ Len(e) \in Nat /\ DOMAIN e = 1 .. Len(e)
      /\ \A x : x \in Held <=> InTarball(e, x)
  BY TarballIs
<1>2. u = [ok |-> ManifestFound(e, p) /\ \A l \in found : Sound(e, BlobOf(l)), files |-> [l \in found |-> "whole"]]
  BY DEF Unpacked
<1>3. DOMAIN u.files = found /\ \A l \in DOMAIN u.files : u.files[l] = "whole"
  <2> HIDE DEF found, e
  <2>1. u.files = [l \in found |-> "whole"]
    BY <1>2
  <2> QED
    BY <2>1
<1>4. PICK k \in 1 .. Len(Of.pkgs) : p = Of.pkgs[k]
  BY <1>1, BundleFacts DEF PackagesOf
<1>5. p.want \subseteq C
  BY <1>1, <1>4, BundleFacts
<1>6. p.want \subseteq found
  <2>1. ASSUME NEW l \in p.want PROVE BlobOf(l) \in Held
    BY <1>1, <1>4, PathsAre
  <2> QED
    BY <1>1, <1>5, <2>1 DEF InTarball
<1>7. Manifest(p.manifest) \in Held
  BY <1>1, <1>4, PathsAre
<1>8. \A x \in Held : Sound(e, x) \/ \E l \in cut : x = BlobOf(l)
  BY <1>1 DEF Sound, LocalInv, CutNoted, TarballNoted
<1>9. ManifestFound(e, p)
  <2>1. Sound(e, Manifest(p.manifest))
    BY <1>7, <1>8, BlobKinds
  <2> QED
    BY <1>1, <1>7, <2>1 DEF ManifestFound, InTarball
<1>10. \A l \in found : Sound(e, BlobOf(l)) \/ l \in cut
  <2>1. \A l \in found : BlobOf(l) \in Held
    BY <1>1 DEF InTarball
  <2>2. \A l, k1 : BlobOf(l) = BlobOf(k1) => l = k1
    BY BlobKinds
  <2> QED
    BY <1>8, <2>1, <2>2
<1>11. LoadsTarball(e, p) => p.want \subseteq DOMAIN u.files
  BY <1>3, <1>6
<1>12. ASSUME cut \cap C = {} PROVE LoadsTarball(e, p)
  <2>1. \A l \in found : Sound(e, BlobOf(l))
    BY <1>10, <1>12
  <2>2. u.ok
    <3>1. u.ok = (ManifestFound(e, p) /\ \A l \in found : Sound(e, BlobOf(l)))
      <4> DEFINE ok == ManifestFound(e, p) /\ \A l \in found : Sound(e, BlobOf(l))
                 files == [l \in found |-> "whole"]
      <4>1. u = [ok |-> ok, files |-> files]
        BY <1>2
      <4> HIDE DEF ok, files, u
      <4>2. u.ok = ok
        BY <4>1
      <4> QED
        BY <4>2 DEF ok
    <3> HIDE DEF u, found
    <3> QED
      BY <1>9, <2>1, <3>1, Zenon
  <2>3. IsPartial(p) \/ DOMAIN u.files = C
    BY <1>3, <1>5, <1>6 DEF IsPartial
  <2> QED
    BY <1>3, <2>2, <2>3 DEF LoadsTarball, Loads
<1> QED
  BY <1>11, <1>12 DEF DeployAgrees

LEMMA RegistryDeploys ==
  ASSUME LocalInv, NEW p \in PackagesOf(tag)
  PROVE  DeployAgrees(p, LoadsRemote(p), Downloaded(p))
<1> DEFINE d == Downloaded(p)
           C == ToSet(Contents[p.manifest])
           files == [l \in p.want |-> IF Kind[l] = "image" /\ Cached(l) THEN cache[l] ELSE "whole"]
<1>1. tag \in Bundles /\ cache \in [LayerIds -> {"absent", "cut", "whole"}]
  BY DEF LocalInv, Typed, Types
<1>2. PICK k \in 1 .. Len(tag.pkgs) : p = tag.pkgs[k]
  BY <1>1, BundleFacts DEF PackagesOf
<1>3. p.want \subseteq C /\ p.want \subseteq LayerIds
  BY <1>1, <1>2, BundleFacts
<1>4. d = [ok |-> TRUE, files |-> files]
  BY DEF Downloaded
<1>5. d.ok /\ d.files = files
  <2> HIDE DEF d, files
  <2> QED
    BY <1>4
<1>6. DOMAIN d.files = p.want
  BY <1>5
<1>7. ASSUME cut \cap C = {} PROVE LoadsRemote(p)
  <2>1. ASSUME NEW l \in p.want PROVE d.files[l] = "whole"
    <3>1. cache[l] # "cut"
      BY <1>3, <1>7 DEF LocalInv, CutNoted, CacheNoted
    <3>2. Cached(l) => cache[l] = "whole"
      BY <1>1, <1>3, <3>1 DEF Cached
    <3> QED
      BY <1>5, <3>2
  <2>2. IsPartial(p) \/ DOMAIN d.files = C
    BY <1>6 DEF IsPartial
  <2> QED
    BY <1>5, <1>6, <2>1, <2>2 DEF LoadsRemote, Loads
<1> QED
  BY <1>6, <1>7 DEF DeployAgrees

\* Whatever the order of a tarball, its faults and the cache: those who read a bundle agree
\* on its metadata, and on what there is of its packages.
THEOREM AllReadersAgree == LocalSpec => []ReadersAgree
<1>1. LocalInv => ReadersAgree
  BY InspectDoesAgree, TarballDeploys, RegistryDeploys DEF ReadersAgree
<1> QED
  BY <1>1, LocalAtFirst, LocalGoesOn, PTL DEF LocalSpec
=============================================================================
