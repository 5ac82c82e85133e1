------------------------- MODULE RegistryPublishProofs -------------------------
(***************************************************************************)
(* Theorems about RegistryPublish: for any commands on a tag, overlapping, *)
(* failing anywhere and run again, any architectures and any answers of    *)
(* the registry.                                                           *)
(***************************************************************************)
EXTENDS RegistryPublish, TLAPS

Publishes(j) == Request[j].op \in {"push", "reconfigure"}

\* The steps of PublishBundleSignature, and those before its artifact is packed.
Signing == {"discover", "compare", "pack", "label", "delete", "rollback"}
Unpacked(j) ==
  \/ run[j].pc \in {"exists", "ensure", "copy", "resolve", "discover", "compare", "pack"}
  \/ run[j].pc = "merge" /\ Request[j].op = "push"

\* A publisher with everything done but the tag.
Ready(j) == run[j].pc = "publish" \/ (run[j].pc = "merge" /\ Request[j].op = "reconfigure")

\* The steps that belong to each command.
Kinds(j) ==
  /\ run[j].pc # "idle" => j \in setting.jobs
  /\ run[j].pc \in {"merge", "copy", "publish"} => Publishes(j)
  /\ run[j].pc = "exists" => Request[j].op = "push"
  /\ run[j].pc = "ensure" => Request[j].op = "reconfigure"
  /\ run[j].pc \in Signing => Request[j].op # "pull" /\ Signed(j) /\ run[j].then # "none"
  /\ run[j].pc \in {"fetch", "read"} => Signed(j)
  /\ run[j].pc \in {"fetch", "read", "archive"} => Request[j].op = "pull"
  /\ run[j].pc = "resolve" => ~Publishes(j)
  /\ IF Publishes(j) THEN run[j].child = Request[j].child
                      ELSE \A a \in Arch : run[j].merged.entry[a] = NoChild
  /\ run[j].pc \in Signing /\ run[j].then \in {"merge", "publish"} => Publishes(j)
  /\ run[j].pc \in Signing /\ run[j].then = "merge" => Request[j].op = "reconfigure"

\* What is signed or about to be tagged is stored, and so is what is tagged with it.
Complete(j) ==
  /\ run[j].pc \in Signing \cup {"fetch", "read", "archive"} \/ Ready(j) =>
       run[j].child \in stored
  /\ \A a \in Arch : run[j].merged.entry[a] \in stored \cup {NoChild, run[j].child}

\* The artifact of this attempt is new.
Made(j) == \A a \in arts : Own(j, a) =>
  /\ a.id[2] <= run[j].attempt
  /\ Unpacked(j) => a.id[2] < run[j].attempt

\* What was discovered is of the child, and none of it is what will replace it.
Found(j) ==
  /\ run[j].pc \in {"compare", "pack", "label", "delete"} =>
       \A r \in run[j].refs \cup run[j].unseen :
         r.child = run[j].child /\ r.id # <<j, run[j].attempt>>
  /\ run[j].pc = "compare" => One(run[j].refs)
  /\ run[j].pc \in {"pack", "label"} /\ run[j].refs # {} => Request[j].overwrite
  /\ run[j].pc \in {"delete", "rollback"} => Request[j].overwrite
  /\ run[j].pc = "delete" => run[j].refs # {}

\* When nobody else replaces signatures, a replacement and what it replaces are there
\* until it deletes them, and it is only rolled back when one of these is left.
Undisturbed == ~setting.lost /\ setting.referrers /\ OneReplaces
Replaces(j) == Undisturbed /\ Request[j].overwrite =>
  /\ run[j].pc \in {"compare", "pack", "label", "delete"} => run[j].refs \subseteq arts
  /\ run[j].pc \in {"label", "delete"} => Artifact(j) \in arts
  /\ run[j].pc = "rollback" => \E a \in arts : a.child = run[j].child /\ a # Artifact(j)

\* Bundles that every publisher signs, and those with a signature.
Exempt(c) ==
  \/ \E r \in InitialRoots, a \in Arch : r.entry[a] = c
  \/ \E j \in Publishers(c) : ~Signed(j)
Covered(c) == \E a \in arts : a.child = c

Covers(j) == Undisturbed =>
  /\ run[j].pc \in {"label", "delete"} => Covered(run[j].child)
  /\ Ready(j) /\ Signed(j) => Covered(run[j].child)
  /\ \A a \in Arch : run[j].merged.entry[a] \in
       {NoChild, run[j].child} \cup {c \in Child : Exempt(c) \/ Covered(c)}

\* A verifying pull goes on with the one artifact it found.
Verifying(j) == Request[j].op = "pull" /\ Signed(j) =>
  /\ run[j].pc \in {"read", "archive", "done"} =>
       One(run[j].refs) /\ \A r \in run[j].refs : r.child = run[j].child
  /\ run[j].pc \in {"archive", "done"} =>
       /\ run[j].evidence.signer = Request[j].signer
       /\ \A r \in run[j].refs : r.evidence = run[j].evidence

\* A push publishes one artifact at most, all attempts together.
Retries(j) == Request[j].op = "push" =>
  /\ \A a \in arts : Own(j, a) => a.child = Request[j].child /\ a.evidence = Evidence(j)
  /\ setting.referrers =>
       /\ \A a, b \in arts : Own(j, a) /\ Own(j, b) => a = b
       /\ run[j].pc = "pack" => \A a \in arts : ~Own(j, a)
  /\ run[j].pc = "refused" => \E r \in run[j].refs : ~Own(j, r)

\* The only active command knows what can be discovered of its child: what it found when
\* it looked, what the registry did not name then, and what it published since.
Sole(j) ==
  LET left == SignatureReferences(run[j].child) \ run[j].unseen
  IN  One(left) /\ \A r \in left : r.evidence = Evidence(j)

Settled(j) == ~setting.overlap /\ Request[j].op # "pull" /\ Signed(j) =>
  /\ run[j].pc \in {"compare", "pack", "label", "delete"} => run[j].refs \cap run[j].unseen = {}
  /\ run[j].pc \in {"compare", "pack"} =>
       SignatureReferences(run[j].child) = run[j].refs \cup run[j].unseen
  /\ run[j].pc \in {"label", "delete"} /\ setting.referrers =>
       Of(run[j].child) = run[j].refs \cup run[j].unseen \cup {Artifact(j)}
  /\ run[j].pc = "delete" => legacy[run[j].child] = Artifact(j)
  /\ Ready(j) => Sole(j)

Good(j) ==
  /\ Kinds(j) /\ Complete(j) /\ Made(j) /\ Found(j) /\ Replaces(j)
  /\ Covers(j) /\ Verifying(j) /\ Retries(j) /\ Settled(j)

\* The tag and the artifacts.
World ==
  /\ \A a \in Arch : root.entry[a] \in stored \cup {NoChild}
  /\ \A c \in Child : legacy[c] # NoArt => legacy[c].child = c
  /\ Undisturbed => \A a \in Arch :
       root.entry[a] \in {NoChild} \cup {c \in Child : Exempt(c) \/ Covered(c)}
  /\ ~setting.overlap => \A j, k \in Job : Active(j) /\ Active(k) => j = k

Inv == TypeOK /\ World /\ \A j \in Job : Good(j)

\* What a command that ends with its signature published leaves behind, when it is alone.
Finishes(j) ==
  ~setting.overlap /\ Request[j].op # "pull" /\ Signed(j) /\ run'[j].pc = "done" =>
    Evidence(j)' = Evidence(j) /\ Sole(j)'

-----------------------------------------------------------------------------
\* Types.
LEMMA EvidenceType ==
  ASSUME TypeOK, NEW j \in Job PROVE Evidence(j) \in Evidences
<1>1. run[j].attempt \in Nat
  BY DEF TypeOK, Command
<1> QED
  BY <1>1 DEF Evidence, Evidences

LEMMA ArtifactType ==
  ASSUME TypeOK, NEW j \in Job, run[j].child \in stored
  PROVE  /\ Artifact(j) \in Artifacts /\ Artifact(j) # NoArt /\ Own(j, Artifact(j))
         /\ Artifact(j).id = <<j, run[j].attempt>> /\ Artifact(j).child = run[j].child
         /\ Artifact(j).evidence = Evidence(j)
<1>1. run[j].attempt \in Nat /\ run[j].child \in Child
  BY DEF TypeOK, Command
<1>2. Artifact(j) \in Artifacts
  BY <1>1, EvidenceType DEF Artifact, Artifacts
<1> QED
  BY <1>1, <1>2, RequestAssumption DEF Artifact, NoArt, Own

\* What is discovered of a child are artifacts of that child.
LEMMA References ==
  ASSUME TypeOK, World, NEW c \in Child
  PROVE  /\ \A r \in SignatureReferences(c) : r \in arts /\ r.child = c
         /\ setting.referrers => SignatureReferences(c) = Of(c)
         /\ ~setting.referrers => SignatureReferences(c) = {legacy[c]} \ {NoArt}
         /\ \A refs \in Discoveries(c) :
              /\ refs \subseteq SignatureReferences(c)
              /\ refs = SignatureReferences(c) \/ refs = {legacy[c]} \/ refs = {}
              /\ refs = {} /\ setting.referrers => SignatureReferences(c) = {}
<1>1. legacy[c] \in arts \cup {NoArt}
  BY DEF TypeOK
<1>2. legacy[c] # NoArt => legacy[c] \in Of(c)
  BY <1>1 DEF World, Of
<1>3. setting.referrers => SignatureReferences(c) = Of(c) /\ Referrers(c) = Of(c)
  BY <1>2 DEF SignatureReferences, Referrers, Tagged, Of
<1>4. ~setting.referrers => SignatureReferences(c) = {legacy[c]} \ {NoArt}
  BY DEF SignatureReferences, Referrers, Tagged
<1>5. Tagged(c) \subseteq SignatureReferences(c)
  BY <1>2, <1>3, <1>4 DEF Tagged
<1>6. ASSUME NEW refs \in Discoveries(c)
      PROVE  /\ refs \subseteq SignatureReferences(c)
             /\ refs = SignatureReferences(c) \/ refs = {legacy[c]} \/ refs = {}
             /\ refs = {} /\ setting.referrers => SignatureReferences(c) = {}
  <2>1. \/ refs = SignatureReferences(c)
        \/ refs = Tagged(c) /\ refs # {}
        \/ refs = {} /\ Referrers(c) = {}
    BY <1>6 DEF Discoveries
  <2>2. Tagged(c) # {} => Tagged(c) = {legacy[c]}
    BY DEF Tagged
  <2> QED
    BY <1>3, <1>5, <2>1, <2>2
<1> QED
  BY <1>1, <1>2, <1>3, <1>4, <1>6 DEF Of

-----------------------------------------------------------------------------
\* At first nothing runs, and the repository holds what the tag names.
LEMMA Initially == Init => Inv
<1> SUFFICES ASSUME Init PROVE Inv
  OBVIOUS
<1>1. root \in Root /\ root \in InitialRoots
  BY RequestAssumption DEF Init
<1>2. stored = {root.entry[a] : a \in Arch} \ {NoChild} /\ stored \subseteq Child
  BY <1>1 DEF Init, Root
<1>3. \A a \in arts :
        /\ a \in Artifacts /\ a.id[1] = Elder
        /\ a = [id |-> <<Elder, 0>>, child |-> a.child, evidence |-> a.evidence]
  <2>1. [signer |-> Elder, made |-> <<"archive", 0>>] \in Evidences
    BY DEF Evidences
  <2> QED
    BY <1>2, <2>1 DEF Init, Artifacts
<1>4. legacy = [c \in Child |-> IF \E a \in arts : a.child = c
                                THEN CHOOSE a \in arts : a.child = c ELSE NoArt]
  BY DEF Init
<1>5. \A c \in Child : legacy[c] = NoArt \/ (legacy[c] \in arts /\ legacy[c].child = c)
  BY <1>4
<1>6. Bare("absent") \in Root /\ \A a \in Arch : Bare("absent").entry[a] = NoChild
  BY DEF Bare, Root
<1>7. \A j \in Job :
        /\ run[j].pc = "idle" /\ run[j].attempt = 0 /\ run[j].child = Request[j].child
        /\ run[j].merged = Bare("absent") /\ run[j] \in Command
  <2>1. NoEvidence \in Evidences
    BY DEF NoEvidence, Evidences
  <2> QED
    BY <1>6, <2>1, RequestAssumption DEF Init, Fresh, Command, Progress
<1>8. TypeOK
  <2>1. legacy \in [Child -> arts \cup {NoArt}]
    BY <1>4, <1>5
  <2>2. run \in [Job -> Command]
    BY <1>7 DEF Init
  <2> QED
    BY <1>1, <1>2, <1>3, <2>1, <2>2 DEF Init, TypeOK
<1>9. World
  <2>1. \A a \in Arch : root.entry[a] \in stored \cup {NoChild}
    BY <1>2
  <2>2. \A a \in Arch : root.entry[a] \in {NoChild} \cup {c \in Child : Exempt(c)}
    BY <1>1, <1>2, <2>1 DEF Exempt
  <2>3. \A j \in Job : ~Active(j)
    BY <1>7 DEF Active
  <2> QED
    BY <1>5, <2>1, <2>2, <2>3 DEF World
<1>10. ASSUME NEW j \in Job PROVE Good(j)
  <2>1. \A a \in arts : ~Own(j, a)
    BY <1>3, RequestAssumption DEF Own
  <2>2. Kinds(j) /\ Complete(j) /\ Made(j) /\ Found(j) /\ Replaces(j)
    BY <1>6, <1>7, <2>1
       DEF Kinds, Complete, Made, Found, Replaces, Signing, Ready, Unpacked
  <2>3. Covers(j) /\ Verifying(j) /\ Retries(j) /\ Settled(j)
    BY <1>6, <1>7, <2>1 DEF Covers, Verifying, Retries, Settled, Ready
  <2> QED
    BY <2>2, <2>3 DEF Good
<1> QED
  BY <1>8, <1>9, <1>10 DEF Inv

-----------------------------------------------------------------------------
\* What a step of one command leaves true of the others.
LEMMA Others ==
  ASSUME NEW j \in Job, Inv, setting' = setting, stored \subseteq stored',
         \A k \in Job \ {j} : run'[k] = run[k],
         \A a \in arts' : a \in arts \/ Own(j, a),
         arts \subseteq arts' \/ (Request[j].overwrite /\ Active(j)),
         (arts' = arts /\ legacy' = legacy) \/ Active(j),
         Undisturbed => \A c \in Child : Covered(c) => Covered(c)'
  PROVE  \A k \in Job \ {j} : Good(k)'
<1> SUFFICES ASSUME NEW k \in Job \ {j} PROVE Good(k)'
  OBVIOUS
<1>1. Good(k) /\ run'[k] = run[k] /\ run[k] \in Command
  BY DEF Inv, TypeOK
<1>2. (Undisturbed)' = Undisturbed /\ Artifact(k)' = Artifact(k) /\ Evidence(k)' = Evidence(k)
  BY <1>1 DEF Undisturbed, OneReplaces, Artifact, Evidence
<1>3. Ready(k)' = Ready(k) /\ Unpacked(k)' = Unpacked(k)
  BY <1>1 DEF Ready, Unpacked
<1>4. \A a \in arts' : Own(k, a) => a \in arts
  BY DEF Own
<1>5. Kinds(k)' /\ Found(k)' /\ Verifying(k)'
  BY <1>1 DEF Good, Kinds, Found, Verifying
<1>6. Complete(k)'
  BY <1>1, <1>3 DEF Good, Complete
<1>7. Made(k)'
  BY <1>1, <1>3, <1>4 DEF Good, Made
<1>8. Retries(k)'
  BY <1>1, <1>2, <1>4 DEF Good, Retries
<1>9. Covers(k)'
  <2>1. Undisturbed /\ run[k].child \in stored /\ Covered(run[k].child) => Covered(run[k].child)'
    BY DEF Inv, TypeOK
  <2>2. run[k].pc \in {"label", "delete"} \/ Ready(k) => run[k].child \in stored
    BY <1>1 DEF Good, Complete, Signing
  <2> QED
    BY <1>1, <1>2, <1>3, <2>1, <2>2 DEF Good, Covers
<1>10. Replaces(k)'
  <2>1. CASE arts \subseteq arts'
    BY <1>1, <1>2, <2>1 DEF Good, Replaces
  <2>2. CASE Request[j].overwrite /\ Active(j)
    <3>1. ASSUME Undisturbed, Request[k].overwrite, Active(k) PROVE FALSE
      <4>1. j \in setting.jobs /\ k \in setting.jobs
        BY <2>2, <3>1 DEF Inv, Good, Kinds, Active
      <4> QED
        BY <2>2, <3>1, <4>1 DEF Inv, World, Undisturbed, OneReplaces
    <3>2. run[k].pc \in {"compare", "pack", "label", "delete", "rollback"} => Active(k)
      BY DEF Active, Ended
    <3> QED
      BY <1>1, <1>2, <3>1, <3>2 DEF Replaces
  <2> QED
    BY <2>1, <2>2
<1>11. Settled(k)'
  <2>1. run[k].pc \in {"compare", "pack", "label", "delete"} \/ Ready(k) => Active(k)
    BY DEF Active, Ended, Ready
  <2>2. CASE arts' = arts /\ legacy' = legacy
    BY <1>1, <1>2, <1>3, <2>2 DEF Good, Settled, Sole, Of, SignatureReferences, Referrers, Tagged
  <2>3. CASE Active(j)
    <3>1. setting.overlap \/ ~Active(k)
      BY <2>3 DEF Inv, World
    <3> QED
      BY <1>1, <1>3, <2>1, <3>1 DEF Settled
  <2> QED
    BY <2>2, <2>3
<1> QED
  BY <1>5, <1>6, <1>7, <1>8, <1>9, <1>10, <1>11 DEF Good

\* A step that changes nothing in the registry.
LEMMA Quietly ==
  ASSUME NEW j \in Job, Inv, UNCHANGED <<stored, root, arts, legacy, setting>>,
         run' \in [Job -> Command], \A k \in Job \ {j} : run'[k] = run[k],
         Active(j) \/ ~Active(j)' \/ setting.overlap \/ \A k \in Job : ~Active(k),
         Good(j)'
  PROVE  Inv'
<1>1. TypeOK'
  BY DEF Inv, TypeOK
<1>2. \A k \in Job \ {j} : Good(k)'
  BY Others DEF Covered
<1>3. World'
  <2>1. \A k \in Job \ {j} : Active(k)' = Active(k)
    BY DEF Active
  <2> QED
    BY <2>1 DEF Inv, World, Undisturbed, OneReplaces, Covered
<1> QED
  BY <1>1, <1>2, <1>3 DEF Inv

\* As long as a command keeps its child and nothing in the registry changes, so do its
\* artifact and what it can discover.
LEMMA Steady ==
  ASSUME NEW j \in Job, UNCHANGED <<arts, legacy, setting>>,
         run'[j].attempt = run[j].attempt, run'[j].child = run[j].child
  PROVE  /\ Evidence(j)' = Evidence(j) /\ Artifact(j)' = Artifact(j)
         /\ SignatureReferences(run[j].child)' = SignatureReferences(run[j].child)
         /\ Of(run[j].child)' = Of(run[j].child)
         /\ run'[j].unseen = run[j].unseen => Sole(j)' = Sole(j)
         /\ (Undisturbed)' = Undisturbed
         /\ \A c : Covered(c)' = Covered(c)
<1>1. Evidence(j)' = Evidence(j) /\ Artifact(j)' = Artifact(j)
  BY DEF Evidence, Artifact
<1>2. SignatureReferences(run[j].child)' = SignatureReferences(run[j].child)
  BY DEF SignatureReferences, Referrers, Tagged, Of
<1>3. run'[j].unseen = run[j].unseen => Sole(j)' = Sole(j)
  BY <1>1, <1>2 DEF Sole
<1> QED
  BY <1>1, <1>2, <1>3 DEF Of, Undisturbed, OneReplaces, Covered

-----------------------------------------------------------------------------
\* The steps that change nothing in the registry.
LEMMA StartKeeps ==
  ASSUME NEW j \in Job, Inv, Start(j), setting' = setting
  PROVE  Inv' /\ Finishes(j)
<1>1. /\ run'[j] = [Fresh(j) EXCEPT !.attempt = run[j].attempt + 1,
                                    !.pc = FirstRequest(Request[j].op)]
      /\ \A k \in Job \ {j} : run'[k] = run[k]
      /\ UNCHANGED <<stored, root, arts, legacy>>
  BY DEF Start, Inv, TypeOK
<1>2. run[j].attempt \in Nat
  BY DEF Inv, TypeOK, Command
<1>3. Bare("absent") \in Root /\ \A a \in Arch : Bare("absent").entry[a] = NoChild
  BY DEF Bare, Root
<1>4. /\ run'[j].attempt = run[j].attempt + 1 /\ run'[j].child = Request[j].child
      /\ run'[j].merged = Bare("absent") /\ run'[j].refs = {}
      /\ run'[j].pc = FirstRequest(Request[j].op)
  BY <1>1 DEF Fresh
<1>5. \/ Request[j].op = "push" /\ run'[j].pc = "merge"
      \/ Request[j].op = "reconfigure" /\ run'[j].pc = "ensure"
      \/ Request[j].op \in {"sign", "pull"} /\ run'[j].pc = "resolve"
  BY <1>4, RequestAssumption DEF FirstRequest, Op
<1>6. run' \in [Job -> Command]
  <2>1. NoEvidence \in Evidences
    BY DEF NoEvidence, Evidences
  <2>2. run'[j] = [pc |-> run'[j].pc, attempt |-> run[j].attempt + 1,
                   child |-> Request[j].child, merged |-> Bare("absent"), refs |-> {},
                   unseen |-> {}, then |-> "none", evidence |-> NoEvidence]
    BY <1>1 DEF Fresh
  <2>3. run'[j].pc \in Progress /\ Request[j].child \in Child \cup {NoChild}
    BY <1>5, RequestAssumption DEF Progress
  <2>4. run'[j] \in Command
    BY <1>2, <1>3, <2>1, <2>2, <2>3 DEF Command
  <2> QED
    BY <1>1, <2>4 DEF Start, Inv, TypeOK
<1>7. Good(j)'
  <2>1. Kinds(j)'
    BY <1>3, <1>4, <1>5 DEF Start, Kinds, Publishes, Signing
  <2>2. Complete(j)'
    BY <1>3, <1>4, <1>5 DEF Complete, Signing, Ready
  <2>3. Made(j)'
    <3>1. \A a \in arts : Own(j, a) => a.id[2] <= run[j].attempt /\ a.id[2] \in Nat
      BY DEF Inv, Good, Made, TypeOK, Artifacts
    <3> QED
      BY <1>1, <1>2, <1>4, <3>1 DEF Made
  <2>4. Found(j)' /\ Replaces(j)'
    BY <1>5 DEF Found, Replaces
  <2>5. Covers(j)' /\ Verifying(j)' /\ Settled(j)'
    BY <1>3, <1>4, <1>5 DEF Covers, Verifying, Settled, Ready
  <2>6. Retries(j)'
    <3>1. Request[j].op = "push" => Evidence(j)' = Evidence(j)
      BY DEF Evidence
    <3> QED
      BY <1>1, <1>5, <3>1 DEF Inv, Good, Retries
  <2> QED
    BY <2>1, <2>2, <2>3, <2>4, <2>5, <2>6 DEF Good
<1>8. Finishes(j)
  BY <1>5 DEF Finishes
<1> QED
  BY <1>1, <1>6, <1>7, <1>8, Quietly DEF Start

LEMMA MergeKeeps ==
  ASSUME NEW j \in Job, Inv, Merge(j), setting' = setting
  PROVE  Inv' /\ Finishes(j)
<1>1. /\ run[j].pc = "merge" /\ UNCHANGED <<stored, root, arts, legacy>>
      /\ run' \in [Job -> Command] /\ \A k \in Job \ {j} : run'[k] = run[k]
      /\ run'[j].attempt = run[j].attempt
      /\ run'[j].child = run[j].child /\ run'[j].refs = run[j].refs /\ run'[j].unseen = run[j].unseen
      /\ run'[j].then = run[j].then
      /\ run'[j].merged = MergeRootIndex(root, run[j].child, Request[j].arch)
      /\ IF Request[j].op = "push" THEN run'[j].pc \in {"exists", "copy"}
                                   ELSE run'[j].pc \in {"publish", "done"}
  <2> DEFINE merged == MergeRootIndex(root, run[j].child, Request[j].arch)
  <2>1. merged \in Root
    <3>1. run[j].child \in Child /\ Request[j].arch \in Arch
      BY RequestAssumption DEF Merge, At, Inv, Good, Kinds, Publishes
    <3> QED
      BY <3>1 DEF Inv, TypeOK, MergeRootIndex, Root
  <2>2. Publishes(j)
    BY DEF Merge, At, Inv, Good, Kinds
  <2> HIDE DEF merged
  <2> QED
    BY <2>1, <2>2 DEF merged, Publishes, Merge, PublishBundleRootIndex, At, Inv, TypeOK, Command, Progress, Ended
<1>2. Good(j)'
  <2>1. \A a \in Arch : run'[j].merged.entry[a] \in {root.entry[a], run[j].child}
    BY <1>1 DEF MergeRootIndex, Inv, TypeOK, Root
  <2>2. Kinds(j)' /\ Made(j)' /\ Found(j)'
    BY <1>1 DEF Inv, Good, Kinds, Made, Found, Unpacked, Signing, Publishes
  <2>3. Complete(j)'
    BY <1>1, <2>1 DEF Inv, World, Good, Kinds, Publishes, Complete, Ready, Signing
  <2>4. Replaces(j)'
    BY <1>1 DEF Replaces
  <2>5. Covers(j)'
    <3>1. Undisturbed => \A a \in Arch :
            root.entry[a] \in {NoChild} \cup {c \in Child : Exempt(c) \/ Covered(c)}
      BY DEF Inv, World
    <3>2. Ready(j)' => Ready(j)
      BY <1>1 DEF Ready, Inv, Good, Kinds, Publishes
    <3> QED
      BY <1>1, <2>1, <3>1, <3>2, Steady DEF Inv, Good, Covers
  <2>6. Verifying(j)' /\ Retries(j)'
    BY <1>1, Steady DEF Inv, Good, Kinds, Publishes, Verifying, Retries
  <2>7. Settled(j)'
    <3>1. Ready(j)' => Ready(j)
      BY <1>1 DEF Ready, Inv, Good, Kinds, Publishes
    <3> QED
      BY <1>1, <3>1, Steady DEF Inv, Good, Settled
  <2> QED
    BY <2>2, <2>3, <2>4, <2>5, <2>6, <2>7 DEF Good
<1>3. Active(j)
  BY <1>1 DEF Active, Ended
<1>4. Finishes(j)
  BY <1>1, Steady DEF Finishes, Inv, Good, Kinds, Publishes, Settled, Ready
<1> QED
  BY <1>1, <1>2, <1>3, <1>4, Quietly

LEMMA ExistsKeeps ==
  ASSUME NEW j \in Job, Inv, Exists(j), setting' = setting
  PROVE  Inv' /\ Finishes(j)
<1>1. /\ run[j].pc = "exists" /\ UNCHANGED <<stored, root, arts, legacy>>
      /\ run' \in [Job -> Command] /\ \A k \in Job \ {j} : run'[k] = run[k]
      /\ run'[j].attempt = run[j].attempt
      /\ run'[j].child = run[j].child /\ run'[j].refs = run[j].refs /\ run'[j].unseen = run[j].unseen
      /\ run'[j].merged = run[j].merged /\ run'[j].then = "done"
      /\ \/ run'[j].pc = "copy"
         \/ run'[j].pc = "discover" /\ Signed(j) /\ run[j].child \in stored
         \/ run'[j].pc = "done" /\ ~Signed(j)
  BY DEF Exists, Goto, At, Inv, TypeOK, Command, Progress, Ended
<1>2. Good(j)'
  <2>1. Kinds(j)' /\ Complete(j)' /\ Made(j)' /\ Found(j)'
    BY <1>1 DEF Inv, Good, Kinds, Complete, Made, Found, Ready, Unpacked, Signing, Publishes
  <2>2. Replaces(j)' /\ Covers(j)'
    BY <1>1, Steady DEF Inv, Good, Replaces, Covers, Ready
  <2>3. Verifying(j)' /\ Retries(j)' /\ Settled(j)'
    BY <1>1, Steady DEF Inv, Good, Kinds, Verifying, Retries, Settled, Ready
  <2> QED
    BY <2>1, <2>2, <2>3 DEF Good
<1>3. Active(j)
  BY <1>1 DEF Active, Ended
<1>4. Finishes(j)
  BY <1>1 DEF Finishes
<1> QED
  BY <1>1, <1>2, <1>3, <1>4, Quietly

LEMMA EnsureTagAvailableKeeps ==
  ASSUME NEW j \in Job, Inv, EnsureTagAvailable(j), setting' = setting
  PROVE  Inv' /\ Finishes(j)
<1>1. /\ run[j].pc = "ensure" /\ UNCHANGED <<stored, root, arts, legacy>>
      /\ run' \in [Job -> Command] /\ \A k \in Job \ {j} : run'[k] = run[k]
      /\ run'[j].attempt = run[j].attempt
      /\ run'[j].child = run[j].child /\ run'[j].refs = run[j].refs /\ run'[j].unseen = run[j].unseen
      /\ run'[j].merged = run[j].merged /\ run'[j].then = run[j].then
      /\ run'[j].pc \in {"copy", "taken"}
  BY DEF EnsureTagAvailable, Goto, At, Inv, TypeOK, Command, Progress, Ended
<1>2. Good(j)'
  <2>1. Kinds(j)' /\ Complete(j)' /\ Made(j)' /\ Found(j)'
    BY <1>1 DEF Inv, Good, Kinds, Complete, Made, Found, Ready, Unpacked, Signing, Publishes
  <2>2. Replaces(j)' /\ Covers(j)'
    BY <1>1, Steady DEF Inv, Good, Replaces, Covers, Ready
  <2>3. Verifying(j)' /\ Retries(j)' /\ Settled(j)'
    BY <1>1, Steady DEF Inv, Good, Verifying, Retries, Settled, Ready
  <2> QED
    BY <2>1, <2>2, <2>3 DEF Good
<1>3. Active(j)
  BY <1>1 DEF Active, Ended
<1>4. Finishes(j)
  BY <1>1 DEF Finishes
<1> QED
  BY <1>1, <1>2, <1>3, <1>4, Quietly

LEMMA ResolveKeeps ==
  ASSUME NEW j \in Job, Inv, Resolve(j), setting' = setting
  PROVE  Inv' /\ Finishes(j)
<1>1. /\ run[j].pc = "resolve" /\ UNCHANGED <<stored, root, arts, legacy>>
      /\ run' \in [Job -> Command] /\ \A k \in Job \ {j} : run'[k] = run[k]
      /\ run'[j].attempt = run[j].attempt
      /\ run'[j].refs = run[j].refs /\ run'[j].merged = run[j].merged
      /\ \/ /\ run'[j].child \in stored /\ run'[j].then = "done"
            /\ \/ run'[j].pc = "discover" /\ Request[j].op = "sign"
               \/ run'[j].pc = "fetch" /\ Request[j].op = "pull" /\ Signed(j)
               \/ run'[j].pc = "archive" /\ Request[j].op = "pull" /\ ~Signed(j)
         \/ run'[j].child = run[j].child /\ run'[j].pc = "failed"
  <2>1. root.entry[Request[j].arch] \in Child \cup {NoChild}
    BY RequestAssumption DEF Inv, TypeOK, Root
  <2>2. Request[j].op \in {"sign", "pull"}
    BY RequestAssumption DEF Resolve, At, Inv, Good, Kinds, Publishes, Op
  <2> QED
    BY <2>1, <2>2 DEF Resolve, Goto, At, Inv, TypeOK, Command, Progress, Ended
<1>2. Good(j)'
  <2>1. ~Publishes(j) /\ \A a \in Arch : run[j].merged.entry[a] = NoChild
    BY <1>1 DEF Inv, Good, Kinds
  <2>2. Kinds(j)' /\ Made(j)' /\ Found(j)'
    BY <1>1, <2>1, RequestAssumption
       DEF Inv, Good, Kinds, Made, Found, Unpacked, Signing, Publishes
  <2>3. Complete(j)' /\ Covers(j)'
    BY <1>1, <2>1 DEF Complete, Covers, Ready, Signing, Publishes
  <2>4. Replaces(j)' /\ Verifying(j)' /\ Retries(j)' /\ Settled(j)'
    BY <1>1, <2>1 DEF Replaces, Verifying, Retries, Settled, Ready, Publishes
  <2> QED
    BY <2>2, <2>3, <2>4 DEF Good
<1>3. Active(j)
  BY <1>1 DEF Active, Ended
<1>4. Finishes(j)
  BY <1>1 DEF Finishes
<1> QED
  BY <1>1, <1>2, <1>3, <1>4, Quietly

LEMMA DiscoverKeeps ==
  ASSUME NEW j \in Job, Inv, Discover(j), setting' = setting
  PROVE  Inv' /\ Finishes(j)
<1> DEFINE there == SignatureReferences(run[j].child)
<1>0. /\ run[j].child \in Child
      /\ \A r \in there : r \in arts /\ r.child = run[j].child
      /\ setting.referrers => there = Of(run[j].child)
      /\ ~setting.referrers => there = {legacy[run[j].child]} \ {NoArt}
      /\ there \subseteq Artifacts
      /\ \A found \in Discoveries(run[j].child) :
           /\ found \subseteq there
           /\ found = there \/ found = {legacy[run[j].child]} \/ found = {}
           /\ found = {} /\ setting.referrers => there = {}
  <2>1. run[j].child \in Child
    BY DEF Discover, At, Inv, TypeOK, Good, Complete, Signing
  <2> QED
    BY <2>1, References DEF Inv, TypeOK
<1> HIDE DEF there
<1>1. PICK refs \in Discoveries(run[j].child) :
      /\ run[j].pc = "discover" /\ UNCHANGED <<stored, root, arts, legacy>>
      /\ run' \in [Job -> Command] /\ \A k \in Job \ {j} : run'[k] = run[k]
      /\ run'[j].attempt = run[j].attempt
      /\ run'[j].child = run[j].child /\ run'[j].merged = run[j].merged
      /\ run'[j].then = run[j].then /\ run'[j].refs = refs /\ run'[j].unseen = there \ refs
      /\ \/ run'[j].pc = "compare" /\ One(refs)
         \/ run'[j].pc = "refused" /\ ~One(refs) /\ refs # {} /\ ~Request[j].overwrite
         \/ run'[j].pc = "pack" /\ ~One(refs) /\ (refs = {} \/ Request[j].overwrite)
  <2>1. PICK refs \in Discoveries(run[j].child) :
          run' = [run EXCEPT ![j].refs = refs, ![j].unseen = there \ refs,
                   ![j].pc = IF One(refs) THEN "compare"
                             ELSE IF refs # {} /\ ~Request[j].overwrite THEN "refused" ELSE "pack"]
    BY DEF Discover, there
  <2> DEFINE next == IF One(refs) THEN "compare"
                     ELSE IF refs # {} /\ ~Request[j].overwrite THEN "refused" ELSE "pack"
  <2>2. \/ next = "compare" /\ One(refs)
        \/ next = "refused" /\ ~One(refs) /\ refs # {} /\ ~Request[j].overwrite
        \/ next = "pack" /\ ~One(refs) /\ (refs = {} \/ Request[j].overwrite)
    <3>1. CASE One(refs)
      BY <3>1
    <3>2. CASE ~One(refs) /\ refs # {} /\ ~Request[j].overwrite
      BY <3>2
    <3>3. CASE ~One(refs) /\ ~(refs # {} /\ ~Request[j].overwrite)
      BY <3>3
    <3> QED
      BY <3>1, <3>2, <3>3
  <2>3. next \in Progress
    BY <2>2 DEF Progress, Ended
  <2>4. refs \subseteq Artifacts /\ there \ refs \subseteq Artifacts
    BY <1>0
  <2>5. run' = [run EXCEPT ![j].refs = refs, ![j].unseen = there \ refs, ![j].pc = next]
    BY <2>1
  <2>6. run[j].pc = "discover" /\ UNCHANGED <<stored, root, arts, legacy>>
    BY DEF Discover, At
  <2> HIDE DEF next
  <2>7. /\ run' \in [Job -> Command] /\ \A k \in Job \ {j} : run'[k] = run[k]
        /\ run'[j] = [run[j] EXCEPT !.refs = refs, !.unseen = there \ refs, !.pc = next]
    <3>1. run \in [Job -> Command]
      BY DEF Inv, TypeOK
    <3>2. [run[j] EXCEPT !.refs = refs, !.unseen = there \ refs, !.pc = next] \in Command
      BY <2>3, <2>4, <3>1 DEF Command
    <3> QED
      BY <2>5, <3>1, <3>2
  <2>8. /\ run'[j].attempt = run[j].attempt
        /\ run'[j].child = run[j].child /\ run'[j].merged = run[j].merged
        /\ run'[j].then = run[j].then /\ run'[j].refs = refs /\ run'[j].unseen = there \ refs
        /\ run'[j].pc = next
    BY <2>7 DEF Inv, TypeOK, Command
  <2> QED
    BY <2>2, <2>6, <2>7, <2>8
<1>2. Good(j)'
  <2>1. \A a \in arts : Own(j, a) => a.id[2] < run[j].attempt /\ a.id[2] \in Nat
    BY <1>1 DEF Inv, Good, Made, Unpacked, TypeOK, Artifacts
  <2>2. \A r \in there : r.child = run[j].child /\ r.id # <<j, run[j].attempt>>
    BY <1>0, <2>1 DEF Own
  <2>3. Kinds(j)' /\ Complete(j)' /\ Made(j)'
    BY <1>1 DEF Inv, Good, Kinds, Complete, Made, Ready, Unpacked, Signing, Publishes
  <2>4. Found(j)' /\ Replaces(j)'
    BY <1>0, <1>1, <2>2 DEF Found, Replaces
  <2>5. Covers(j)' /\ Verifying(j)'
    BY <1>1, Steady DEF Inv, Good, Kinds, Signing, Covers, Verifying, Ready
  <2>6. Settled(j)'
    <3>1. SignatureReferences(run[j].child)' = there
      BY <1>1, Steady DEF there
    <3>2. /\ SignatureReferences(run[j].child)' = run'[j].refs \cup run'[j].unseen
          /\ run'[j].refs \cap run'[j].unseen = {}
      BY <1>0, <1>1, <3>1
    <3> QED
      BY <1>1, <3>2 DEF Settled, Ready
  <2>7. Retries(j)'
    <3> SUFFICES ASSUME Request[j].op = "push" PROVE Retries(j)'
      BY DEF Retries
    <3>1. run[j].child = Request[j].child /\ ~Request[j].overwrite
      BY RequestAssumption DEF Inv, Good, Kinds, Publishes
    <3>2. setting.referrers => \A a, b \in arts : Own(j, a) /\ Own(j, b) => a = b
      BY DEF Inv, Good, Retries
    <3>3. \A a \in arts : Own(j, a) => a \in Of(run[j].child)
      BY <3>1 DEF Inv, Good, Retries, Of
    <3>4. run'[j].pc = "pack" /\ setting.referrers => \A a \in arts : ~Own(j, a)
      BY <1>0, <1>1, <3>1, <3>3
    <3>5. run'[j].pc = "refused" => \E r \in refs : ~Own(j, r)
      <4>1. SUFFICES ASSUME refs # {}, \A r \in refs : Own(j, r) PROVE One(refs)
        BY <1>1
      <4>2. CASE refs = {legacy[run[j].child]}
        BY <4>2 DEF One
      <4>3. CASE refs = there /\ setting.referrers
        BY <1>0, <3>2, <4>1, <4>3 DEF One
      <4>4. CASE refs = there /\ ~setting.referrers
        BY <1>0, <4>1, <4>4 DEF One
      <4> QED
        BY <1>0, <4>1, <4>2, <4>3, <4>4, RequestAssumption DEF Inv, TypeOK, SettingType
    <3> QED
      BY <1>1, <3>2, <3>4, <3>5, Steady DEF Inv, Good, Retries
  <2> QED
    BY <2>3, <2>4, <2>5, <2>6, <2>7 DEF Good
<1>3. Active(j)
  BY <1>1 DEF Active, Ended
<1>4. Finishes(j)
  BY <1>1 DEF Finishes
<1> QED
  BY <1>1, <1>2, <1>3, <1>4, Quietly

LEMMA CompareKeeps ==
  ASSUME NEW j \in Job, Inv, Compare(j), setting' = setting
  PROVE  Inv' /\ Finishes(j)
<1> DEFINE ref == CHOOSE r \in run[j].refs : TRUE
<1>1. /\ run[j].pc = "compare" /\ UNCHANGED <<stored, root, arts, legacy>>
      /\ run' \in [Job -> Command] /\ \A k \in Job \ {j} : run'[k] = run[k]
      /\ run'[j].attempt = run[j].attempt
      /\ run'[j].child = run[j].child /\ run'[j].refs = run[j].refs /\ run'[j].unseen = run[j].unseen
      /\ run'[j].merged = run[j].merged /\ run'[j].then = run[j].then
      /\ \/ run'[j].pc = run[j].then /\ ref \in arts /\ ref.evidence = Evidence(j)
         \/ run'[j].pc = "pack" /\ Request[j].overwrite
         \/ run'[j].pc = "refused" /\ ~Request[j].overwrite /\ ref \in arts
              /\ ref.evidence # Evidence(j)
         \/ run'[j].pc = "failed"
  <2> DEFINE next == IF ref.evidence = Evidence(j) THEN run[j].then
                     ELSE IF Request[j].overwrite THEN "pack" ELSE "refused"
  <2>1. /\ run[j].pc = "compare" /\ UNCHANGED <<stored, root, arts, legacy>>
        /\ \/ ref \in arts /\ run' = [run EXCEPT ![j].pc = next]
           \/ Request[j].overwrite /\ run' = [run EXCEPT ![j].pc = "pack"]
           \/ run' = [run EXCEPT ![j].pc = "failed"]
    BY DEF Compare, At, Goto, ref, next
  <2>2. \/ next = run[j].then /\ ref.evidence = Evidence(j)
        \/ next = "pack" /\ Request[j].overwrite
        \/ next = "refused" /\ ~Request[j].overwrite /\ ref.evidence # Evidence(j)
    OBVIOUS
  <2>3. run[j].then \in {"publish", "merge", "done"}
    BY <2>1 DEF Inv, TypeOK, Command, Good, Kinds, Signing
  <2>4. next \in Progress
    BY <2>2, <2>3 DEF Progress, Ended
  <2>5. "pack" \in Progress /\ "failed" \in Progress
    BY DEF Progress, Ended
  <2> HIDE DEF next, ref
  <2> QED
    BY <2>1, <2>2, <2>4, <2>5 DEF Inv, TypeOK, Command
<1>2. /\ run[j].refs = {ref} /\ ref.child = run[j].child /\ run[j].child \in stored
      /\ run[j].then \in {"publish", "merge", "done"} /\ Request[j].op # "pull" /\ Signed(j)
  <2>1. PICK r \in run[j].refs : run[j].refs = {r}
    BY <1>1 DEF Inv, Good, Found, One
  <2>2. ref = r
    BY <2>1 DEF ref
  <2> QED
    BY <1>1, <2>1, <2>2
       DEF Inv, TypeOK, Command, Good, Kinds, Found, Complete, Signing
<1> HIDE DEF ref
<1>3. ~setting.overlap /\ run'[j].pc = run[j].then => Sole(j)
  <2>1. ~setting.overlap => SignatureReferences(run[j].child) \ run[j].unseen = {ref}
    BY <1>1, <1>2 DEF Inv, Good, Settled
  <2> QED
    BY <1>1, <1>2, <2>1 DEF Sole, One
<1>4. Good(j)'
  <2>1. Kinds(j)' /\ Complete(j)'
    BY <1>1, <1>2 DEF Inv, Good, Kinds, Complete, Signing, Publishes
  <2>2. Made(j)' /\ Found(j)'
    BY <1>1, <1>2 DEF Inv, Good, Kinds, Signing, Made, Found, Unpacked
  <2>3. Replaces(j)'
    BY <1>1, <1>2, Steady DEF Inv, Good, Replaces
  <2>4. Covers(j)'
    <3>1. run'[j].pc = run[j].then => Covered(run[j].child)
      BY <1>1, <1>2 DEF Covered
    <3> QED
      BY <1>1, <1>2, <3>1, Steady DEF Inv, Good, Covers, Ready
  <2>5. Verifying(j)'
    BY <1>2 DEF Verifying
  <2>6. Retries(j)'
    <3>1. Request[j].op = "push" /\ run'[j].pc = "refused" => ~Own(j, ref)
      BY <1>1, <1>2 DEF Inv, Good, Retries
    <3>2. Request[j].op = "push" => run'[j].pc # "pack"
      BY <1>1, <1>2, RequestAssumption
    <3> QED
      BY <1>1, <1>2, <3>1, <3>2, Steady DEF Inv, Good, Retries
  <2>7. Settled(j)'
    BY <1>1, <1>2, <1>3, Steady DEF Inv, Good, Settled, Ready
  <2> QED
    BY <2>1, <2>2, <2>3, <2>4, <2>5, <2>6, <2>7 DEF Good
<1>5. Finishes(j)
  BY <1>1, <1>2, <1>3, Steady DEF Finishes
<1>6. Active(j)
  BY <1>1 DEF Active, Ended
<1> QED
  BY <1>1, <1>4, <1>5, <1>6, Quietly

LEMMA FetchSignatureKeeps ==
  ASSUME NEW j \in Job, Inv, FetchSignature(j), setting' = setting
  PROVE  Inv' /\ Finishes(j)
<1>0. /\ run[j].child \in Child
      /\ \A refs \in Discoveries(run[j].child) :
           /\ \A r \in refs : r \in arts /\ r.child = run[j].child
           /\ refs \subseteq Artifacts
  <2>1. run[j].child \in Child
    BY DEF FetchSignature, At, Inv, TypeOK, Good, Complete, Signing
  <2> QED
    BY <2>1, References DEF Inv, TypeOK
<1>1. PICK refs \in Discoveries(run[j].child) :
      /\ run[j].pc = "fetch" /\ UNCHANGED <<stored, root, arts, legacy>>
      /\ run' \in [Job -> Command] /\ \A k \in Job \ {j} : run'[k] = run[k]
      /\ run'[j].attempt = run[j].attempt
      /\ run'[j].child = run[j].child /\ run'[j].merged = run[j].merged
      /\ \/ run'[j].pc = "read" /\ run'[j].refs = refs /\ One(refs)
         \/ run'[j].pc = "failed"
  BY <1>0 DEF FetchSignature, Goto, At, Inv, TypeOK, Command, Progress, Ended
<1>2. Good(j)'
  <2>1. Kinds(j)' /\ Complete(j)' /\ Made(j)' /\ Found(j)'
    BY <1>1 DEF Inv, Good, Kinds, Complete, Made, Found, Ready, Unpacked, Signing, Publishes
  <2>2. Replaces(j)' /\ Covers(j)' /\ Settled(j)'
    BY <1>1, Steady DEF Inv, Good, Replaces, Covers, Settled, Ready
  <2>3. Verifying(j)' /\ Retries(j)'
    BY <1>0, <1>1 DEF Inv, Good, Kinds, Verifying, Retries
  <2> QED
    BY <2>1, <2>2, <2>3 DEF Good
<1>3. Active(j)
  BY <1>1 DEF Active, Ended
<1>4. Finishes(j)
  BY <1>1 DEF Finishes
<1> QED
  BY <1>1, <1>2, <1>3, <1>4, Quietly

LEMMA VerifySignatureKeeps ==
  ASSUME NEW j \in Job, Inv, VerifySignature(j), setting' = setting
  PROVE  Inv' /\ Finishes(j)
<1> DEFINE ref == CHOOSE r \in run[j].refs : TRUE
<1>1. /\ run[j].pc = "read" /\ UNCHANGED <<stored, root, arts, legacy>>
      /\ run' \in [Job -> Command] /\ \A k \in Job \ {j} : run'[k] = run[k]
      /\ run'[j].attempt = run[j].attempt
      /\ run'[j].child = run[j].child /\ run'[j].refs = run[j].refs /\ run'[j].unseen = run[j].unseen
      /\ run'[j].merged = run[j].merged /\ run'[j].then = run[j].then
      /\ \/ /\ run'[j].pc = "archive" /\ run'[j].evidence = ref.evidence
            /\ ref.evidence.signer = Request[j].signer
         \/ run'[j].pc = "failed"
  <2>1. ref \in arts => ref.evidence \in Evidences
    BY DEF Inv, TypeOK, Artifacts
  <2>2. /\ run[j].pc = "read" /\ UNCHANGED <<stored, root, arts, legacy>>
        /\ \/ /\ run' = [run EXCEPT ![j].evidence = ref.evidence, ![j].pc = "archive"]
              /\ ref.evidence.signer = Request[j].signer /\ ref \in arts
           \/ run' = [run EXCEPT ![j].pc = "failed"]
    BY DEF VerifySignature, At, Goto, ref
  <2>3. "archive" \in Progress /\ "failed" \in Progress
    BY DEF Progress, Ended
  <2> HIDE DEF ref
  <2> QED
    BY <2>1, <2>2, <2>3 DEF Inv, TypeOK, Command
<1>2. Good(j)'
  <2>1. Request[j].op = "pull" /\ Signed(j)
    BY <1>1 DEF Inv, Good, Kinds
  <2>2. run[j].refs = {ref}
    BY <1>1, <2>1 DEF Inv, Good, Verifying, One
  <2>3. Kinds(j)' /\ Complete(j)' /\ Made(j)' /\ Found(j)'
    BY <1>1 DEF Inv, Good, Kinds, Complete, Made, Found, Ready, Unpacked, Signing, Publishes
  <2>4. Replaces(j)' /\ Covers(j)' /\ Settled(j)'
    BY <1>1, Steady DEF Inv, Good, Replaces, Covers, Settled, Ready
  <2>5. Verifying(j)' /\ Retries(j)'
    BY <1>1, <2>1, <2>2 DEF Inv, Good, Verifying, Retries
  <2> QED
    BY <2>3, <2>4, <2>5 DEF Good
<1>3. Active(j)
  BY <1>1 DEF Active, Ended
<1>4. Finishes(j)
  BY <1>1 DEF Finishes
<1> QED
  BY <1>1, <1>2, <1>3, <1>4, Quietly

LEMMA WriteArchiveKeeps ==
  ASSUME NEW j \in Job, Inv, WriteArchive(j), setting' = setting
  PROVE  Inv' /\ Finishes(j)
<1> DEFINE single == UNION {refs \in Discoveries(run[j].child) : One(refs)}
<1>0. single \subseteq arts
  <2>1. run[j].child \in Child
    BY DEF WriteArchive, At, Inv, TypeOK, Good, Complete, Signing
  <2> QED
    BY <2>1, References DEF Inv, TypeOK
<1> HIDE DEF single
<1>1. /\ run[j].pc = "archive" /\ UNCHANGED <<stored, root, arts, legacy>>
      /\ run' \in [Job -> Command] /\ \A k \in Job \ {j} : run'[k] = run[k]
      /\ run'[j].attempt = run[j].attempt
      /\ run'[j].child = run[j].child /\ run'[j].refs = run[j].refs /\ run'[j].unseen = run[j].unseen
      /\ run'[j].merged = run[j].merged /\ run'[j].then = run[j].then
      /\ run'[j].pc = "done" /\ (Signed(j) => run'[j].evidence = run[j].evidence)
  <2>1. PICK evidence \in {run[j].evidence} \cup
                (IF Signed(j) THEN {} ELSE {r.evidence : r \in single}) :
          run' = [run EXCEPT ![j].evidence = evidence, ![j].pc = "done"]
    BY DEF WriteArchive, single
  <2>2. evidence \in Evidences /\ (Signed(j) => evidence = run[j].evidence)
    BY <1>0, <2>1 DEF Inv, TypeOK, Command, Artifacts
  <2>3. "done" \in Progress
    BY DEF Progress, Ended
  <2> QED
    BY <2>1, <2>2, <2>3 DEF WriteArchive, At, Inv, TypeOK, Command
<1>2. Good(j)'
  <2>1. Request[j].op = "pull"
    BY <1>1 DEF Inv, Good, Kinds
  <2>2. Kinds(j)' /\ Complete(j)' /\ Made(j)' /\ Found(j)'
    BY <1>1 DEF Inv, Good, Kinds, Complete, Made, Found, Ready, Unpacked, Signing, Publishes
  <2>3. Replaces(j)' /\ Covers(j)' /\ Settled(j)'
    BY <1>1, Steady DEF Inv, Good, Replaces, Covers, Settled, Ready
  <2>4. Verifying(j)' /\ Retries(j)'
    BY <1>1, <2>1 DEF Inv, Good, Verifying, Retries
  <2> QED
    BY <2>2, <2>3, <2>4 DEF Good
<1>3. Active(j)
  BY <1>1 DEF Active, Ended
<1>4. Finishes(j)
  BY DEF Finishes, WriteArchive, At, Inv, Good, Kinds
<1> QED
  BY <1>1, <1>2, <1>3, <1>4, Quietly

LEMMA ReadFailsKeeps ==
  ASSUME NEW j \in Job, Inv, ReadFails(j), setting' = setting
  PROVE  Inv' /\ Finishes(j)
<1>1. /\ run[j].pc \in {"merge", "exists", "ensure", "resolve", "discover", "compare",
                        "fetch", "read", "archive"}
      /\ UNCHANGED <<stored, root, arts, legacy>>
      /\ run' \in [Job -> Command] /\ \A k \in Job \ {j} : run'[k] = run[k]
      /\ run'[j].attempt = run[j].attempt /\ run'[j].child = run[j].child
      /\ run'[j].merged = run[j].merged /\ run'[j].pc = "failed"
  BY DEF ReadFails, Goto, Inv, TypeOK, Command, Progress, Ended
<1>2. Good(j)'
  <2>1. Kinds(j)' /\ Complete(j)' /\ Made(j)' /\ Found(j)'
    BY <1>1 DEF Inv, Good, Kinds, Complete, Made, Found, Ready, Unpacked, Signing, Publishes
  <2>2. Replaces(j)' /\ Covers(j)'
    BY <1>1, Steady DEF Inv, Good, Replaces, Covers, Ready
  <2>3. Verifying(j)' /\ Retries(j)' /\ Settled(j)'
    BY <1>1, Steady DEF Inv, Good, Verifying, Retries, Settled, Ready
  <2> QED
    BY <2>1, <2>2, <2>3 DEF Good
<1>3. Active(j)
  BY <1>1 DEF Active, Ended
<1>4. Finishes(j)
  BY <1>1 DEF Finishes
<1> QED
  BY <1>1, <1>2, <1>3, <1>4, Quietly

-----------------------------------------------------------------------------
\* The steps that write to the registry.
LEMMA Loudly ==
  ASSUME NEW j \in Job, Inv, setting' = setting, Active(j), stored \subseteq stored', TypeOK',
         \A k \in Job \ {j} : run'[k] = run[k],
         \A a \in arts' : a \in arts \/ Own(j, a),
         arts \subseteq arts' \/ Request[j].overwrite,
         Undisturbed => \A c \in Child : Covered(c) => Covered(c)',
         \A a \in Arch : root'.entry[a] \in stored' \cup {NoChild},
         \A c \in Child : legacy'[c] # NoArt => legacy'[c].child = c,
         Undisturbed => \A a \in Arch :
           root'.entry[a] \in {NoChild} \cup {c \in Child : Exempt(c) \/ Covered(c)'},
         Good(j)'
  PROVE  Inv'
<1>1. \A k \in Job \ {j} : Good(k)'
  BY Others
<1>2. World'
  <2>1. \A k \in Job \ {j} : Active(k)' = Active(k)
    BY DEF Active
  <2>2. ~setting.overlap => \A i, k \in Job : Active(i)' /\ Active(k)' => i = k
    BY <2>1 DEF Inv, World
  <2>3. (Undisturbed)' = Undisturbed
    BY DEF Undisturbed, OneReplaces
  <2> QED
    BY <2>2, <2>3 DEF World
<1> QED
  BY <1>1, <1>2 DEF Inv

LEMMA StoreKeeps ==
  ASSUME NEW j \in Job, Inv, Copy(j) \/ PushDerivative(j), setting' = setting
  PROVE  Inv' /\ Finishes(j)
<1>1. /\ run[j].pc = "copy" /\ Publishes(j) /\ run[j].child \in Child
      /\ UNCHANGED <<root, arts, legacy>>
  BY RequestAssumption
     DEF Copy, PushDerivative, At, Inv, TypeOK, Command, Good, Kinds, Publishes
<1>2. PICK next \in {"publish", "merge"}, reply \in Replies :
        /\ next = (IF Request[j].op = "push" THEN "publish" ELSE "merge")
        /\ stored' = IF Took(reply) THEN stored \cup {run[j].child} ELSE stored
        /\ run' = [run EXCEPT ![j].then = next,
               ![j].pc = IF reply # "done" THEN "failed"
                         ELSE IF Signed(j) THEN "discover" ELSE next]
  BY DEF Copy, PushDerivative, StoreChild
<1>3. /\ stored \subseteq stored' /\ stored' \subseteq Child
      /\ run' \in [Job -> Command] /\ \A k \in Job \ {j} : run'[k] = run[k]
      /\ run'[j].attempt = run[j].attempt /\ run'[j].child = run[j].child
      /\ run'[j].merged = run[j].merged /\ run'[j].then = next
  BY <1>1, <1>2 DEF Inv, TypeOK, Command, Progress, Ended
<1>4. \/ run'[j].pc = "failed"
      \/ run'[j].pc = "discover" /\ run[j].child \in stored' /\ Signed(j)
      \/ run'[j].pc = next /\ run[j].child \in stored' /\ ~Signed(j)
  BY <1>2 DEF Took, Inv, TypeOK, Command
<1>5. TypeOK'
  BY <1>1, <1>3 DEF Inv, TypeOK
<1>6. Good(j)'
  <2>1. Kinds(j)' /\ Made(j)' /\ Found(j)'
    BY <1>1, <1>2, <1>3, <1>4
       DEF Inv, Good, Kinds, Made, Found, Unpacked, Signing, Publishes
  <2>2. Complete(j)'
    BY <1>1, <1>2, <1>3, <1>4 DEF Inv, Good, Complete, Ready, Signing
  <2>3. Replaces(j)' /\ Covers(j)' /\ Verifying(j)'
    BY <1>1, <1>2, <1>3, <1>4, Steady
       DEF Inv, Good, Replaces, Covers, Verifying, Ready, Publishes
  <2>4. Retries(j)' /\ Settled(j)'
    BY <1>1, <1>2, <1>3, <1>4, Steady DEF Inv, Good, Retries, Settled, Ready
  <2> QED
    BY <2>1, <2>2, <2>3, <2>4 DEF Good
<1>7. Active(j) /\ (\A c : Covered(c)' = Covered(c))
  BY <1>1 DEF Active, Ended, Covered
<1>8. \A a \in Arch : root'.entry[a] \in stored' \cup {NoChild}
  BY <1>1, <1>3 DEF Inv, World
<1>9. /\ \A c \in Child : legacy'[c] # NoArt => legacy'[c].child = c
      /\ Undisturbed => \A a \in Arch :
           root'.entry[a] \in {NoChild} \cup {c \in Child : Exempt(c) \/ Covered(c)'}
  BY <1>1, <1>7 DEF Inv, World
<1>10. Finishes(j)
  BY <1>4 DEF Finishes
<1> QED
  BY <1>1, <1>3, <1>5, <1>6, <1>7, <1>8, <1>9, <1>10, Loudly

LEMMA PublishRootKeeps ==
  ASSUME NEW j \in Job, Inv, PublishRoot(j), setting' = setting
  PROVE  Inv' /\ Finishes(j)
<1>1. /\ run[j].pc = "publish" /\ UNCHANGED <<stored, arts, legacy>>
      /\ root' \in {root, run[j].merged}
      /\ run' \in [Job -> Command] /\ \A k \in Job \ {j} : run'[k] = run[k]
      /\ run'[j].attempt = run[j].attempt /\ run'[j].child = run[j].child
      /\ run'[j].unseen = run[j].unseen
      /\ run'[j].merged = run[j].merged /\ run'[j].pc \in {"done", "failed"}
  BY DEF PublishRoot, After, Goto, At, Inv, TypeOK, Command, Progress, Ended
<1>2. TypeOK'
  BY <1>1 DEF Inv, TypeOK, Command
<1>3. Publishes(j) /\ run[j].child = Request[j].child /\ run[j].child \in stored
  BY <1>1 DEF Inv, Good, Kinds, Complete, Ready
<1>4. Good(j)'
  <2>1. Kinds(j)' /\ Complete(j)' /\ Made(j)' /\ Found(j)'
    BY <1>1, <1>3
       DEF Inv, Good, Kinds, Complete, Made, Found, Ready, Unpacked, Signing, Publishes
  <2>2. Replaces(j)' /\ Covers(j)'
    BY <1>1, Steady DEF Inv, Good, Replaces, Covers, Ready
  <2>3. Verifying(j)' /\ Retries(j)' /\ Settled(j)'
    BY <1>1, <1>3, Steady DEF Inv, Good, Verifying, Retries, Settled, Ready, Publishes
  <2> QED
    BY <2>1, <2>2, <2>3 DEF Good
<1>5. Active(j) /\ (\A c : Covered(c)' = Covered(c))
  BY <1>1 DEF Active, Ended, Covered
<1>6. \A a \in Arch : root'.entry[a] \in stored' \cup {NoChild}
  BY <1>1, <1>3 DEF Inv, World, Good, Complete
<1>7. Undisturbed => \A a \in Arch :
        root'.entry[a] \in {NoChild} \cup {c \in Child : Exempt(c) \/ Covered(c)}
  <2> SUFFICES ASSUME Undisturbed, NEW a \in Arch
               PROVE  root'.entry[a] \in {NoChild} \cup {c \in Child : Exempt(c) \/ Covered(c)}
    OBVIOUS
  <2>1. run[j].child \in Child /\ (Exempt(run[j].child) \/ Covered(run[j].child))
    <3>1. ~Signed(j) => Exempt(run[j].child)
      BY <1>3 DEF Exempt, Publishers
    <3>2. Signed(j) => Covered(run[j].child)
      BY <1>1 DEF Inv, Good, Covers, Ready
    <3> QED
      BY <1>3, <3>1, <3>2 DEF Inv, TypeOK
  <2>2. run[j].merged.entry[a] \in
          {NoChild, run[j].child} \cup {c \in Child : Exempt(c) \/ Covered(c)}
    BY DEF Inv, Good, Covers
  <2>3. root.entry[a] \in {NoChild} \cup {c \in Child : Exempt(c) \/ Covered(c)}
    BY DEF Inv, World
  <2> QED
    BY <1>1, <2>1, <2>2, <2>3
<1>8. /\ \A c \in Child : legacy'[c] # NoArt => legacy'[c].child = c
      /\ Undisturbed => \A a \in Arch :
           root'.entry[a] \in {NoChild} \cup {c \in Child : Exempt(c) \/ Covered(c)'}
  BY <1>1, <1>5, <1>7 DEF Inv, World
<1>9. Finishes(j)
  BY <1>1, Steady DEF Finishes, Inv, Good, Settled, Ready
<1> QED
  BY <1>1, <1>2, <1>4, <1>5, <1>6, <1>8, <1>9, Loudly

\* The registry holds artifacts of the child only under its own name.
LEMMA Mine ==
  ASSUME NEW j \in Job, Inv, run[j].pc \in Signing,
         run'[j].attempt = run[j].attempt, run'[j].child = run[j].child
  PROVE  /\ run[j].child \in stored /\ run[j].child \in Child
         /\ Request[j].op # "pull" /\ Signed(j) /\ Active(j)
         /\ run[j].then \in {"publish", "merge", "done"}
         /\ Artifact(j) \in Artifacts /\ Artifact(j) # NoArt /\ Own(j, Artifact(j))
         /\ Artifact(j).id = <<j, run[j].attempt>> /\ Artifact(j).child = run[j].child
         /\ Artifact(j).evidence = Evidence(j)
         /\ Evidence(j)' = Evidence(j) /\ Artifact(j)' = Artifact(j)
<1>1. run[j].child \in stored /\ run[j].child \in Child
  BY DEF Inv, TypeOK, Good, Complete
<1>2. /\ Request[j].op # "pull" /\ Signed(j) /\ Active(j)
      /\ run[j].then \in {"publish", "merge", "done"}
  BY DEF Inv, TypeOK, Command, Good, Kinds, Active, Ended, Signing
<1>3. Evidence(j)' = Evidence(j) /\ Artifact(j)' = Artifact(j)
  BY DEF Evidence, Artifact
<1> QED
  BY <1>1, <1>2, <1>3, ArtifactType DEF Inv

LEMMA PackKeeps ==
  ASSUME NEW j \in Job, Inv, Pack(j), setting' = setting
  PROVE  Inv' /\ Finishes(j)
<1> DEFINE A == Artifact(j)
<1>1. /\ run[j].pc = "pack" /\ UNCHANGED <<stored, root, legacy>>
      /\ run' \in [Job -> Command] /\ \A k \in Job \ {j} : run'[k] = run[k]
      /\ run'[j].attempt = run[j].attempt /\ run'[j].child = run[j].child
      /\ run'[j].merged = run[j].merged /\ run'[j].then = run[j].then
      /\ run'[j].refs = run[j].refs /\ run'[j].unseen = run[j].unseen
      /\ \/ run'[j].pc = "label" /\ arts' = arts \cup {A}
         \/ run'[j].pc = "failed" /\ arts' \in {arts, arts \cup {A}}
  <2>1. PICK reply \in Replies :
          /\ arts' = IF Took(reply) THEN arts \cup {A} ELSE arts
          /\ run' = [run EXCEPT ![j].pc = IF reply = "done" THEN "label" ELSE "failed"]
    BY DEF Pack, After, Goto
  <2>2. run[j].pc = "pack" /\ UNCHANGED <<stored, root, legacy>>
    BY DEF Pack, At
  <2>3. "label" \in Progress /\ "failed" \in Progress
    BY DEF Progress, Ended
  <2> HIDE DEF A
  <2> QED
    BY <2>1, <2>2, <2>3 DEF Took, Inv, TypeOK, Command
<1>2. /\ run[j].child \in stored /\ run[j].child \in Child
      /\ Request[j].op # "pull" /\ Signed(j) /\ Active(j)
      /\ A \in Artifacts /\ A # NoArt /\ Own(j, A) /\ A.id = <<j, run[j].attempt>>
      /\ A.child = run[j].child /\ A.evidence = Evidence(j)
      /\ Evidence(j)' = Evidence(j) /\ Artifact(j)' = A
  BY <1>1, Mine DEF Signing
<1> HIDE DEF A
<1>3. TypeOK'
  BY <1>1, <1>2 DEF Inv, TypeOK
<1>4. /\ arts \subseteq arts' /\ (\A a \in arts' : a \in arts \/ a = A)
      /\ \A c : Covered(c) => Covered(c)'
      /\ (Undisturbed)' = Undisturbed
  BY <1>1 DEF Covered, Undisturbed, OneReplaces
<1>5. Good(j)'
  <2>1. Kinds(j)' /\ Complete(j)' /\ Found(j)'
    BY <1>1, <1>2 DEF Inv, Good, Kinds, Complete, Found, Ready, Signing, Publishes
  <2>2. Made(j)'
    <3>1. A.id[2] = run[j].attempt /\ run[j].attempt \in Nat
      BY <1>2 DEF Inv, TypeOK, Command
    <3> QED
      BY <1>1, <1>4, <3>1 DEF Inv, Good, Made, Unpacked
  <2>3. Replaces(j)'
    BY <1>1, <1>2, <1>4 DEF Inv, Good, Replaces
  <2>4. Covers(j)'
    <3>1. run'[j].pc = "label" => Covered(run[j].child)'
      BY <1>1, <1>2 DEF Covered
    <3> QED
      BY <1>1, <1>2, <1>4, <3>1 DEF Inv, Good, Covers, Ready
  <2>5. Verifying(j)'
    BY <1>2 DEF Verifying
  <2>6. Retries(j)'
    <3> SUFFICES ASSUME Request[j].op = "push" PROVE Retries(j)'
      BY DEF Retries
    <3>1. A.child = Request[j].child
      BY <1>2 DEF Inv, Good, Kinds, Publishes
    <3>2. setting.referrers => \A a \in arts : ~Own(j, a)
      BY <1>1 DEF Inv, Good, Retries
    <3> QED
      BY <1>1, <1>2, <1>4, <3>1, <3>2 DEF Inv, Good, Retries
  <2>7. Settled(j)'
    <3>1. ASSUME ~setting.overlap, setting.referrers, run'[j].pc = "label"
          PROVE  Of(run[j].child)' = run[j].refs \cup run[j].unseen \cup {A}
      <4>1. Of(run[j].child) = run[j].refs \cup run[j].unseen
        BY <1>1, <1>2, <3>1, References DEF Inv, Good, Settled
      <4> QED
        BY <1>1, <1>2, <3>1, <4>1 DEF Of
    <3>2. ~setting.overlap => run[j].refs \cap run[j].unseen = {}
      BY <1>1, <1>2 DEF Inv, Good, Settled
    <3> QED
      BY <1>1, <1>2, <3>1, <3>2 DEF Settled, Ready
  <2> QED
    BY <2>1, <2>2, <2>3, <2>4, <2>5, <2>6, <2>7 DEF Good
<1>6. \A a \in Arch : root'.entry[a] \in stored' \cup {NoChild}
  BY <1>1 DEF Inv, World
<1>7. /\ \A c \in Child : legacy'[c] # NoArt => legacy'[c].child = c
      /\ Undisturbed => \A a \in Arch :
           root'.entry[a] \in {NoChild} \cup {c \in Child : Exempt(c) \/ Covered(c)'}
  BY <1>1, <1>4 DEF Inv, World
<1>8. Finishes(j)
  BY <1>1 DEF Finishes
<1> QED
  BY <1>1, <1>2, <1>3, <1>4, <1>5, <1>6, <1>7, <1>8, Loudly

LEMMA LabelKeeps ==
  ASSUME NEW j \in Job, Inv, Label(j), setting' = setting
  PROVE  Inv' /\ Finishes(j)
<1> DEFINE A == Artifact(j)
<1>1. run[j].pc = "label" /\ UNCHANGED <<stored, root, arts>>
  BY DEF Label, At
<1>2. /\ run[j].child \in stored /\ run[j].child \in Child
      /\ Request[j].op # "pull" /\ Signed(j) /\ Active(j)
      /\ run[j].then \in {"publish", "merge", "done"}
  BY <1>1 DEF Inv, TypeOK, Command, Good, Kinds, Complete, Active, Ended, Signing
<1>3. /\ run' \in [Job -> Command] /\ \A k \in Job \ {j} : run'[k] = run[k]
      /\ run'[j].attempt = run[j].attempt /\ run'[j].child = run[j].child
      /\ run'[j].merged = run[j].merged /\ run'[j].then = run[j].then
      /\ run'[j].refs = run[j].refs /\ run'[j].unseen = run[j].unseen
      /\ \/ /\ legacy' = [legacy EXCEPT ![run[j].child] = A] /\ A \in arts
            /\ \/ run'[j].pc = run[j].then /\ run[j].refs = {}
               \/ run'[j].pc = "delete" /\ run[j].refs # {}
               \/ run'[j].pc = "failed"
         \/ legacy' = legacy /\ run'[j].pc = "failed"
  <2> DEFINE next == IF run[j].refs = {} THEN run[j].then ELSE "delete"
  <2>1. PICK reply \in (IF A \in arts THEN Replies ELSE {"refused"}) :
          /\ legacy' = IF Took(reply) THEN [legacy EXCEPT ![run[j].child] = A] ELSE legacy
          /\ run' = [run EXCEPT ![j].pc = IF reply = "done" THEN next ELSE "failed"]
    BY DEF Label, After, Goto
  <2>2. next \in Progress /\ "failed" \in Progress
    BY <1>2 DEF Progress, Ended
  <2>3. A \notin arts => reply = "refused"
    BY <2>1
  <2> HIDE DEF A
  <2> QED
    BY <2>1, <2>2, <2>3 DEF Took, Inv, TypeOK, Command
<1>4. /\ A \in Artifacts /\ A # NoArt /\ Own(j, A) /\ A.id = <<j, run[j].attempt>>
      /\ A.child = run[j].child /\ A.evidence = Evidence(j)
      /\ Evidence(j)' = Evidence(j) /\ Artifact(j)' = A
  BY <1>1, <1>3, Mine DEF Signing
<1> HIDE DEF A
<1>5. TypeOK'
  BY <1>1, <1>2, <1>3 DEF Inv, TypeOK
<1>6. /\ \A c : Covered(c)' = Covered(c)
      /\ (Undisturbed)' = Undisturbed
  BY <1>1 DEF Covered, Undisturbed, OneReplaces
<1>7. /\ ~setting.overlap /\ setting.referrers =>
           Of(run[j].child)' = run[j].refs \cup run[j].unseen \cup {A}
      /\ ~setting.overlap => run[j].refs \cap run[j].unseen = {}
      /\ A \notin run[j].unseen
  <2>1. Of(run[j].child)' = Of(run[j].child)
    BY <1>1, <1>3 DEF Of
  <2>2. A \notin run[j].unseen
    BY <1>1, <1>4 DEF Inv, Good, Found
  <2> QED
    BY <1>1, <1>2, <2>1, <2>2 DEF Inv, Good, Settled, A
<1>8. ASSUME ~setting.overlap, run'[j].pc = run[j].then PROVE Sole(j)'
  <2>1. run[j].refs = {} /\ legacy'[run[j].child] = A
    BY <1>2, <1>3, <1>8 DEF Inv, TypeOK
  <2>2. SignatureReferences(run[j].child)' \ run[j].unseen = {A}
    <3>1. CASE setting.referrers
      <4>1. Of(run[j].child)' = run[j].unseen \cup {A}
        BY <1>7, <1>8, <2>1, <3>1
      <4>2. SignatureReferences(run[j].child)' = Of(run[j].child)'
        BY <1>3, <4>1, <3>1 DEF SignatureReferences, Referrers, Of
      <4> QED
        BY <1>7, <4>1, <4>2
    <3>2. CASE ~setting.referrers
      <4>1. SignatureReferences(run[j].child)' = {A}
        BY <1>3, <1>4, <2>1, <3>2 DEF SignatureReferences, Referrers, Tagged
      <4> QED
        BY <1>7, <4>1
    <3> QED
      BY <3>1, <3>2
  <2> QED
    BY <1>3, <1>4, <2>2 DEF Sole, One
<1>9. Finishes(j)
  BY <1>2, <1>3, <1>4, <1>8 DEF Finishes
<1>10. Good(j)'
  <2>1. Kinds(j)' /\ Complete(j)'
    BY <1>1, <1>2, <1>3 DEF Inv, Good, Kinds, Complete, Signing, Publishes
  <2>2. Made(j)'
    <3>1. ~Unpacked(j)'
      BY <1>1, <1>2, <1>3 DEF Inv, Good, Kinds, Unpacked, Signing
    <3> QED
      BY <1>1, <1>3, <3>1 DEF Inv, Good, Made
  <2>3. Found(j)' /\ Replaces(j)'
    BY <1>1, <1>2, <1>3, <1>4, <1>6 DEF Inv, Good, Found, Replaces
  <2>4. Covers(j)'
    BY <1>1, <1>2, <1>3, <1>6 DEF Inv, Good, Covers
  <2>5. Verifying(j)'
    BY <1>2 DEF Verifying
  <2>6. Retries(j)'
    BY <1>1, <1>2, <1>3, <1>4 DEF Inv, Good, Retries
  <2>7. Settled(j)'
    <3> SUFFICES ASSUME ~setting.overlap PROVE Settled(j)'
      BY DEF Settled
    <3>1. run'[j].pc = "delete" => legacy'[run[j].child] = A
      BY <1>2, <1>3 DEF Inv, TypeOK
    <3> QED
      BY <1>2, <1>3, <1>4, <1>7, <1>8, <3>1 DEF Settled, Ready
  <2> QED
    BY <2>1, <2>2, <2>3, <2>4, <2>5, <2>6, <2>7 DEF Good
<1>11. \A a \in Arch : root'.entry[a] \in stored' \cup {NoChild}
  BY <1>1 DEF Inv, World
<1>12. /\ \A c \in Child : legacy'[c] # NoArt => legacy'[c].child = c
       /\ Undisturbed => \A a \in Arch :
            root'.entry[a] \in {NoChild} \cup {c \in Child : Exempt(c) \/ Covered(c)'}
  BY <1>1, <1>2, <1>3, <1>4, <1>6 DEF Inv, World, TypeOK
<1> QED
  BY <1>1, <1>2, <1>3, <1>5, <1>6, <1>9, <1>10, <1>11, <1>12, Loudly

\* What deleting an artifact that is not the last of its child leaves.
LEMMA DeletedIs ==
  ASSUME TypeOK, NEW a, Deleted(a)
  PROVE  /\ arts' = arts \ {a} /\ legacy' \in [Child -> arts' \cup {NoArt}]
         /\ \A c \in Child : /\ legacy[c] # a => legacy'[c] = legacy[c]
                             /\ legacy'[c] \in {legacy[c], NoArt}
         /\ \A b \in arts : b # a => \A c : b.child = c => Covered(c)'
  BY DEF TypeOK, Deleted, Covered

LEMMA DeleteReplacedKeeps ==
  ASSUME NEW j \in Job, Inv, DeleteReplaced(j), setting' = setting
  PROVE  Inv' /\ Finishes(j)
<1> DEFINE A == Artifact(j)
<1>1. run[j].pc = "delete" /\ UNCHANGED <<stored, root>>
  BY DEF DeleteReplaced, At
<1>2. run[j].then \in {"publish", "merge", "done"}
  BY <1>1 DEF Inv, TypeOK, Command, Good, Kinds, Signing
<1>3. PICK ref \in run[j].refs :
        /\ run' \in [Job -> Command] /\ \A k \in Job \ {j} : run'[k] = run[k]
        /\ run'[j].attempt = run[j].attempt /\ run'[j].child = run[j].child
        /\ run'[j].merged = run[j].merged /\ run'[j].then = run[j].then
        /\ run'[j].refs = run[j].refs \ {ref} /\ run'[j].unseen = run[j].unseen
        /\ \/ Deleted(ref) /\ run'[j].pc = run[j].then /\ run'[j].refs = {}
           \/ Deleted(ref) /\ run'[j].pc = "delete" /\ run'[j].refs # {}
           \/ run'[j].pc = "rollback" /\ Deleted(ref) /\ setting.lost
           \/ run'[j].pc = "rollback" /\ UNCHANGED <<arts, legacy>>
  <2>1. PICK ref \in run[j].refs, reply \in Replies :
          /\ IF Took(reply) THEN Deleted(ref) ELSE UNCHANGED <<arts, legacy>>
          /\ run' = [run EXCEPT ![j].refs = run[j].refs \ {ref},
                 ![j].pc = IF reply # "done" THEN "rollback"
                           ELSE IF run[j].refs \ {ref} = {} THEN run[j].then ELSE "delete"]
    BY DEF DeleteReplaced
  <2> DEFINE next == IF reply # "done" THEN "rollback"
                     ELSE IF run[j].refs \ {ref} = {} THEN run[j].then ELSE "delete"
  <2>2. next \in Progress
    BY <1>2 DEF Progress, Ended
  <2>3. \/ reply = "done" /\ Deleted(ref)
        \/ reply = "lost" /\ Deleted(ref) /\ setting.lost
        \/ reply = "refused" /\ UNCHANGED <<arts, legacy>>
    BY <2>1 DEF Replies, Took
  <2>4. run[j].refs \ {ref} \in SUBSET Artifacts
    BY DEF Inv, TypeOK, Command
  <2>5. run' = [run EXCEPT ![j].refs = run[j].refs \ {ref}, ![j].pc = next]
    BY <2>1
  <2>6. \/ next = "rollback" /\ reply # "done"
        \/ next = run[j].then /\ run[j].refs \ {ref} = {} /\ reply = "done"
        \/ next = "delete" /\ run[j].refs \ {ref} # {} /\ reply = "done"
    OBVIOUS
  <2> HIDE DEF next
  <2> QED
    BY <2>2, <2>3, <2>4, <2>5, <2>6 DEF Inv, TypeOK, Command
<1>4. /\ run[j].child \in stored /\ run[j].child \in Child
      /\ Request[j].op # "pull" /\ Signed(j) /\ Active(j)
      /\ A \in Artifacts /\ A # NoArt /\ Own(j, A) /\ A.id = <<j, run[j].attempt>>
      /\ A.child = run[j].child /\ A.evidence = Evidence(j)
      /\ Evidence(j)' = Evidence(j) /\ Artifact(j)' = A
  BY <1>1, <1>3, Mine DEF Signing
<1>5. /\ Request[j].overwrite /\ Request[j].op # "push"
      /\ \A r \in run[j].refs : r.child = run[j].child /\ r # A
  BY <1>1, <1>4, RequestAssumption DEF Inv, Good, Found
<1>6. Undisturbed => A \in arts /\ run[j].refs \subseteq arts
  BY <1>1, <1>5 DEF Inv, Good, Replaces
<1> HIDE DEF A
<1>7. /\ arts' \in {arts, arts \ {ref}} /\ legacy' \in [Child -> arts' \cup {NoArt}]
      /\ \A c \in Child : legacy'[c] \in {legacy[c], NoArt}
      /\ legacy[run[j].child] = A => legacy'[run[j].child] = A
      /\ run'[j].pc # "rollback" => arts' = arts \ {ref}
      /\ ~setting.lost /\ run'[j].pc = "rollback" => arts' = arts
  BY <1>2, <1>3, <1>4, <1>5, DeletedIs DEF Inv, TypeOK
<1>8. TypeOK'
  BY <1>1, <1>3, <1>7 DEF Inv, TypeOK
<1>9. (Undisturbed)' = Undisturbed
  BY DEF Undisturbed, OneReplaces
<1>10. Undisturbed => A \in arts' /\ \A c \in Child : Covered(c) => Covered(c)'
  BY <1>3, <1>4, <1>5, <1>6, <1>7 DEF Covered
<1>11. ~setting.overlap => legacy'[run[j].child] = A
  BY <1>1, <1>4, <1>7 DEF Inv, Good, Settled, A
<1>12. /\ ~setting.overlap /\ setting.referrers /\ run'[j].pc # "rollback" =>
            Of(run[j].child)' = run'[j].refs \cup run[j].unseen \cup {A}
       /\ ~setting.overlap => run'[j].refs \cap run[j].unseen = {}
       /\ A \notin run[j].unseen
  <2>1. /\ ~setting.overlap /\ setting.referrers =>
             Of(run[j].child) = run[j].refs \cup run[j].unseen \cup {A}
        /\ ~setting.overlap => run[j].refs \cap run[j].unseen = {}
    BY <1>1, <1>4 DEF Inv, Good, Settled, A
  <2>2. arts' = arts \ {ref} => Of(run[j].child)' = Of(run[j].child) \ {ref}
    BY <1>3 DEF Of
  <2>3. A \notin run[j].unseen
    BY <1>1, <1>4 DEF Inv, Good, Found
  <2>4. run'[j].refs = run[j].refs \ {ref} /\ ref \in run[j].refs
    BY <1>3
  <2> QED
    BY <1>5, <1>7, <2>1, <2>2, <2>3, <2>4
<1>13. ASSUME ~setting.overlap, run'[j].pc = run[j].then PROVE Sole(j)'
  <2>1. run'[j].pc # "rollback" /\ run'[j].refs = {}
    BY <1>2, <1>3, <1>13
  <2>2. SignatureReferences(run[j].child)' \ run[j].unseen = {A}
    <3>1. CASE setting.referrers
      <4>1. Of(run[j].child)' = run[j].unseen \cup {A}
        BY <1>12, <1>13, <2>1, <3>1
      <4>2. SignatureReferences(run[j].child)' = Of(run[j].child)'
        BY <1>3, <4>1, <3>1 DEF SignatureReferences, Referrers, Of
      <4> QED
        BY <1>12, <4>1, <4>2
    <3>2. CASE ~setting.referrers
      <4>1. SignatureReferences(run[j].child)' = {A}
        BY <1>3, <1>4, <1>11, <1>13, <3>2 DEF SignatureReferences, Referrers, Tagged
      <4> QED
        BY <1>12, <4>1
    <3> QED
      BY <3>1, <3>2
  <2> QED
    BY <1>3, <1>4, <2>2 DEF Sole, One
<1>14. Finishes(j)
  BY <1>2, <1>3, <1>4, <1>13 DEF Finishes
<1>15. Good(j)'
  <2>1. Kinds(j)' /\ Complete(j)'
    BY <1>1, <1>2, <1>3, <1>4 DEF Inv, Good, Kinds, Complete, Signing, Publishes
  <2>2. Made(j)'
    <3>1. ~Unpacked(j)'
      BY <1>1, <1>2, <1>3 DEF Inv, Good, Kinds, Unpacked, Signing
    <3> QED
      BY <1>3, <1>7, <3>1 DEF Inv, Good, Made
  <2>3. Found(j)'
    BY <1>1, <1>2, <1>3, <1>5 DEF Inv, Good, Found
  <2>4. Replaces(j)'
    <3> SUFFICES ASSUME Undisturbed PROVE Replaces(j)'
      BY <1>9 DEF Replaces
    <3>1. run'[j].pc = "delete" => run'[j].refs \subseteq arts'
      BY <1>3, <1>6, <1>7
    <3>2. run'[j].pc = "rollback" => \E a \in arts' : a.child = run[j].child /\ a # A
      BY <1>3, <1>5, <1>6, <1>7 DEF Undisturbed
    <3> QED
      BY <1>2, <1>3, <1>4, <1>10, <3>1, <3>2 DEF Replaces
  <2>5. Covers(j)'
    <3>1. Undisturbed => Covered(run[j].child)'
      BY <1>3, <1>4, <1>10 DEF Covered
    <3> QED
      BY <1>3, <1>9, <1>10, <3>1 DEF Inv, Good, Covers
  <2>6. Verifying(j)' /\ Retries(j)'
    BY <1>4, <1>5 DEF Verifying, Retries
  <2>7. Settled(j)'
    <3> SUFFICES ASSUME ~setting.overlap PROVE Settled(j)'
      BY DEF Settled
    <3> QED
      BY <1>2, <1>3, <1>4, <1>11, <1>12, <1>13 DEF Settled, Ready
  <2> QED
    BY <2>1, <2>2, <2>3, <2>4, <2>5, <2>6, <2>7 DEF Good
<1>16. \A a \in Arch : root'.entry[a] \in stored' \cup {NoChild}
  BY <1>1 DEF Inv, World
<1>17. /\ \A c \in Child : legacy'[c] # NoArt => legacy'[c].child = c
       /\ Undisturbed => \A a \in Arch :
            root'.entry[a] \in {NoChild} \cup {c \in Child : Exempt(c) \/ Covered(c)'}
  BY <1>1, <1>7, <1>10 DEF Inv, World
<1>18. stored \subseteq stored' /\ arts' \subseteq arts
  BY <1>1, <1>7
<1> QED
  BY <1>3, <1>4, <1>5, <1>8, <1>10, <1>14, <1>15, <1>16, <1>17, <1>18, Loudly

LEMMA RollBackKeeps ==
  ASSUME NEW j \in Job, Inv, RollBack(j), setting' = setting
  PROVE  Inv' /\ Finishes(j)
<1> DEFINE A == Artifact(j)
<1>1. /\ run[j].pc = "rollback" /\ UNCHANGED <<stored, root>>
      /\ run' \in [Job -> Command] /\ \A k \in Job \ {j} : run'[k] = run[k]
      /\ run'[j].attempt = run[j].attempt /\ run'[j].child = run[j].child
      /\ run'[j].merged = run[j].merged /\ run'[j].pc = "failed"
      /\ Deleted(A) \/ UNCHANGED <<arts, legacy>>
  BY DEF RollBack, Goto, At, Inv, TypeOK, Command, Progress, Ended
<1>2. /\ run[j].child \in stored /\ run[j].child \in Child
      /\ Request[j].op # "pull" /\ Signed(j) /\ Active(j) /\ A.child = run[j].child
  BY <1>1, Mine DEF Signing
<1>3. Request[j].overwrite /\ Request[j].op # "push"
  BY <1>1, RequestAssumption DEF Inv, Good, Found
<1>4. Undisturbed => \E a \in arts : a.child = run[j].child /\ a # A
  BY <1>1, <1>3 DEF Inv, Good, Replaces
<1> HIDE DEF A
<1>5. /\ arts' \in {arts, arts \ {A}} /\ legacy' \in [Child -> arts' \cup {NoArt}]
      /\ \A c \in Child : legacy'[c] \in {legacy[c], NoArt}
  BY <1>1, DeletedIs DEF Inv, TypeOK
<1>6. TypeOK'
  BY <1>1, <1>5 DEF Inv, TypeOK
<1>7. (Undisturbed)' = Undisturbed
  BY DEF Undisturbed, OneReplaces
<1>8. Undisturbed => \A c \in Child : Covered(c) => Covered(c)'
  BY <1>2, <1>4, <1>5 DEF Covered
<1>9. Good(j)'
  <2>1. Kinds(j)' /\ Complete(j)' /\ Made(j)' /\ Found(j)'
    BY <1>1, <1>5
       DEF Inv, Good, Kinds, Complete, Made, Found, Ready, Unpacked, Signing, Publishes
  <2>2. Replaces(j)' /\ Covers(j)'
    BY <1>1, <1>7, <1>8 DEF Inv, Good, Replaces, Covers, Ready
  <2>3. Verifying(j)' /\ Retries(j)' /\ Settled(j)'
    BY <1>1, <1>2, <1>3 DEF Verifying, Retries, Settled, Ready
  <2> QED
    BY <2>1, <2>2, <2>3 DEF Good
<1>10. \A a \in Arch : root'.entry[a] \in stored' \cup {NoChild}
  BY <1>1 DEF Inv, World
<1>11. /\ \A c \in Child : legacy'[c] # NoArt => legacy'[c].child = c
       /\ Undisturbed => \A a \in Arch :
            root'.entry[a] \in {NoChild} \cup {c \in Child : Exempt(c) \/ Covered(c)'}
  BY <1>1, <1>5, <1>8 DEF Inv, World
<1>12. stored \subseteq stored' /\ arts' \subseteq arts
  BY <1>1, <1>5
<1>13. Finishes(j)
  BY <1>1 DEF Finishes
<1> QED
  BY <1>1, <1>2, <1>3, <1>6, <1>8, <1>9, <1>10, <1>11, <1>12, <1>13, Loudly

-----------------------------------------------------------------------------
LEMMA Inductive == Inv /\ [Next]_vars => Inv'
<1> SUFFICES ASSUME Inv, [Next]_vars PROVE Inv'
  OBVIOUS
<1>1. CASE UNCHANGED vars
  <2>1. UNCHANGED <<stored, root, arts, legacy, run, setting>>
    BY <1>1 DEF vars
  <2>2. TypeOK' /\ World'
    BY <2>1 DEF Inv, TypeOK, World, Undisturbed, OneReplaces, Covered, Active
  <2>3. ASSUME NEW j \in Job PROVE Good(j)'
    <3>1. Ready(j)' = Ready(j) /\ Unpacked(j)' = Unpacked(j)
      BY <2>1 DEF Ready, Unpacked
    <3>2. Kinds(j)' /\ Complete(j)' /\ Made(j)' /\ Found(j)' /\ Verifying(j)'
      BY <2>1, <3>1 DEF Inv, Good, Kinds, Complete, Made, Found, Verifying
    <3>3. Replaces(j)' /\ Covers(j)' /\ Retries(j)' /\ Settled(j)'
      BY <2>1, <3>1, Steady DEF Inv, Good, Replaces, Covers, Retries, Settled
    <3> QED
      BY <3>2, <3>3 DEF Good
  <2> QED
    BY <2>2, <2>3 DEF Inv
<1>2. CASE Next
  <2>1. PICK j \in Job : Step(j) /\ setting' = setting
    BY <1>2 DEF Next
  <2> QED
    BY <2>1, StartKeeps, ReadFailsKeeps, MergeKeeps, ExistsKeeps, EnsureTagAvailableKeeps,
       StoreKeeps, PublishRootKeeps, ResolveKeeps, DiscoverKeeps, CompareKeeps, PackKeeps,
       LabelKeeps, DeleteReplacedKeeps, RollBackKeeps, FetchSignatureKeeps,
       VerifySignatureKeeps, WriteArchiveKeeps DEF Step
<1> QED
  BY <1>1, <1>2

THEOREM Invariant == Spec => []Inv
  BY Initially, Inductive, PTL DEF Spec

\* The tag never names a bundle whose content the repository does not hold.
THEOREM ContentBeforeTag == Spec => []RootComplete
<1>1. Inv => RootComplete
  BY DEF Inv, World, RootComplete
<1> QED
  BY <1>1, Invariant, PTL

\* A bundle all of whose publishers sign it is not to be seen at the tag without a
\* signature, as long as failed requests have no effect, the registry answers the referrers
\* API and signatures are not replaced by two commands at once.
THEOREM SignatureBeforeTag == Spec => []SignedWhenVisible
<1>1. Inv => SignedWhenVisible
  <2> SUFFICES ASSUME Inv, Undisturbed, NEW a \in Arch, root.entry[a] # NoChild,
                      ~Exempt(root.entry[a])
               PROVE  SignatureReferences(root.entry[a]) # {}
    BY DEF SignedWhenVisible, Undisturbed, Exempt
  <2>1. root.entry[a] \in Child /\ Covered(root.entry[a])
    BY DEF Inv, World
  <2> QED
    BY <2>1, References DEF Inv, Undisturbed, Covered, Of
<1> QED
  BY <1>1, Invariant, PTL

\* What is pulled under a policy was signed by whom the policy names, for the child pulled.
THEOREM VerifiedBeforeKept == Spec => []VerifiedArchive
<1>1. Inv => VerifiedArchive
  BY DEF Inv, Good, Verifying, VerifiedArchive, At
<1> QED
  BY <1>1, Invariant, PTL

\* A push run again is not refused because of its own artifact.
THEOREM RetriesSucceed == Spec => []RetryNotRefused
<1>1. Inv => RetryNotRefused
  BY DEF Inv, Good, Retries, RetryNotRefused, At
<1> QED
  BY <1>1, Invariant, PTL

\* A command that ends with its evidence published leaves no other to discover than what
\* the registry refused to name when it looked, when no other command runs at the same
\* time: whatever failed before.
THEOREM OneSignatureAfterSigning == Spec => SingletonWhenSerial
<1>1. Inv /\ [Next]_vars => [~setting.overlap => \A j \in Job : Singleton(j)]_vars
  <2> SUFFICES ASSUME Inv, Next, ~setting.overlap, NEW j \in Job,
                      Request[j].op # "pull", Signed(j), Active(j), run'[j].pc = "done"
               PROVE  LET left == (SignatureReferences(run[j].child) \ run[j].unseen)'
                      IN  One(left) /\ \A r \in left : r.evidence = Evidence(j)
    BY DEF Singleton
  <2>1. PICK k \in Job : Step(k) /\ setting' = setting
    BY DEF Next
  <2>2. Finishes(k)
    BY <2>1, StartKeeps, ReadFailsKeeps, MergeKeeps, ExistsKeeps, EnsureTagAvailableKeeps,
       StoreKeeps, PublishRootKeeps, ResolveKeeps, DiscoverKeeps, CompareKeeps, PackKeeps,
       LabelKeeps, DeleteReplacedKeeps, RollBackKeeps, FetchSignatureKeeps,
       VerifySignatureKeeps, WriteArchiveKeeps DEF Step
  <2>3. j = k
    BY <2>1 DEF Inv, TypeOK, Active, Ended, Step, Start, ReadFails, Merge, Exists,
       EnsureTagAvailable, Copy, PushDerivative, StoreChild, PublishRoot, Resolve, Discover,
       Compare, Pack, Label, DeleteReplaced, RollBack, FetchSignature, VerifySignature,
       WriteArchive, Goto, After
  <2> QED
    BY <2>2, <2>3 DEF Finishes, Sole
<1> QED
  BY <1>1, Invariant, PTL DEF Spec, SingletonWhenSerial
=============================================================================
