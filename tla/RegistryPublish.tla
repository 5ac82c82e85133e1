--------------------------- MODULE RegistryPublish ---------------------------
(***************************************************************************)
(* Bundles and their signatures in one repository of an OCI registry, seen *)
(* through one tag: internal/oci (push.go, transfer.go, root_index.go,     *)
(* signature.go, content.go, bundle_index.go, pull.go) under the four      *)
(* commands of pkg/bundle that change or read it: push, reconfigure (of an *)
(* OCI source, to the derivative tag), sign and pull.                      *)
(*                                                                         *)
(* A tag points at a root index with one child bundle per architecture.    *)
(* The registry has no compare-and-swap: a push reads the root index,      *)
(* merges its child into what it read, copies the child's graph, publishes *)
(* the signature and at last puts the merged index at the tag. Every one   *)
(* of these is a request of its own, which may be refused, or carried out  *)
(* with its answer lost.                                                   *)
(*                                                                         *)
(* Abstractions. A child stands for its content, and graphs are copied     *)
(* leaves first, so "stored" holds exactly the children whose index, and   *)
(* with it the whole graph, is there. An index digest is its content: two  *)
(* roots are the same iff their entries are. A signature artifact has an   *)
(* identity of its own, because its manifest carries the creation time.    *)
(***************************************************************************)
EXTENDS Naturals

CONSTANTS
    Job,          \* the commands, each run by one process
    Child,        \* child bundle indexes
    Arch,         \* architectures
    Request,      \* Request[j]: what the command is asked to do
    InitialRoots, \* what the tag may point at before any of them runs
    Setting       \* the circumstances: see SettingType

(* jobs: the commands that are run; overlap: they may run at the same     *)
(* time; lost: a request may take effect and still be reported failed;     *)
(* referrers: the registry answers the referrers API; attempts: how often  *)
(* one command is run (bound).                                             *)
SettingType(s) ==
    /\ s.jobs \subseteq Job
    /\ s.overlap \in BOOLEAN /\ s.lost \in BOOLEAN /\ s.referrers \in BOOLEAN
    /\ s.attempts \in Nat

Op == {"push", "reconfigure", "sign", "pull"}
NoChild  == "no child"
Unsigned == "no signer"
Elder    == "elder" \* who signed what the repository holds at first

(* An empty tag, a tag at something that is not a bundle root, or a root. *)
Root == [kind : {"absent", "foreign", "root"}, entry : [Arch -> Child \cup {NoChild}]]
Bare(kind) == [kind |-> kind, entry |-> [a \in Arch |-> NoChild]]

(* op; arch; child (push: the archive's index, reconfigure: the index it   *)
(* builds, NoChild otherwise); signer (who signs, or whose signature a pull *)
(* verifies, Unsigned for neither); overwrite.                              *)
Signed(j) == Request[j].signer # Unsigned

ASSUME RequestAssumption ==
    /\ \A s \in Setting : SettingType(s)
    /\ InitialRoots \subseteq Root
    /\ NoChild \notin Child
    /\ Elder \notin Job
    /\ \A j \in Job :
        /\ Request[j].op \in Op
        /\ Request[j].arch \in Arch
        /\ Request[j].child \in Child \cup {NoChild}
        /\ Request[j].op \in {"push", "reconfigure"} <=> Request[j].child # NoChild
        /\ Request[j].overwrite \in BOOLEAN
        /\ Request[j].op = "push" => ~Request[j].overwrite
        /\ Request[j].op = "sign" => Signed(j)

VARIABLES
    stored,  \* children whose graph the repository holds
    root,    \* what the tag points at
    arts,    \* the signature artifacts in the repository
    legacy,  \* legacy[c]: the artifact at the tag sha256-<c>, or NoArt
    run,     \* run[j]: the command's progress and local variables
    setting  \* the circumstances; never change

vars == <<stored, root, arts, legacy, run, setting>>

(***************************************************************************)
(* Signature artifacts.                                                    *)
(***************************************************************************)
NoEvidence == [signer |-> Unsigned, made |-> <<"none", 0>>]
NoArt == [id |-> <<"none", 0>>, child |-> NoChild, evidence |-> NoEvidence]

(* The evidence a command publishes: an archive carries its own, the same  *)
(* at every attempt; sign and reconfigure sign anew each time.             *)
Evidence(j) ==
    [signer |-> Request[j].signer,
     made   |-> IF Request[j].op = "push" THEN <<"archive", 0>> ELSE <<j, run[j].attempt>>]

Artifact(j) == [id |-> <<j, run[j].attempt>>, child |-> run[j].child, evidence |-> Evidence(j)]

(* What the two requests of signatureReferences answer when they are      *)
(* carried out: the referrers of the child, and the artifact at its tag.   *)
Of(c) == {a \in arts : a.child = c}
Referrers(c) == IF setting.referrers THEN Of(c) ELSE {}
Tagged(c) == {legacy[c]} \ {NoArt}

(* The evidence of a child: the referrers, or else the legacy tag. *)
SignatureReferences(c) == IF Referrers(c) # {} THEN Referrers(c) ELSE Tagged(c)

(* What a command may discover of it. When the referrers are refused the   *)
(* tag alone is taken for the answer; when there are none and the tag is    *)
(* refused, that is taken for no evidence. (Both refused is an error.)      *)
Discoveries(c) ==
    {SignatureReferences(c)}
    \cup (IF Tagged(c) # {} THEN {Tagged(c)} ELSE {})
    \cup (IF Referrers(c) = {} THEN {{}} ELSE {})

One(refs) == \E r \in refs : refs = {r}

(***************************************************************************)
(* The root index.                                                         *)
(***************************************************************************)
(* mergeRootIndex: the child's entry replaced, the entries of the other    *)
(* architectures kept, anything that is not a root superseded.             *)
MergeRootIndex(current, child, arch) ==
    [kind |-> "root", entry |-> [current.entry EXCEPT ![arch] = child]]

(***************************************************************************)
(* Requests to the registry.                                               *)
(***************************************************************************)
Replies == {"done", "refused"} \cup (IF setting.lost THEN {"lost"} ELSE {})
Took(reply) == reply # "refused"

Fresh(j) == [pc |-> "idle", attempt |-> 0, child |-> Request[j].child,
             merged |-> Bare("absent"), refs |-> {}, unseen |-> {}, then |-> "none", evidence |-> NoEvidence]

Ended == {"done", "failed", "refused", "taken"}
Active(j) == run[j].pc \notin Ended \cup {"idle"}

At(j, pc) == run[j].pc = pc
Goto(j, pc) == run' = [run EXCEPT ![j].pc = pc]
After(j, reply, pc) == Goto(j, IF reply = "done" THEN pc ELSE "failed")

Init ==
    /\ root \in InitialRoots
    /\ stored = {root.entry[a] : a \in Arch} \ {NoChild}
    /\ arts \in SUBSET {[id |-> <<Elder, 0>>, child |-> c,
                         evidence |-> [signer |-> Elder, made |-> <<"archive", 0>>]] : c \in stored}
    /\ legacy = [c \in Child |-> IF \E a \in arts : a.child = c
                                 THEN CHOOSE a \in arts : a.child = c ELSE NoArt]
    /\ run = [j \in Job |-> Fresh(j)]
    /\ setting \in Setting

(* A push begins by merging its child into the tag's root, a reconfigure   *)
(* by making sure there is none, sign and pull by resolving their child.   *)
FirstRequest(op) ==
    CASE op = "push" -> "merge" [] op = "reconfigure" -> "ensure" [] OTHER -> "resolve"

(* The command is started, or run again after it failed. *)
Start(j) ==
    /\ j \in setting.jobs
    /\ run[j].pc \in {"idle", "failed"}
    /\ run[j].attempt < setting.attempts
    /\ setting.overlap \/ \A k \in Job : ~Active(k)
    /\ run' = [run EXCEPT ![j] =
        [Fresh(j) EXCEPT !.attempt = run[j].attempt + 1,
                         !.pc = FirstRequest(Request[j].op)]]
    /\ UNCHANGED <<stored, root, arts, legacy>>

(* Any read, or any local step, may fail: the command ends with an error. *)
ReadFails(j) ==
    /\ run[j].pc \in {"merge", "exists", "ensure", "resolve", "discover", "compare",
                      "fetch", "read", "archive"}
    /\ Goto(j, "failed")
    /\ UNCHANGED <<stored, root, arts, legacy>>

(***************************************************************************)
(* Mutants of the code, for the properties to reject.                      *)
(***************************************************************************)
(* A copy that failed is not noticed. *)
CopyUnchecked(j) ==
    /\ At(j, "copy") /\ Request[j].op = "push"
    /\ stored' \in {stored, stored \cup {run[j].child}}
    /\ run' = [run EXCEPT ![j].then = "publish",
                          ![j].pc = IF Signed(j) THEN "discover" ELSE "publish"]
    /\ UNCHANGED <<root, arts, legacy>>

(* The old artifacts are deleted before the replacement is packed. *)
DiscoverAndDelete(j) ==
    /\ At(j, "discover")
    /\ \E refs \in Discoveries(run[j].child) :
        /\ IF refs # {} /\ Request[j].overwrite
           THEN arts' = arts \ refs /\ legacy' = [legacy EXCEPT ![run[j].child] = NoArt]
           ELSE UNCHANGED <<arts, legacy>>
        /\ Goto(j, IF refs # {} /\ ~Request[j].overwrite THEN "refused" ELSE "pack")
    /\ UNCHANGED <<stored, root>>

(* The signature is accepted whoever made it. *)
VerifyAnySigner(j) ==
    LET ref == CHOOSE r \in run[j].refs : TRUE IN
    /\ At(j, "read")
    /\ IF ref \in arts
       THEN run' = [run EXCEPT ![j].evidence = ref.evidence, ![j].pc = "archive"]
       ELSE Goto(j, "failed")
    /\ UNCHANGED <<stored, root, arts, legacy>>

(* The replaced artifacts are left where they are. *)
LabelOnly(j) ==
    /\ At(j, "label")
    /\ legacy' = [legacy EXCEPT ![run[j].child] = Artifact(j)]
    /\ Goto(j, run[j].then)
    /\ UNCHANGED <<stored, root, arts>>

(* Evidence that exists is refused without being compared. *)
DiscoverOnly(j) ==
    /\ At(j, "discover")
    /\ \E refs \in Discoveries(run[j].child) :
        run' = [run EXCEPT ![j].refs = refs,
                           ![j].pc = IF refs # {} /\ ~Request[j].overwrite THEN "refused" ELSE "pack"]
    /\ UNCHANGED <<stored, root, arts, legacy>>

(***************************************************************************)
(* The steps of push and reconfigure.                                      *)
(***************************************************************************)
(* A reconfigure has only the root left to publish, if that has changed.   *)
PublishBundleRootIndex(merged) == IF merged = root THEN "done" ELSE "publish"

(* Merge: pushBundleToRemote and PublishBundleRootIndex read the tag and   *)
(* merge the child into what they found. A root that would not change is   *)
(* not written again: a push then only makes sure the content is there.    *)
Merge(j) ==
    /\ At(j, "merge")
    /\ LET merged == MergeRootIndex(root, run[j].child, Request[j].arch) IN
       run' = [run EXCEPT ![j].merged = merged,
           ![j].pc = IF Request[j].op = "push"
                     THEN IF merged = root THEN "exists" ELSE "copy"
                     ELSE PublishBundleRootIndex(merged)]
    /\ UNCHANGED <<stored, root, arts, legacy>>

Exists(j) ==
    /\ At(j, "exists")
    /\ run' = [run EXCEPT ![j].then = "done",
           ![j].pc = IF run[j].child \notin stored THEN "copy"
                     ELSE IF Signed(j) THEN "discover" ELSE "done"]
    /\ UNCHANGED <<stored, root, arts, legacy>>

(* EnsureTagAvailable, when reconfigure begins. *)
EnsureTagAvailable(j) ==
    /\ At(j, "ensure")
    /\ Goto(j, IF root.kind = "absent" THEN "copy" ELSE "taken")
    /\ UNCHANGED <<stored, root, arts, legacy>>

(* The content of the child is stored: the signature comes next, if there  *)
(* is one to publish, and then the tag.                                    *)
StoreChild(j, next) ==
    \E reply \in Replies :
        /\ stored' = IF Took(reply) THEN stored \cup {run[j].child} ELSE stored
        /\ run' = [run EXCEPT ![j].then = next,
               ![j].pc = IF reply # "done" THEN "failed"
                         ELSE IF Signed(j) THEN "discover" ELSE next]

(* copyGraph: a push copies the graph without tagging it. *)
Copy(j) ==
    /\ At(j, "copy") /\ Request[j].op = "push"
    /\ StoreChild(j, "publish")
    /\ UNCHANGED <<root, arts, legacy>>

(* A reconfigure pushes the new defaults, HCL and definition manifest and, *)
(* last, the index; the tag is read and merged only after the signature.   *)
PushDerivative(j) ==
    /\ At(j, "copy") /\ Request[j].op = "reconfigure"
    /\ StoreChild(j, "merge")
    /\ UNCHANGED <<root, arts, legacy>>

(* PushReferenceBytes: the root index is stored at the tag. *)
PublishRoot(j) ==
    /\ At(j, "publish")
    /\ \E reply \in Replies :
        /\ root' = IF Took(reply) THEN run[j].merged ELSE root
        /\ After(j, reply, "done")
    /\ UNCHANGED <<stored, arts, legacy>>

(* ResolveBundleChild, for sign and pull: the entry of the architecture. *)
Resolve(j) ==
    LET child == root.entry[Request[j].arch] IN
    /\ At(j, "resolve")
    /\ IF child \in stored
       THEN run' = [run EXCEPT ![j].child = child, ![j].then = "done",
                ![j].pc = IF Request[j].op = "sign" THEN "discover"
                          ELSE IF Signed(j) THEN "fetch" ELSE "archive"]
       ELSE Goto(j, "failed")
    /\ UNCHANGED <<stored, root, arts, legacy>>

(***************************************************************************)
(* PublishBundleSignature.                                                 *)
(***************************************************************************)
(* Discover the evidence there is. A single artifact is compared with the  *)
(* evidence to publish; any other is only replaced when asked to.          *)
(* ("unseen" notes, for the properties, what was there all the same.)      *)
Discover(j) ==
    /\ At(j, "discover")
    /\ \E refs \in Discoveries(run[j].child) :
        run' = [run EXCEPT ![j].refs = refs,
               ![j].unseen = SignatureReferences(run[j].child) \ refs,
               ![j].pc = IF One(refs) THEN "compare"
                         ELSE IF refs # {} /\ ~Request[j].overwrite THEN "refused" ELSE "pack"]
    /\ UNCHANGED <<stored, root, arts, legacy>>

(* The artifact may be gone by the time it is read: that is an error, but  *)
(* one an overwrite ignores, like any other failure to read it.            *)
Compare(j) ==
    LET ref == CHOOSE r \in run[j].refs : TRUE IN
    /\ At(j, "compare")
    /\ \/ /\ ref \in arts
          /\ Goto(j, IF ref.evidence = Evidence(j) THEN run[j].then
                     ELSE IF Request[j].overwrite THEN "pack" ELSE "refused")
       \/ /\ Request[j].overwrite
          /\ Goto(j, "pack")
       \/ /\ ref \notin arts /\ ~Request[j].overwrite
          /\ Goto(j, "failed")
    /\ UNCHANGED <<stored, root, arts, legacy>>

(* PushBytes and PackManifest: the artifact refers to the child. *)
Pack(j) ==
    /\ At(j, "pack")
    /\ \E reply \in Replies :
        /\ arts' = IF Took(reply) THEN arts \cup {Artifact(j)} ELSE arts
        /\ After(j, reply, "label")
    /\ UNCHANGED <<stored, root, legacy>>

(* Tag: the legacy tag of the child now names the new artifact. An artifact *)
(* another overwrite deleted meanwhile cannot be tagged.                    *)
Label(j) ==
    /\ At(j, "label")
    /\ \E reply \in (IF Artifact(j) \in arts THEN Replies ELSE {"refused"}) :
        /\ legacy' = IF Took(reply) THEN [legacy EXCEPT ![run[j].child] = Artifact(j)] ELSE legacy
        /\ After(j, reply, IF run[j].refs = {} THEN run[j].then ELSE "delete")
    /\ UNCHANGED <<stored, root, arts>>

(* Deleting a manifest removes the tags that name it. *)
Deleted(a) ==
    /\ arts' = arts \ {a}
    /\ legacy' = [c \in Child |-> IF legacy[c] = a THEN NoArt ELSE legacy[c]]

(* The replaced artifacts are deleted one by one; one that is gone is fine. *)
DeleteReplaced(j) ==
    /\ At(j, "delete")
    /\ \E ref \in run[j].refs, reply \in Replies :
        LET left == run[j].refs \ {ref} IN
        /\ IF Took(reply) THEN Deleted(ref) ELSE UNCHANGED <<arts, legacy>>
        /\ run' = [run EXCEPT ![j].refs = left,
               ![j].pc = IF reply # "done" THEN "rollback"
                         ELSE IF left = {} THEN run[j].then ELSE "delete"]
    /\ UNCHANGED <<stored, root>>

(* A replaced artifact could not be deleted: the replacement is. *)
RollBack(j) ==
    /\ At(j, "rollback")
    /\ \E reply \in Replies :
        IF Took(reply) THEN Deleted(Artifact(j)) ELSE UNCHANGED <<arts, legacy>>
    /\ Goto(j, "failed")
    /\ UNCHANGED <<stored, root>>

(***************************************************************************)
(* PullBundle.                                                             *)
(***************************************************************************)
(* FetchBundleSignature, before the copy when there is a policy to verify  *)
(* against and after it otherwise. Exactly one artifact is acceptable.     *)
FetchSignature(j) ==
    /\ At(j, "fetch")
    /\ \E refs \in Discoveries(run[j].child) :
        IF One(refs)
        THEN run' = [run EXCEPT ![j].refs = refs, ![j].pc = "read"]
        ELSE Goto(j, "failed")
    /\ UNCHANGED <<stored, root, arts, legacy>>

(* The evidence is read, verified against the policy and kept. *)
VerifySignature(j) ==
    LET ref == CHOOSE r \in run[j].refs : TRUE IN
    /\ At(j, "read")
    /\ IF ref \in arts /\ ref.evidence.signer = Request[j].signer
       THEN run' = [run EXCEPT ![j].evidence = ref.evidence, ![j].pc = "archive"]
       ELSE Goto(j, "failed")
    /\ UNCHANGED <<stored, root, arts, legacy>>

(* The graph is copied and the archive written, with the evidence already  *)
(* verified or, without a policy, with the single evidence there is, if it  *)
(* could be read.                                                           *)
WriteArchive(j) ==
    LET single == UNION {refs \in Discoveries(run[j].child) : One(refs)} IN
    /\ At(j, "archive")
    /\ run[j].child \in stored
    /\ \E evidence \in {run[j].evidence} \cup
            (IF Signed(j) THEN {} ELSE {r.evidence : r \in single}) :
            run' = [run EXCEPT ![j].evidence = evidence, ![j].pc = "done"]
    /\ UNCHANGED <<stored, root, arts, legacy>>

Step(j) ==
    \/ Start(j) \/ ReadFails(j)
    \/ Merge(j) \/ Exists(j) \/ EnsureTagAvailable(j) \/ Copy(j) \/ PushDerivative(j) \/ PublishRoot(j) \/ Resolve(j)
    \/ Discover(j) \/ Compare(j) \/ Pack(j) \/ Label(j) \/ DeleteReplaced(j) \/ RollBack(j)
    \/ FetchSignature(j) \/ VerifySignature(j) \/ WriteArchive(j)

Next == (\E j \in Job : Step(j)) /\ UNCHANGED setting

Spec == Init /\ [][Next]_vars

(***************************************************************************)
(* Properties.                                                             *)
(***************************************************************************)
(* The variables have their types. *)
Progress == {"idle", "merge", "exists", "ensure", "copy", "publish", "resolve", "discover",
             "compare", "pack", "label", "delete", "rollback", "fetch", "read", "archive"} \cup Ended

Evidences == [signer : {Request[j].signer : j \in Job} \cup {Elder, Unsigned},
              made   : (Job \cup {"archive", "none"}) \X Nat]
Artifacts == [id : (Job \cup {Elder}) \X Nat, child : Child, evidence : Evidences]

Command ==
    [pc : Progress, attempt : Nat, child : Child \cup {NoChild}, merged : Root,
     refs : SUBSET Artifacts, unseen : SUBSET Artifacts, then : {"none", "publish", "merge", "done"}, evidence : Evidences]

TypeOK ==
    /\ setting \in Setting
    /\ stored \subseteq Child
    /\ root \in Root
    /\ arts \subseteq Artifacts
    /\ legacy \in [Child -> arts \cup {NoArt}]
    /\ run \in [Job -> Command]

(* Whatever the interleaving and wherever a command fails, the tag never   *)
(* names a child bundle whose content the repository does not hold: the    *)
(* root is put at the tag last, and what was merged into it stays.         *)
RootComplete == TypeOK /\ \A a \in Arch : root.entry[a] \in stored \cup {NoChild}

(* As long as a failed request has no effect, the registry answers the     *)
(* referrers API and commands that replace signatures do not overlap, a    *)
(* bundle that every publisher signs is never to be seen at the tag without *)
(* a signature to discover: neither before its own signature is there nor  *)
(* while another command replaces that signature, or fails to.  (Two that  *)
(* replace at once may each roll back, and leave none.)                    *)
OneReplaces == setting.overlap =>
    \A j, k \in setting.jobs : Request[j].overwrite /\ Request[k].overwrite => j = k

Publishers(c) == {j \in Job : Request[j].child = c}

SignedWhenVisible ==
    ~setting.lost /\ setting.referrers /\ OneReplaces => \A c \in {root.entry[a] : a \in Arch} \ {NoChild} :
        \/ \E r \in InitialRoots, a \in Arch : r.entry[a] = c
        \/ \E j \in Publishers(c) : ~Signed(j)
        \/ SignatureReferences(c) # {}

(* An archive pulled under a verification policy holds the child the tag   *)
(* named when it was resolved, with evidence of the demanded signer that   *)
(* was published for this child and no other.                              *)
VerifiedArchive ==
    \A j \in Job : Request[j].op = "pull" /\ Signed(j) /\ At(j, "done") =>
        /\ run[j].evidence.signer = Request[j].signer
        /\ \A r \in run[j].refs : r.child = run[j].child /\ r.evidence = run[j].evidence

Singleton(j) ==
    Request[j].op # "pull" /\ Signed(j) /\ Active(j) /\ run'[j].pc = "done" =>
        LET left == (SignatureReferences(run[j].child) \ run[j].unseen)'
        IN  One(left) /\ \A r \in left : r.evidence = Evidence(j)

(* A command that published its evidence and succeeded leaves it as the    *)
(* only evidence of its child to discover, when commands are run one after *)
(* the other: however requests fail on the way and commands are run again, *)
(* and also where the evidence is found by the legacy tag alone.  Excepted *)
(* is evidence that the registry refused to name when the command looked   *)
(* for it (signature.go:121): what the command did not see it leaves, and  *)
(* succeeds. (Two publishers at once may leave two as well.)               *)
SingletonWhenSerial == [][~setting.overlap => \A j \in Job : Singleton(j)]_vars

(* A push that is run again is never refused because of nothing but what   *)
(* it published itself at an attempt that failed.                          *)
Own(j, artifact) == artifact.id[1] = j

RetryNotRefused ==
    \A j \in Job : At(j, "refused") /\ Request[j].op = "push" =>
        \E r \in run[j].refs : ~Own(j, r)
=============================================================================
