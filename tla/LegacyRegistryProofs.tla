------------------------- MODULE LegacyRegistryProofs -------------------------
(***************************************************************************)
(* Theorems about LegacyRegistry: for any bundles, tags and bounds, and    *)
(* whatever fails, is killed or is published by others in between, a tag   *)
(* leads to nothing that is missing but what a publish found and skipped,  *)
(* and an architecture that was announced stays under its tag unless       *)
(* something tore that tag.                                                *)
(***************************************************************************)
EXTENDS LegacyRegistry, TLAPS

\* A publish copies whatever it does not find the root of.
Copies == command = "create" \/ force \/ Root(bundle) \notin blobs

Skipped(p) == <<bundle.id, Manifest(p)>> \in holes

Places ==
    /\ Types
    /\ pc \in {"idle", "package", "layers", "index", "copy", "update"}
    /\ force \in BOOLEAN /\ pkg \in Nat \ {0}
    /\ pc = "idle" => pkg = 1
    /\ pc = "layers" => pkg \in DOMAIN bundle.pkgs
    /\ pc \in {"idle", "package", "index", "update"} => todo = {}
    /\ todo \subseteq Whole(bundle)

\* Where there is a root there is the rest of its bundle, and a tag leads to roots.
Kept == \A b \in Bundles : Root(b) \in blobs => Whole(b) \ Spared(b) \subseteq blobs
Leads(of, present) == \A a \in Archs : of[a] # "none" => Root(ById(of[a])) \in present
Rooted ==
    /\ \A t \in Tags : Leads(tags[t].of, blobs)
    /\ Leads(index, blobs)
    /\ pc = "update" => Root(bundle) \in blobs

\* A create has pushed the packages it has passed, and all but the root at the end.
Pushed(i) == {Manifest(bundle.pkgs[i])} \cup LayersOf(bundle.pkgs[i]) \subseteq blobs
Created ==
    /\ pc \in {"package", "layers"} => \A i \in DOMAIN bundle.pkgs : i < pkg => Pushed(i)
    /\ pc = "layers" => /\ Manifest(bundle.pkgs[pkg]) \in blobs
                        /\ LayersOf(bundle.pkgs[pkg]) \subseteq blobs \cup todo
                        /\ todo \subseteq LayersOf(bundle.pkgs[pkg])
    /\ pc \in {"index", "copy"} /\ command = "create" => Whole(bundle) \ {Root(bundle)} \subseteq blobs
    /\ pc \in {"package", "layers"} => command = "create"

\* What an attempt has not pushed it has still to do, and a package manifest that is there
\* and was not skipped has its layers.
Copied ==
    pc = "copy" /\ Copies =>
        /\ {Root(bundle), Own(bundle)} \cup Manifests(bundle) \subseteq blobs \cup todo
        /\ \A p \in Packages(bundle) : Skipped(p) \/ LayersOf(p) \subseteq blobs \cup todo
        /\ command = "publish" /\ ~force =>
             \A p \in Packages(bundle) :
                Manifest(p) \in blobs => Skipped(p) \/ LayersOf(p) \subseteq blobs

\* What was announced is in the index of its tag, or in the one that is about to be
\* written there, or its tag was torn.
Announced ==
    /\ announced \subseteq Tags \X Archs
    /\ \A e \in announced : \/ e[1] \in torn
                            \/ pc = "update" /\ at = e[1]
                            \/ tags[e[1]].index /\ tags[e[1]].of[e[2]] # "none"
    /\ pc \in {"copy", "update"} =>
         \A e \in announced : e[1] = bundle.version => e[1] \in torn \/ index[e[2]] # "none"
    /\ pc = "update" /\ at # bundle.version => at \in torn

Inv == Places /\ Kept /\ Rooted /\ Created /\ Copied /\ Announced

-----------------------------------------------------------------------------
(* What the blobs of the bundles have to do with each other.                *)

\* A bundle's identity and tag, and the places of its packages.
LEMMA BundleFacts ==
  ASSUME NEW b \in Bundles
  PROVE  /\ b.arch \in Archs /\ b.version \in Tags /\ b.id \in Ids /\ b.id # "none"
         /\ ById(b.id) = b
         /\ Len(b.pkgs) \in Nat /\ DOMAIN b.pkgs = 1 .. Len(b.pkgs)
         /\ Packages(b) = {b.pkgs[i] : i \in DOMAIN b.pkgs}
<1>1. b.id \in Ids
  BY DEF Ids
<1>2. ById(b.id) = b
  <2>1. \A c \in Bundles : c.id = b.id => c = b
    BY RegistryAssumption
  <2>2. \E c \in Bundles : c.id = b.id
    OBVIOUS
  <2> QED
    BY <2>1, <2>2 DEF ById
<1> QED
  BY <1>1, <1>2, RegistryAssumption DEF BundleOK, Packages

\* A blob is of one kind.
LEMMA KindsApart ==
  /\ \A b, c, p, q : /\ Root(b) # Own(c) /\ Root(b) # Manifest(p) /\ Root(b) \notin LayersOf(p)
                     /\ Own(b) # Manifest(p) /\ Own(b) \notin LayersOf(p)
                     /\ Manifest(p) \notin LayersOf(q)
  /\ \A b, c \in Bundles : Root(b) = Root(c) => b = c
<1>1. \A b, c, p, q : /\ Root(b) # Own(c) /\ Root(b) # Manifest(p) /\ Root(b) \notin LayersOf(p)
                      /\ Own(b) # Manifest(p) /\ Own(b) \notin LayersOf(p)
                      /\ Manifest(p) \notin LayersOf(q)
  BY DEF Root, Own, Manifest, LayersOf
<1>2. \A b, c \in Bundles : Root(b) = Root(c) => b = c
  BY RegistryAssumption DEF Root
<1> QED
  BY <1>1, <1>2

\* The parts of a bundle, one by one.
LEMMA WholeParts ==
  ASSUME NEW b, NEW x
  PROVE  x \in Whole(b) <=> \/ x = Root(b) \/ x = Own(b)
                            \/ \E p \in Packages(b) : x = Manifest(p) \/ x \in LayersOf(p)
  BY DEF Whole, Manifests

\* A bundle holds no other bundle's root.
LEMMA OwnRoot ==
  ASSUME NEW b \in Bundles, NEW c \in Bundles, Root(b) \in Whole(c)
  PROVE  b = c
  BY WholeParts, KindsApart

\* Bundles for different architectures share no package.
LEMMA OtherArchitecture ==
  ASSUME NEW b \in Bundles, NEW c \in Bundles, b.arch # c.arch, NEW p \in Packages(b)
  PROVE  Manifest(p) \notin Whole(c)
<1>1. ASSUME NEW q \in Packages(c)
      PROVE  Manifest(p) # Manifest(q)
  <2>1. PICK i \in DOMAIN b.pkgs : p = b.pkgs[i]
    BY DEF Packages
  <2>2. PICK j \in DOMAIN c.pkgs : q = c.pkgs[j]
    BY DEF Packages
  <2>3. b.pkgs[i].manifest # c.pkgs[j].manifest
    BY RegistryAssumption
  <2> QED
    BY <2>1, <2>2, <2>3 DEF Manifest
<1> QED
  BY <1>1, WholeParts, KindsApart

\* What reaches the registry belongs to a bundle.
LEMMA WholeInBlobs ==
  ASSUME NEW b \in Bundles
  PROVE  Whole(b) \subseteq Blobs
  BY DEF Blobs

\* What an attempt goes for belongs to the bundle.
LEMMA ReachedInWhole ==
  ASSUME NEW present
  PROVE  Reached(present) \subseteq Whole(bundle)
  BY DEF Reached, Whole, Manifests

-----------------------------------------------------------------------------
(* Initially.                                                               *)

\* The repository is empty.
LEMMA Initially == Init => Inv
<1> SUFFICES ASSUME Init PROVE Inv
  OBVIOUS
<1>1. bundle \in Bundles
  BY RegistryAssumption DEF Init
<1>2. NoEntries \in [Archs -> Ids \cup {"none"}]
  BY DEF NoEntries
<1>3. tags \in [Tags -> [index : BOOLEAN, of : [Archs -> Ids \cup {"none"}]]]
  BY <1>2 DEF Init, NoTag
<1>4. Types
  BY <1>1, <1>2, <1>3, BundleFacts, RegistryAssumption DEF Init, Types
<1>5. Places
  <2>1. force \in BOOLEAN
    BY ZenonT(20) DEF Init
  <2>2. pc = "idle" /\ pkg = 1 /\ todo = {}
    BY DEF Init
  <2> QED
    BY <1>4, <2>1, <2>2 DEF Places
<1>6. Kept /\ Created /\ Copied /\ Announced
  BY DEF Init, Kept, Created, Copied, Announced
<1>7. Rooted
  BY DEF Init, Rooted, Leads, NoTag, NoEntries
<1> QED
  BY <1>5, <1>6, <1>7 DEF Inv

-----------------------------------------------------------------------------
(* Types and program counter.                                               *)

\* What a tag may be set to, and what it then names.
LEMMA TagTypes ==
  ASSUME NEW b \in Bundles, NEW old \in [Archs -> Ids \cup {"none"}]
  PROVE  /\ NoEntries \in [Archs -> Ids \cup {"none"}]
         /\ AddToIndex(old, b) \in [Archs -> Ids \cup {"none"}]
         /\ AddToIndex(old, b)[b.arch] = b.id
         /\ \A a \in Archs \ {b.arch} : AddToIndex(old, b)[a] = old[a]
         /\ Bare(b) \in [index : BOOLEAN, of : [Archs -> Ids \cup {"none"}]]
         /\ \A a \in Archs : Bare(b).of[a] = "none" \/ Bare(b).of[a] = b.id
<1>1. NoEntries \in [Archs -> Ids \cup {"none"}]
  BY DEF NoEntries
<1>2. /\ AddToIndex(old, b) \in [Archs -> Ids \cup {"none"}]
      /\ AddToIndex(old, b)[b.arch] = b.id
      /\ \A a \in Archs \ {b.arch} : AddToIndex(old, b)[a] = old[a]
  BY BundleFacts DEF AddToIndex
<1>3. [NoEntries EXCEPT ![b.arch] = b.id] \in [Archs -> Ids \cup {"none"}]
  BY <1>1, BundleFacts
<1>4. \A a \in Archs : \/ [NoEntries EXCEPT ![b.arch] = b.id][a] = "none"
                       \/ [NoEntries EXCEPT ![b.arch] = b.id][a] = b.id
  BY DEF NoEntries
<1>5. Bare(b) \in [index : BOOLEAN, of : [Archs -> Ids \cup {"none"}]]
  BY <1>3 DEF Bare
<1>6. \A a \in Archs : Bare(b).of[a] = "none" \/ Bare(b).of[a] = b.id
  BY <1>4 DEF Bare
<1> QED
  BY <1>1, <1>2, <1>5, <1>6

\* Every step keeps the types and the program counter right.
LEMMA PlacesKept == Inv /\ [Next]_vars => Places'
<1> SUFFICES ASSUME Inv, [Next]_vars PROVE Places'
  OBVIOUS
<1>a. /\ Types /\ Places /\ bundle \in Bundles /\ blobs \subseteq Blobs
      /\ Whole(bundle) \subseteq Blobs
      /\ index \in [Archs -> Ids \cup {"none"}]
      /\ tags \in [Tags -> [index : BOOLEAN, of : [Archs -> Ids \cup {"none"}]]]
  BY WholeInBlobs DEF Inv, Places, Types
<1>b. NoEntries \in [Archs -> Ids \cup {"none"}]
  BY DEF NoEntries
<1> USE DEF Goto, work, history
<1>1. CASE Create
  <2>1. bundle' \in Bundles /\ at' \in Tags /\ force' \in BOOLEAN
    BY <1>1, BundleFacts, ZenonT(20) DEF Create, Begin
  <2> QED
    BY <1>a, <1>1, <2>1 DEF Create, Begin, Places, Types
<1>2. CASE Publish
  <2>1. bundle' \in Bundles /\ at' \in Tags /\ force' \in BOOLEAN
    BY <1>2, ZenonT(20) DEF Publish, Begin
  <2> QED
    BY <1>a, <1>2, <2>1 DEF Publish, Begin, Places, Types
<1>3. CASE PushManifest
  <2>1. pkg \in DOMAIN bundle.pkgs /\ bundle.pkgs[pkg] \in Packages(bundle)
    BY <1>a, <1>3, BundleFacts DEF PushManifest, Places
  <2>2. Manifest(bundle.pkgs[pkg]) \in Whole(bundle) /\ LayersOf(bundle.pkgs[pkg]) \subseteq Whole(bundle)
    BY <2>1, WholeParts
  <2> QED
    BY <1>a, <1>3, <2>1, <2>2 DEF PushManifest, Places, Types, Whole
<1>4. CASE PushLayer
  BY <1>a, <1>4 DEF PushLayer, Places, Types, Whole
<1>5. CASE NextPackage
  BY <1>a, <1>5 DEF NextPackage, Places, Types, Whole
<1>6. CASE PushOwn
  <2>1. Own(bundle) \in Blobs
    BY <1>a, WholeParts
  <2> QED
    BY <1>a, <1>6, <2>1 DEF PushOwn, Places, Types, Whole
<1>7. CASE ReadIndex
  <2>1. tags[bundle.version].of \in [Archs -> Ids \cup {"none"}]
    BY <1>a, BundleFacts
  <2>2. todo' \subseteq Whole(bundle)
    <3>1. Root(bundle) \in Whole(bundle)
      BY WholeParts
    <3> QED
      BY <1>7, <3>1, ReachedInWhole DEF ReadIndex
  <2>3. index' \in [Archs -> Ids \cup {"none"}]
    BY <1>7, <1>b, <2>1 DEF ReadIndex
  <2> QED
    BY <1>a, <1>7, <2>2, <2>3 DEF ReadIndex, Places, Types, Whole
<1>8. CASE CopyBlob
  BY <1>a, <1>8, RegistryAssumption DEF CopyBlob, Places, Types, Whole
<1>9. CASE PushRoot
  <2>1. Root(bundle) \in Blobs
    BY <1>a, WholeParts
  <2>2. tags' \in [Tags -> [index : BOOLEAN, of : [Archs -> Ids \cup {"none"}]]]
    BY <1>a, <1>9, TagTypes DEF PushRoot
  <2> QED
    BY <1>a, <1>9, <2>1, <2>2, RegistryAssumption DEF PushRoot, Places, Types, Whole
<1>10. CASE RetryCopy
  <2>1. todo' \subseteq Whole(bundle)
    BY <1>10, ReachedInWhole DEF RetryCopy
  <2>2. blobs' \subseteq Blobs
    BY <1>a, <1>10 DEF RetryCopy, Places
  <2>3. retries' \in 0 .. MaxRetries
    BY <1>a, <1>10, RegistryAssumption DEF RetryCopy, MayRetry, Types
  <2> QED
    BY <1>a, <1>10, <2>1, <2>2, <2>3 DEF RetryCopy, Places, Types, Whole
<1>11. CASE PushIndex
  <2>1. tags' \in [Tags -> [index : BOOLEAN, of : [Archs -> Ids \cup {"none"}]]]
    BY <1>a, <1>11, TagTypes, BundleFacts DEF PushIndex
  <2>2. force' \in BOOLEAN /\ at' \in Tags
    BY <1>a, <1>11, BundleFacts, ZenonT(20) DEF PushIndex, End
  <2> QED
    BY <1>a, <1>b, <1>11, <2>1, <2>2, RegistryAssumption DEF PushIndex, End, Places, Types
<1>12. ASSUME NEW how, Interrupt(how)
       PROVE  Places'
  <2>1. force' \in BOOLEAN /\ at' \in Tags
    BY <1>a, <1>12, BundleFacts, ZenonT(20) DEF Interrupt, End
  <2> QED
    BY <1>a, <1>b, <1>12, <2>1, RegistryAssumption DEF Interrupt, End, Places, Types
<1>13. CASE Other
  <2>1. PICK b \in {c \in Bundles : c.arch # bundle.arch} :
            /\ blobs' = blobs \cup Whole(b)
            /\ tags' = [tags EXCEPT ![b.version] =
                           [index |-> TRUE,
                            of |-> AddToIndex(IF tags[b.version].index THEN tags[b.version].of
                                              ELSE NoEntries, b)]]
    BY <1>13 DEF Other
  <2>2. (IF tags[b.version].index THEN tags[b.version].of ELSE NoEntries) \in [Archs -> Ids \cup {"none"}]
    BY <1>a, <1>b, BundleFacts
  <2>3. tags' \in [Tags -> [index : BOOLEAN, of : [Archs -> Ids \cup {"none"}]]]
    BY <1>a, <2>1, <2>2, TagTypes, BundleFacts
  <2> QED
    BY <1>a, <1>13, <2>1, <2>3, WholeInBlobs DEF Other, Places, Types, Whole
<1>14. CASE UNCHANGED vars \/ Terminating
  BY <1>a, <1>14 DEF Terminating, vars, Places, Types, Whole
<1> QED
  BY <1>1, <1>2, <1>3, <1>4, <1>5, <1>6, <1>7, <1>8, <1>9, <1>10, <1>11, <1>12, <1>13, <1>14
     DEF Next, Step

-----------------------------------------------------------------------------
(* What is in the repository.                                               *)

\* Nothing is taken away, and a root comes with its bundle, or as the last of its attempt.
LEMMA OneRoot ==
  ASSUME Inv, [Next]_vars
  PROVE  /\ blobs \subseteq blobs' /\ holes \subseteq holes'
         /\ \A b \in Bundles : Root(b) \in blobs' =>
               Root(b) \in blobs \/ Whole(b) \subseteq blobs' \/ (PushRoot /\ b = bundle)
<1>a. bundle \in Bundles /\ todo \subseteq Whole(bundle)
  BY DEF Inv, Places, Types
<1>b. \A b \in Bundles : Root(b) \in todo => b = bundle
  BY <1>a, OwnRoot
<1> USE DEF Goto, work, history
<1>1. CASE PushManifest
  BY <1>1, KindsApart DEF PushManifest
<1>2. CASE PushLayer
  <2>1. todo \subseteq LayersOf(bundle.pkgs[pkg])
    BY <1>2 DEF PushLayer, Inv, Created
  <2> QED
    BY <1>2, <2>1, KindsApart DEF PushLayer
<1>3. CASE PushOwn
  BY <1>3, KindsApart DEF PushOwn
<1>4. CASE CopyBlob
  BY <1>b, <1>4 DEF CopyBlob
<1>5. CASE PushRoot
  BY <1>a, <1>5, KindsApart DEF PushRoot
<1>6. CASE RetryCopy
  BY <1>b, <1>6 DEF RetryCopy
<1>7. CASE Other
  <2>1. PICK b \in Bundles : blobs' = blobs \cup Whole(b)
    BY <1>7 DEF Other
  <2>2. \A c \in Bundles : Root(c) \in Whole(b) => c = b
    BY OwnRoot
  <2> QED
    BY <1>7, <2>1, <2>2 DEF Other
<1>8. CASE ReadIndex
  BY <1>8 DEF ReadIndex
<1>9. CASE \/ Create \/ Publish \/ NextPackage \/ PushIndex \/ Interrupt("error") \/ Interrupt("killed")
           \/ Terminating \/ UNCHANGED vars
  BY <1>9 DEF Create, Publish, Begin, NextPackage, PushIndex, Interrupt, Terminating, vars
<1> QED
  BY <1>1, <1>2, <1>3, <1>4, <1>5, <1>6, <1>7, <1>8, <1>9 DEF Next, Step

\* Before its root is pushed a bundle is there, but for what the attempt was spared.
LEMMA CopyIsWhole ==
  ASSUME Inv, PushRoot
  PROVE  Whole(bundle) \ Spared(bundle) \subseteq blobs'
<1>a. bundle \in Bundles
  BY DEF Inv, Places, Types
<1>1. pc = "copy" /\ todo \subseteq {Root(bundle)} /\ blobs' = blobs \cup {Root(bundle)}
  BY DEF PushRoot, Goto
<1>2. CASE Copies
  <2>1. /\ {Root(bundle), Own(bundle)} \cup Manifests(bundle) \subseteq blobs \cup todo
        /\ \A p \in Packages(bundle) : Skipped(p) \/ LayersOf(p) \subseteq blobs \cup todo
    BY <1>1, <1>2 DEF Inv, Copied
  <2>2. \A p \in Packages(bundle) : Skipped(p) => LayersOf(p) \subseteq Spared(bundle)
    BY DEF Skipped, Spared
  <2> QED
    BY <1>1, <2>1, <2>2 DEF Whole
<1>3. CASE ~Copies
  BY <1>a, <1>1, <1>3 DEF Copies, Inv, Kept
<1> QED
  BY <1>2, <1>3

\* Whatever is pushed, retried or interrupted, where there is a root there is the rest.
LEMMA KeptKept == Inv /\ [Next]_vars => Kept'
<1> SUFFICES ASSUME Inv, [Next]_vars, NEW b \in Bundles, Root(b) \in blobs'
             PROVE  Whole(b) \ Spared(b)' \subseteq blobs'
  BY DEF Kept, Whole, Root, Own, Manifests, Manifest, Packages, LayersOf
<1>1. Spared(b) \subseteq Spared(b)'
  BY OneRoot DEF Spared
<1>2. CASE Root(b) \in blobs
  BY <1>1, <1>2, OneRoot DEF Inv, Kept
<1>3. CASE Whole(b) \subseteq blobs'
  BY <1>3
<1>4. CASE PushRoot /\ b = bundle
  BY <1>1, <1>4, CopyIsWhole
<1> QED
  BY <1>2, <1>3, <1>4, OneRoot

\* What a tag is set to leads to roots, if the new one is there.
LEMMA LeadsOn ==
  ASSUME NEW b \in Bundles, NEW old \in [Archs -> Ids \cup {"none"}],
         NEW before, NEW after, before \subseteq after, Leads(old, before), Root(b) \in after
  PROVE  Leads(AddToIndex(old, b), after) /\ Leads(Bare(b).of, after) /\ Leads(NoEntries, after)
<1>1. Leads(AddToIndex(old, b), after)
  BY TagTypes, BundleFacts DEF Leads
<1>2. Leads(Bare(b).of, after)
  BY TagTypes, BundleFacts DEF Leads
<1>3. Leads(NoEntries, after)
  BY DEF Leads, NoEntries
<1> QED
  BY <1>1, <1>2, <1>3

\* A tag is set to a root that is there, and an index is built of such.
LEMMA RootedKept == Inv /\ [Next]_vars => Rooted'
<1> SUFFICES ASSUME Inv, [Next]_vars PROVE Rooted'
  OBVIOUS
<1>a. /\ bundle \in Bundles /\ blobs \subseteq blobs'
      /\ at \in Tags /\ bundle.version \in Tags
      /\ index \in [Archs -> Ids \cup {"none"}]
      /\ tags \in [Tags -> [index : BOOLEAN, of : [Archs -> Ids \cup {"none"}]]]
  BY OneRoot, BundleFacts DEF Inv, Places, Types
<1>b. (\A t \in Tags : Leads(tags[t].of, blobs')) /\ Leads(index, blobs') /\ Leads(NoEntries, blobs')
  BY <1>a DEF Inv, Rooted, Leads, NoEntries
<1> USE DEF Goto, work, history
<1>1. CASE ReadIndex
  <2>1. Leads(index', blobs')
    BY <1>a, <1>b, <1>1 DEF ReadIndex
  <2> QED
    BY <1>b, <1>1, <2>1 DEF ReadIndex, Rooted
<1>2. CASE PushRoot
  <2>1. Root(bundle) \in blobs'
    BY <1>2 DEF PushRoot
  <2>2. Leads(Bare(bundle).of, blobs')
    BY <1>a, <1>b, <2>1, LeadsOn
  <2>3. \A t \in Tags : Leads(tags'[t].of, blobs')
    BY <1>a, <1>b, <1>2, <2>2 DEF PushRoot
  <2> QED
    BY <1>b, <1>2, <2>1, <2>3 DEF PushRoot, Rooted
<1>3. CASE PushIndex
  <2>1. Root(bundle) \in blobs'
    BY <1>3 DEF PushIndex, End, Inv, Rooted
  <2>2. Leads(AddToIndex(index, bundle), blobs')
    BY <1>a, <1>b, <2>1, LeadsOn
  <2>3. tags' = [tags EXCEPT ![bundle.version] = [index |-> TRUE, of |-> AddToIndex(index, bundle)]]
    BY <1>3 DEF PushIndex
  <2>4. \A t \in Tags : Leads(tags'[t].of, blobs')
    BY <1>a, <1>b, <2>2, <2>3
  <2> QED
    BY <1>b, <1>3, <2>4 DEF PushIndex, End, Rooted
<1>4. CASE Other
  <2>1. PICK b \in {c \in Bundles : c.arch # bundle.arch} :
            /\ blobs' = blobs \cup Whole(b)
            /\ tags' = [tags EXCEPT ![b.version] =
                           [index |-> TRUE,
                            of |-> AddToIndex(IF tags[b.version].index THEN tags[b.version].of
                                              ELSE NoEntries, b)]]
    BY <1>4 DEF Other
  <2> DEFINE old == IF tags[b.version].index THEN tags[b.version].of ELSE NoEntries
  <2>2. b \in Bundles /\ b.version \in Tags
    BY BundleFacts
  <2>3. old \in [Archs -> Ids \cup {"none"}] /\ Leads(old, blobs') /\ Root(b) \in blobs'
    BY <1>a, <1>b, <2>1, <2>2, TagTypes, WholeParts
  <2>4. Leads(AddToIndex(old, b), blobs')
    BY <2>2, <2>3, LeadsOn
  <2>5. \A t \in Tags : Leads(tags'[t].of, blobs')
    BY <1>a, <1>b, <2>1, <2>2, <2>4
  <2>6. pc' = pc /\ bundle' = bundle /\ index' = index
    BY <1>4 DEF Other
  <2> QED
    BY <1>a, <1>b, <2>5, <2>6 DEF Rooted, Inv, Root
<1>5. CASE \/ Create \/ Publish \/ PushManifest \/ PushLayer \/ NextPackage \/ PushOwn \/ CopyBlob \/ RetryCopy
           \/ Terminating \/ UNCHANGED vars
  <2>1. tags' = tags /\ index' = index
    BY <1>5 DEF Create, Publish, Begin, PushManifest, PushLayer, NextPackage, PushOwn, CopyBlob, RetryCopy,
                Terminating, vars
  <2>2. pc' = "update" => pc = "update" /\ bundle' = bundle
    BY <1>5 DEF Create, Publish, Begin, PushManifest, PushLayer, NextPackage, PushOwn, CopyBlob, RetryCopy,
                Terminating, vars
  <2> QED
    BY <1>a, <1>b, <2>1, <2>2 DEF Rooted, Inv, Root
<1>6. ASSUME NEW how, Interrupt(how)
      PROVE  Rooted'
  BY <1>b, <1>6 DEF Interrupt, End, Rooted
<1> QED
  BY <1>1, <1>2, <1>3, <1>4, <1>5, <1>6 DEF Next, Step

\* A create pushes the whole of a package before the next, and all before the root.
LEMMA CreatedKept == Inv /\ [Next]_vars => Created'
<1> SUFFICES ASSUME Inv, [Next]_vars PROVE Created'
  OBVIOUS
<1>a. /\ bundle \in Bundles /\ blobs \subseteq blobs' /\ pkg \in Nat \ {0}
      /\ Len(bundle.pkgs) \in Nat /\ DOMAIN bundle.pkgs = 1 .. Len(bundle.pkgs)
      /\ Created
  BY OneRoot, BundleFacts DEF Inv, Places, Types
<1> USE DEF Goto, work, history
<1>1. CASE Create
  <2>1. bundle' \in Bundles /\ pkg' = 1 /\ pc' = "package" /\ command' = "create"
    BY <1>1 DEF Create, Begin, Inv, Places
  <2>2. \A i \in DOMAIN bundle'.pkgs : ~(i < 1)
    BY <2>1, BundleFacts
  <2> QED
    BY <2>1, <2>2 DEF Created
<1>2. CASE Publish
  BY <1>2 DEF Publish, Begin, Created
<1>3. CASE PushManifest
  <2>1. /\ pc = "package" /\ pc' = "layers" /\ bundle' = bundle /\ pkg' = pkg /\ command' = command
        /\ blobs' = blobs \cup {Manifest(bundle.pkgs[pkg])}
        /\ todo' = LayersOf(bundle.pkgs[pkg]) \ blobs
    BY <1>3 DEF PushManifest
  <2>2. \A i \in DOMAIN bundle.pkgs : i < pkg => Pushed(i)
    BY <1>a, <2>1 DEF Created
  <2>3. \A i \in DOMAIN bundle.pkgs : i < pkg => Pushed(i)'
    BY <2>1, <2>2 DEF Pushed
  <2> QED
    BY <1>a, <2>1, <2>3 DEF Created
<1>4. CASE PushLayer
  <2>1. PICK x \in todo : blobs' = blobs \cup {x} /\ todo' = todo \ {x}
    BY <1>4 DEF PushLayer
  <2>2. pc = "layers" /\ pc' = "layers" /\ bundle' = bundle /\ pkg' = pkg /\ command' = command
    BY <1>4 DEF PushLayer
  <2>3. \A i \in DOMAIN bundle.pkgs : i < pkg => Pushed(i)'
    BY <1>a, <2>1, <2>2 DEF Pushed, Created
  <2> QED
    BY <1>a, <2>1, <2>2, <2>3 DEF Created
<1>5. CASE NextPackage
  <2>1. /\ pc = "layers" /\ pc' = "package" /\ bundle' = bundle /\ pkg' = pkg + 1 /\ command' = command
        /\ blobs' = blobs /\ todo = {}
    BY <1>5 DEF NextPackage
  <2>2. \A i \in DOMAIN bundle.pkgs : i < pkg + 1 => Pushed(i)
    <3> SUFFICES ASSUME NEW i \in DOMAIN bundle.pkgs, i < pkg + 1 PROVE Pushed(i)
      OBVIOUS
    <3>1. i < pkg \/ i = pkg
      BY <1>a
    <3> QED
      BY <1>a, <2>1, <3>1 DEF Created, Pushed
  <2>3. \A i \in DOMAIN bundle.pkgs : i < pkg + 1 => Pushed(i)'
    BY <2>1, <2>2 DEF Pushed
  <2> QED
    BY <1>a, <2>1, <2>3 DEF Created
<1>6. CASE PushOwn
  <2>1. /\ pc = "package" /\ pc' = "index" /\ bundle' = bundle /\ command' = command
        /\ blobs' = blobs \cup {Own(bundle)} /\ pkg > Len(bundle.pkgs)
    BY <1>6 DEF PushOwn
  <2>2. \A p \in Packages(bundle) : Manifest(p) \in blobs /\ LayersOf(p) \subseteq blobs
    <3> SUFFICES ASSUME NEW p \in Packages(bundle)
                 PROVE  Manifest(p) \in blobs /\ LayersOf(p) \subseteq blobs
      OBVIOUS
    <3>1. PICK i \in DOMAIN bundle.pkgs : p = bundle.pkgs[i]
      BY DEF Packages
    <3>2. i < pkg
      BY <1>a, <2>1
    <3> QED
      BY <1>a, <2>1, <3>1, <3>2 DEF Created, Pushed
  <2>3. Whole(bundle) \ {Root(bundle)} \subseteq blobs'
    BY <2>1, <2>2, WholeParts
  <2> QED
    BY <2>1, <2>3 DEF Created
<1>7. CASE ReadIndex \/ CopyBlob \/ RetryCopy
  <2>1. /\ pc \in {"index", "copy"} /\ pc' = "copy" /\ bundle' = bundle /\ command' = command
    BY <1>7 DEF ReadIndex, CopyBlob, RetryCopy
  <2>2. command = "create" => Whole(bundle) \ {Root(bundle)} \subseteq blobs'
    BY <1>a, <2>1 DEF Created
  <2> QED
    BY <2>1, <2>2 DEF Created
<1>8. CASE PushRoot \/ PushIndex \/ Interrupt("error") \/ Interrupt("killed")
  BY <1>8 DEF PushRoot, PushIndex, Interrupt, End, Created
<1>9. CASE Other
  <2>1. /\ pc' = pc /\ bundle' = bundle /\ pkg' = pkg /\ command' = command /\ todo' = todo
    BY <1>9 DEF Other
  <2>2. \A i \in DOMAIN bundle.pkgs : Pushed(i) => Pushed(i)'
    BY <1>a, <2>1 DEF Pushed
  <2>3. /\ pc' \in {"package", "layers"} => \A i \in DOMAIN bundle'.pkgs : i < pkg' => Pushed(i)'
        /\ pc' \in {"package", "layers"} => command' = "create"
    BY <1>a, <2>1, <2>2 DEF Created
  <2>4. pc' = "layers" => /\ Manifest(bundle'.pkgs[pkg']) \in blobs'
                          /\ LayersOf(bundle'.pkgs[pkg']) \subseteq blobs' \cup todo'
                          /\ todo' \subseteq LayersOf(bundle'.pkgs[pkg'])
    BY <1>a, <2>1 DEF Created
  <2>5. pc' \in {"index", "copy"} /\ command' = "create" => Whole(bundle') \ {Root(bundle')} \subseteq blobs'
    BY <1>a, <2>1 DEF Created
  <2> QED
    BY <2>3, <2>4, <2>5 DEF Created
<1>10. CASE Terminating \/ UNCHANGED vars
  BY <1>10, <1>a DEF Terminating, vars, Created, Pushed
<1> QED
  BY <1>1, <1>2, <1>3, <1>4, <1>5, <1>6, <1>7, <1>8, <1>9, <1>10 DEF Next, Step

\* An attempt pushes what it set out to push, manifests after their layers, and the next
\* attempt sets out for what is still missing.
LEMMA CopiedKept == Inv /\ [Next]_vars => Copied'
<1> SUFFICES ASSUME Inv, [Next]_vars, pc' = "copy", Copies'
             PROVE  /\ {Root(bundle'), Own(bundle')} \cup Manifests(bundle') \subseteq blobs' \cup todo'
                    /\ \A p \in Packages(bundle') : Skipped(p)' \/ LayersOf(p) \subseteq blobs' \cup todo'
                    /\ command' = "publish" /\ ~force' =>
                         \A p \in Packages(bundle') :
                            Manifest(p) \in blobs' => Skipped(p)' \/ LayersOf(p) \subseteq blobs'
  BY DEF Copied
<1> USE DEF Goto, work, history
<1>a. bundle \in Bundles /\ blobs \subseteq blobs' /\ holes \subseteq holes' /\ command \in {"publish", "create"}
  BY OneRoot DEF Inv, Places, Types
<1>b. pc \in {"index", "copy"} /\ bundle' = bundle /\ command' = command /\ force' = force
  BY DEF Next, Step, Create, Publish, Begin, PushManifest, PushLayer, NextPackage, PushOwn, ReadIndex, CopyBlob,
         PushRoot, RetryCopy, PushIndex, Interrupt, End, Other, Terminating, vars
<1>c. Copies /\ \A p : Skipped(p) => Skipped(p)'
  BY <1>a, <1>b DEF Copies, Skipped
<1>d. pc = "copy" =>
        /\ {Root(bundle), Own(bundle)} \cup Manifests(bundle) \subseteq blobs \cup todo
        /\ \A p \in Packages(bundle) : Skipped(p) \/ LayersOf(p) \subseteq blobs \cup todo
        /\ command = "publish" /\ ~force =>
             \A p \in Packages(bundle) :
                Manifest(p) \in blobs => Skipped(p) \/ LayersOf(p) \subseteq blobs
  BY <1>c DEF Inv, Copied
<1>e. \A p \in Packages(bundle) : Manifest(p) \in Manifests(bundle)
  BY DEF Manifests
\* What a publish that starts or starts again sets out for.
<1>f. ASSUME command = "publish", todo' = Reached(blobs'),
             ~force => \A p \in Packages(bundle) :
                          Manifest(p) \in blobs' => Skipped(p)' \/ LayersOf(p) \subseteq blobs'
      PROVE  /\ {Root(bundle'), Own(bundle')} \cup Manifests(bundle') \subseteq blobs' \cup todo'
             /\ \A p \in Packages(bundle') : Skipped(p)' \/ LayersOf(p) \subseteq blobs' \cup todo'
  <2> DEFINE fresh == {p \in Packages(bundle) : ~Exists(Manifest(p), blobs')}
             nodes == {Root(bundle), Own(bundle)} \cup {Manifest(p) : p \in fresh}
                      \cup UNION {LayersOf(p) : p \in fresh}
  <2>1. ~Exists(Root(bundle), blobs')
    BY <1>b, <1>f DEF Exists, Copies
  <2>2. todo' = {x \in nodes : ~Exists(x, blobs')}
    BY <1>f, <2>1 DEF Reached
  <2>3. \A x : Exists(x, blobs') => x \in blobs'
    BY DEF Exists
  <2>4. nodes \subseteq blobs' \cup todo'
    BY <2>2, <2>3
  <2>5. \A p \in Packages(bundle) \ fresh : Manifest(p) \in blobs' /\ ~force
    BY DEF Exists
  <2>6. \A p \in Packages(bundle) : Skipped(p)' \/ LayersOf(p) \subseteq blobs' \cup todo'
    BY <1>f, <2>4, <2>5
  <2>7. Manifests(bundle) \subseteq blobs' \cup todo'
    BY <2>4, <2>5 DEF Manifests
  <2> QED
    BY <1>b, <2>4, <2>6, <2>7
<1>1. CASE ReadIndex
  <2>1. CASE command = "publish"
    <3>1. blobs' = blobs /\ todo' = Reached(blobs)
      BY <1>1, <2>1 DEF ReadIndex
    <3>2. ~force => \A p \in Packages(bundle) : Manifest(p) \in blobs' => Skipped(p)'
      <4> SUFFICES ASSUME ~force, NEW p \in Packages(bundle), Manifest(p) \in blobs'
                   PROVE  Skipped(p)'
        OBVIOUS
      <4>1. Root(bundle) \notin blobs
        BY <1>c, <2>1 DEF Copies
      <4>2. holes' = holes \cup {<<bundle.id, m>> : m \in {x \in Manifests(bundle) : Exists(x, blobs)}}
        BY <1>1, <2>1, <4>1 DEF ReadIndex
      <4>3. Manifest(p) \in Manifests(bundle) /\ Exists(Manifest(p), blobs)
        BY <1>e, <3>1 DEF Exists
      <4> QED
        BY <1>b, <4>2, <4>3 DEF Skipped
    <3> QED
      BY <1>b, <1>f, <2>1, <3>1, <3>2
  <2>2. CASE command = "create"
    <3>1. Whole(bundle) \ {Root(bundle)} \subseteq blobs' /\ todo' = {Root(bundle)}
      BY <1>1, <2>2 DEF ReadIndex, Inv, Created
    <3>2. Manifests(bundle) \subseteq Whole(bundle) /\ Own(bundle) \in Whole(bundle)
      BY DEF Whole
    <3>3. \A p \in Packages(bundle) : LayersOf(p) \subseteq Whole(bundle)
      BY WholeParts
    <3> QED
      BY <1>b, <2>2, <3>1, <3>2, <3>3
  <2> QED
    BY <1>a, <2>1, <2>2
<1>2. CASE CopyBlob
  <2>1. PICK x \in todo \ {Root(bundle)} : Ready(x) /\ blobs' = blobs \cup {x} /\ todo' = todo \ {x} /\ pc = "copy"
    BY <1>2 DEF CopyBlob
  <2>2. ASSUME command = "publish", ~force, NEW p \in Packages(bundle), Manifest(p) \in blobs'
        PROVE  Skipped(p)' \/ LayersOf(p) \subseteq blobs'
    <3>1. CASE Manifest(p) \in blobs
      BY <1>a, <1>c, <1>d, <2>1, <2>2, <3>1
    <3>2. CASE Manifest(p) = x
      <4>1. LayersOf(p) \subseteq Below(x)
        BY <3>2 DEF Below
      <4>2. LayersOf(p) \cap todo = {}
        BY <2>1, <4>1 DEF Ready
      <4> QED
        BY <1>a, <1>c, <1>d, <2>1, <4>2
    <3> QED
      BY <2>1, <2>2, <3>1, <3>2
  <2> QED
    BY <1>b, <1>c, <1>d, <2>1, <2>2
<1>3. CASE RetryCopy
  <2>1. PICK stored \in SUBSET {x \in todo \ {Root(bundle)} : Ready(x)} :
            /\ blobs' = blobs \cup stored
            /\ todo' = Reached(blobs')
    BY <1>3 DEF RetryCopy
  <2>2. pc = "copy" /\ command = "publish"
    BY <1>3 DEF RetryCopy
  <2>3. ASSUME ~force, NEW p \in Packages(bundle), Manifest(p) \in blobs'
        PROVE  Skipped(p)' \/ LayersOf(p) \subseteq blobs'
    <3>1. CASE Manifest(p) \in blobs
      BY <1>a, <1>c, <1>d, <2>2, <2>3, <3>1
    <3>2. CASE Manifest(p) \in stored
      <4>1. LayersOf(p) \subseteq Below(Manifest(p))
        BY DEF Below
      <4>2. LayersOf(p) \cap todo = {}
        BY <2>1, <3>2, <4>1 DEF Ready
      <4> QED
        BY <1>a, <1>c, <1>d, <2>2, <4>2
    <3> QED
      BY <2>1, <2>3, <3>1, <3>2
  <2> QED
    BY <1>b, <1>f, <2>1, <2>2, <2>3
<1>4. CASE Other
  <2>1. PICK b \in {c \in Bundles : c.arch # bundle.arch} : blobs' = blobs \cup Whole(b)
    BY <1>4 DEF Other
  <2>2. pc = "copy" /\ todo' = todo
    BY <1>4 DEF Other
  <2>3. \A p \in Packages(bundle) : Manifest(p) \in blobs' => Manifest(p) \in blobs
    BY <1>a, <2>1, OtherArchitecture
  <2> QED
    BY <1>a, <1>b, <1>c, <1>d, <2>2, <2>3
<1>5. CASE Terminating \/ UNCHANGED vars
  <2>1. pc = "copy" /\ todo' = todo /\ blobs' = blobs
    BY <1>5 DEF Terminating, vars
  <2> QED
    BY <1>b, <1>c, <1>d, <2>1
<1>6. CASE \/ Create \/ Publish \/ PushManifest \/ PushLayer \/ NextPackage \/ PushOwn \/ PushRoot \/ PushIndex
           \/ Interrupt("error") \/ Interrupt("killed")
  BY <1>6 DEF Create, Publish, Begin, PushManifest, PushLayer, NextPackage, PushOwn, PushRoot, PushIndex,
              Interrupt, End
<1> QED
  BY <1>1, <1>2, <1>3, <1>4, <1>5, <1>6 DEF Next, Step
-----------------------------------------------------------------------------
(* What was announced.                                                      *)

\* An index that is extended keeps its entries, and is there for the others to extend.
LEMMA AnnouncedKept == Inv /\ [Next]_vars => Announced'
<1> SUFFICES ASSUME Inv, [Next]_vars PROVE Announced'
  OBVIOUS
<1>a. /\ bundle \in Bundles /\ bundle.version \in Tags /\ bundle.arch \in Archs
      /\ bundle.id # "none" /\ at \in Tags
      /\ index \in [Archs -> Ids \cup {"none"}]
      /\ tags \in [Tags -> [index : BOOLEAN, of : [Archs -> Ids \cup {"none"}]]]
  BY BundleFacts DEF Inv, Places, Types
<1>b. /\ announced \subseteq Tags \X Archs
      /\ \A e \in announced : \/ e[1] \in torn
                              \/ pc = "update" /\ at = e[1]
                              \/ tags[e[1]].index /\ tags[e[1]].of[e[2]] # "none"
      /\ pc \in {"copy", "update"} =>
           \A e \in announced : e[1] = bundle.version => e[1] \in torn \/ index[e[2]] # "none"
      /\ pc = "update" /\ at # bundle.version => at \in torn
  BY DEF Inv, Announced
<1> USE DEF Goto, work, history
<1>1. CASE Create \/ Publish \/ PushManifest \/ PushLayer \/ NextPackage \/ PushOwn
  <2>1. /\ tags' = tags /\ announced' = announced /\ torn' = torn
        /\ pc # "update" /\ pc' \notin {"copy", "update"}
    BY <1>1 DEF Create, Publish, Begin, PushManifest, PushLayer, NextPackage, PushOwn
  <2> QED
    BY <1>b, <2>1 DEF Announced
<1>2. CASE ReadIndex
  <2>1. /\ tags' = tags /\ announced' = announced /\ torn' = torn /\ bundle' = bundle
        /\ pc = "index" /\ pc' = "copy"
        /\ index' = IF tags[bundle.version].index THEN tags[bundle.version].of ELSE NoEntries
    BY <1>2 DEF ReadIndex
  <2>2. \A e \in announced : e[1] = bundle.version => e[1] \in torn \/ index'[e[2]] # "none"
    BY <1>b, <2>1
  <2> QED
    BY <1>b, <2>1, <2>2 DEF Announced
<1>3. CASE CopyBlob \/ RetryCopy
  <2>1. /\ tags' = tags /\ announced' = announced /\ torn' = torn /\ bundle' = bundle
        /\ index' = index /\ pc = "copy" /\ pc' = "copy"
    BY <1>3 DEF CopyBlob, RetryCopy
  <2> QED
    BY <1>b, <2>1 DEF Announced
<1>4. CASE PushRoot
  <2>1. /\ announced' = announced /\ bundle' = bundle /\ at' = at /\ index' = index
        /\ pc = "copy" /\ pc' = "update"
        /\ tags' = [tags EXCEPT ![at] = Bare(bundle)]
        /\ torn' = IF at = bundle.version THEN torn ELSE torn \cup {at}
    BY <1>4 DEF PushRoot
  <2>2. torn \subseteq torn' /\ (at # bundle.version => at \in torn')
    BY <2>1
  <2>3. \A t \in Tags : t # at => tags'[t] = tags[t]
    BY <1>a, <2>1
  <2> QED
    BY <1>a, <1>b, <2>1, <2>2, <2>3 DEF Announced
<1>5. CASE PushIndex
  <2> DEFINE new == AddToIndex(index, bundle)
  <2>1. /\ announced' = announced \cup {<<bundle.version, bundle.arch>>} /\ torn' = torn
        /\ pc = "update" /\ pc' = "idle"
        /\ tags' = [tags EXCEPT ![bundle.version] = [index |-> TRUE, of |-> new]]
    BY <1>5 DEF PushIndex, End
  <2>2. new[bundle.arch] = bundle.id /\ \A a \in Archs \ {bundle.arch} : new[a] = index[a]
    BY <1>a, TagTypes
  <2>3. /\ tags'[bundle.version].index /\ tags'[bundle.version].of = new
        /\ \A t \in Tags : t # bundle.version => tags'[t] = tags[t]
    BY <1>a, <2>1, Zenon
  <2>4. announced' \subseteq Tags \X Archs
    BY <1>a, <1>b, <2>1
  <2>5. ASSUME NEW e \in announced'
        PROVE  e[1] \in torn' \/ (tags'[e[1]].index /\ tags'[e[1]].of[e[2]] # "none")
    <3>1. e[1] \in Tags /\ e[2] \in Archs
      BY <2>4, <2>5
    <3>2. CASE e = <<bundle.version, bundle.arch>>
      <4>1. e[1] = bundle.version /\ e[2] = bundle.arch
        BY <3>2
      <4> QED
        BY <1>a, <2>2, <2>3, <4>1
    <3>3. CASE e \in announced /\ e[1] = bundle.version
      <4>1. e[1] \in torn \/ index[e[2]] # "none"
        BY <1>b, <2>1, <3>3
      <4>2. e[1] \in torn \/ new[e[2]] # "none"
        BY <1>a, <2>2, <3>1, <4>1
      <4> QED
        BY <2>1, <2>3, <3>3, <4>2
    <3>4. CASE e \in announced /\ e[1] # bundle.version
      <4>1. tags'[e[1]] = tags[e[1]]
        BY <2>3, <3>1, <3>4
      <4> QED
        BY <1>b, <2>1, <3>4, <4>1
    <3> QED
      BY <2>1, <3>2, <3>3, <3>4
  <2> QED
    BY <2>1, <2>4, <2>5 DEF Announced
<1>6. ASSUME NEW how, Interrupt(how)
      PROVE  Announced'
  <2>1. /\ announced' = announced /\ tags' = tags /\ pc' = "idle"
        /\ torn' = IF pc = "update" THEN torn \cup {at} ELSE torn
    BY <1>6 DEF Interrupt, End
  <2> QED
    BY <1>b, <2>1 DEF Announced
<1>7. CASE Other
  <2>1. PICK b \in {c \in Bundles : c.arch # bundle.arch} :
            /\ tags' = [tags EXCEPT ![b.version] =
                           [index |-> TRUE,
                            of |-> AddToIndex(IF tags[b.version].index THEN tags[b.version].of
                                              ELSE NoEntries, b)]]
            /\ announced' = announced \cup {<<b.version, b.arch>>}
            /\ torn' = IF pc \in {"copy", "update"} THEN torn \cup {b.version} ELSE torn
    BY <1>7 DEF Other
  <2> DEFINE old == IF tags[b.version].index THEN tags[b.version].of ELSE NoEntries
             new == AddToIndex(old, b)
  <2>2. pc' = pc /\ bundle' = bundle /\ at' = at /\ index' = index
    BY <1>7 DEF Other
  <2>3. b \in Bundles /\ b.version \in Tags /\ b.arch \in Archs /\ b.id # "none"
    BY BundleFacts
  <2>4. old \in [Archs -> Ids \cup {"none"}]
    BY <1>a, <2>3, TagTypes
  <2>5. new[b.arch] = b.id /\ \A a \in Archs \ {b.arch} : new[a] = old[a]
    BY <2>3, <2>4, TagTypes
  <2>6. /\ tags'[b.version].index /\ tags'[b.version].of = new
        /\ \A t \in Tags : t # b.version => tags'[t] = tags[t]
    BY <1>a, <2>1, <2>3, Zenon
  <2>7. announced' \subseteq Tags \X Archs
    BY <1>b, <2>1, <2>3
  <2>8. torn \subseteq torn'
    BY <2>1
  <2>9. ASSUME NEW e \in announced'
        PROVE  \/ e[1] \in torn'
               \/ pc = "update" /\ at = e[1]
               \/ tags'[e[1]].index /\ tags'[e[1]].of[e[2]] # "none"
    <3>1. e[1] \in Tags /\ e[2] \in Archs
      BY <2>7, <2>9
    <3>2. CASE e = <<b.version, b.arch>>
      <4>1. e[1] = b.version /\ e[2] = b.arch
        BY <3>2
      <4> QED
        BY <2>3, <2>5, <2>6, <4>1
    <3>3. CASE e \in announced /\ e[1] = b.version /\ e[2] # b.arch
      <4>1. CASE tags[b.version].index
        <5>1. old = tags[b.version].of
          BY <4>1
        <5>2. new[e[2]] = tags[b.version].of[e[2]]
          BY <2>5, <3>1, <3>3, <5>1
        <5> QED
          BY <1>b, <2>6, <2>8, <3>3, <5>2
      <4>2. CASE ~tags[b.version].index
        BY <1>b, <2>8, <3>3, <4>2
      <4> QED
        BY <4>1, <4>2
    <3>4. CASE e[1] = b.version /\ e[2] = b.arch
      BY <2>3, <2>5, <2>6, <3>4
    <3>5. CASE e \in announced /\ e[1] # b.version
      <4>1. tags'[e[1]] = tags[e[1]]
        BY <2>6, <3>1, <3>5
      <4> QED
        BY <1>b, <2>8, <3>5, <4>1
    <3> QED
      BY <2>1, <3>2, <3>3, <3>4, <3>5
  <2>10. ASSUME pc \in {"copy", "update"}, NEW e \in announced', e[1] = bundle.version
         PROVE  e[1] \in torn' \/ index[e[2]] # "none"
    <3>1. CASE e \in announced
      BY <1>b, <2>8, <2>10, <3>1
    <3>2. CASE e = <<b.version, b.arch>>
      BY <2>1, <2>10, <3>2
    <3> QED
      BY <2>1, <3>1, <3>2
  <2>11. pc = "update" /\ at # bundle.version => at \in torn'
    BY <1>b, <2>8
  <2> QED
    BY <2>2, <2>7, <2>9, <2>10, <2>11 DEF Announced
<1>8. CASE Terminating \/ UNCHANGED vars
  BY <1>b, <1>8 DEF Terminating, vars, Announced
<1> QED
  BY <1>1, <1>2, <1>3, <1>4, <1>5, <1>6, <1>7, <1>8 DEF Next, Step

-----------------------------------------------------------------------------
(* The theorems.                                                            *)

\* All of it together is inductive.
LEMMA Inductive == Inv /\ [Next]_vars => Inv'
  BY PlacesKept, KeptKept, RootedKept, CreatedKept, CopiedKept, AnnouncedKept DEF Inv

\* Whatever fails, is killed, retried or published in between, a tag leads to nothing that
\* is missing from the repository, but for layers of packages whose manifest a publish
\* found there.
THEOREM TagsComplete == Spec => []TagComplete
<1>1. Inv => TagComplete
  <2> SUFFICES ASSUME Inv, NEW t \in Tags, NEW a \in Archs, tags[t].of[a] # "none"
               PROVE  Whole(ById(tags[t].of[a])) \ Spared(ById(tags[t].of[a])) \subseteq blobs
    BY DEF TagComplete, Inv, Places
  <2>1. tags[t].of[a] \in Ids
    BY DEF Inv, Places, Types
  <2>2. PICK b \in Bundles : b.id = tags[t].of[a]
    BY <2>1 DEF Ids
  <2>3. ById(tags[t].of[a]) = b
    BY <2>2, BundleFacts
  <2>4. Root(ById(tags[t].of[a])) \in blobs
    BY DEF Inv, Rooted, Leads
  <2> QED
    BY <2>3, <2>4 DEF Inv, Kept
<1> QED
  BY <1>1, Initially, Inductive, PTL DEF Spec

\* Publishing under a tag takes no architecture off it that a publisher was told is there,
\* but in the ways that OthersSurvive names.
THEOREM OthersStay == Spec => []OthersSurvive
<1>1. Inv => OthersSurvive
  BY DEF Inv, Announced, OthersSurvive
<1> QED
  BY <1>1, Initially, Inductive, PTL DEF Spec
=============================================================================
