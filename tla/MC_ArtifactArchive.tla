-------------------------- MODULE MC_ArtifactArchive --------------------------
(***************************************************************************)
(* An instance of ArtifactArchive for TLC: commands around one bundle path *)
(* and the path of its reconfigured derivative.                            *)
(***************************************************************************)
EXTENDS ArtifactArchive

Paths == {"bundle", "derived"}
Packages == {"core", "app", "old"}
LayerNames == {"base", "core", "app", "old", "stray"}
DefaultsFiles == {"d1", "d2"}

\* core and app share a layer; only the bundles found on the disk have old.
PackageLayers ==
  [p \in Packages |-> IF p = "old" THEN {"old"} ELSE {"base", p}]

Found(defaults, lost, by) ==
  LET index == {ManifestBlob("core"), ManifestBlob("old"), DefinitionBlob("bundle", defaults)}
      over == IF by = "nobody" THEN {} ELSE index
  IN [index |-> index, blobs |-> reachableDigests(index) \ lost,
      evidence |-> [by |-> by, over |-> over]]

Lost == {LayerBlob("old")}

\* The bundle: absent, signed by its vendor with or without defaults, damaged
\* after it was signed, damaged and unsigned, or unsigned with an orphan.
Bundles ==
  {NoFile, Found("d1", {}, "vendor"), Found(NoDefaults, {}, "vendor"),
   Found("d1", Lost, "vendor"), Found("d1", Lost, "nobody"),
   [Found("d1", {}, "nobody") EXCEPT !.blobs = @ \union {LayerBlob("stray")}]}

EveryDisk ==
  {[p \in Paths |-> IF p = "bundle" THEN b ELSE d] :
     b \in Bundles, d \in {NoFile, Found("d2", {}, "nobody")}}

Req(op, out, packages, defaults, verify, sign, overwrite) ==
  [op |-> op, src |-> "bundle", out |-> out, packages |-> packages, defaults |-> defaults,
   verify |-> verify, sign |-> sign, overwrite |-> overwrite]

Requests ==
  "create"      :> Req("create", "bundle", {"core", "app"}, "d1", FALSE, FALSE, FALSE) @@
  "createSign"  :> Req("create", "bundle", {"app"}, NoDefaults, FALSE, TRUE, FALSE) @@
  "sign"        :> Req("sign", "bundle", {}, NoDefaults, FALSE, TRUE, FALSE) @@
  "signOver"    :> Req("sign", "bundle", {}, NoDefaults, FALSE, TRUE, TRUE) @@
  "change"      :> Req("reconfigure", "derived", {}, "d2", FALSE, FALSE, FALSE) @@
  "changeSign"  :> Req("reconfigure", "derived", {}, "d1", FALSE, TRUE, FALSE) @@
  "verified"    :> Req("reconfigure", "derived", {}, "d2", TRUE, TRUE, FALSE)
Jobs == DOMAIN Requests

\* At most two commands at once, and some threes.
Teams ==
  {t \in SUBSET Jobs : Cardinality(t) = 2} \union
  {{"createSign", "signOver", "verified"}, {"create", "verified", "changeSign"}}
=============================================================================
