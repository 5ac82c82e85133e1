--------------------------- MODULE MC_LegacyRegistry ---------------------------
(***************************************************************************)
(* Instances of LegacyRegistry: "small" and "whole" take one and all       *)
(* components of package A, "more" adds a package that shares a layer,     *)
(* "arm" is for another architecture; all of one version.                  *)
(***************************************************************************)
EXTENDS LegacyRegistry

P(m, want) == [manifest |-> m, want |-> want]
B(id, version, arch, pkgs) == [id |-> id, version |-> version, arch |-> arch, pkgs |-> pkgs]

smallA == P("A", {"base"})
wholeA == P("A", {"base", "extra"})

MC_Bundles == { B("small", "v1", "amd64", <<smallA>>),
                B("more", "v1", "amd64", <<wholeA, P("B", {"base", "b"})>>),
                B("arm", "v1", "arm64", <<P("Arm", {"base"})>>) }
=============================================================================
