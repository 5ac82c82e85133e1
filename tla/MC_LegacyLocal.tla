---------------------------- MODULE MC_LegacyLocal ----------------------------
(***************************************************************************)
(* Instances of LegacyLocal: remote packages A and B that share an image, a*)
(* local one C, and bundles of one or two of them.  "small" leaves out the *)
(* component that "whole" takes; "again" bundles A twice, the first time   *)
(* without its image.                                                      *)
(***************************************************************************)
EXTENDS LegacyLocal, TLC

MC_Kind == ("yamlA" :> "zarf.yaml") @@ ("sigA" :> "metadata") @@ ("compA" :> "component") @@ ("image" :> "image")
           @@ ("yamlB" :> "zarf.yaml") @@ ("sumB" :> "metadata") @@ ("imageB" :> "image")
           @@ ("yamlC" :> "zarf.yaml")

MC_Contents == ("A" :> <<"yamlA", "sigA", "compA", "image">>)
               @@ ("B" :> <<"image", "imageB", "sumB", "yamlB">>)
               @@ ("C" :> <<"yamlC">>)

P(m, remote, want) == [manifest |-> m, remote |-> remote, want |-> want]

wholeA == P("A", TRUE, {"yamlA", "sigA", "compA", "image"})
smallA == P("A", TRUE, {"yamlA", "sigA", "image"})
bareA == P("A", TRUE, {"yamlA", "sigA"})
wholeB == P("B", TRUE, {"image", "imageB", "sumB", "yamlB"})
localC == P("C", FALSE, {"yamlC"})

MC_Bundles == { [id |-> "whole", pkgs |-> <<wholeA, localC>>],
                [id |-> "small", pkgs |-> <<smallA>>],
                [id |-> "both", pkgs |-> <<wholeB, smallA>>],
                [id |-> "again", pkgs |-> <<bareA, wholeA>>] }
=============================================================================
