--------------------------- MODULE MC_BundleDeploy ---------------------------
(***************************************************************************)
(* Instances of BundleDeploy for TLC.                                      *)
(***************************************************************************)
EXTENDS BundleDeploy

Three == 1..3
Unknown == 9

\* Calls over the packages in P, the others depending on nothing.
Calls(P, sources, limits, requests, prompts, found) ==
  {[source |-> s, deps |-> [p \in Three |-> IF p \in P THEN d[p] ELSE {}],
    requested |-> r, force |-> f, prompt |-> pr, limit |-> l, found |-> fd] :
     s \in sources, d \in [P -> SUBSET P], r \in requests, f \in BOOLEAN,
     pr \in prompts, l \in limits, fd \in found}

\* Two packages: every graph, cycles and self-references included, every
\* selection, one of an unknown name, every way in, a limit below and one above
\* the range the configuration allows.
TwoPackageCalls ==
  Calls(1..2, Source, {0, 1, 2, 3}, {{1}, {2}, {1, 2}, {1, Unknown}}, BOOLEAN, {{}})

\* Three packages: every acyclic graph and selection, called from the library, over
\* every cluster that is closed under dependencies.
EverySelection ==
  {c \in Calls(Three, {"library"}, {2}, SUBSET Three, {FALSE}, SUBSET Three) :
     Acyclic(c.deps) /\ \A p \in c.found : c.deps[p] \subseteq c.found}

EveryCall == TwoPackageCalls \union EverySelection
=============================================================================
