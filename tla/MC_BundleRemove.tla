--------------------------- MODULE MC_BundleRemove ---------------------------
(***************************************************************************)
(* Instances of BundleRemove for TLC.                                      *)
(***************************************************************************)
EXTENDS BundleRemove

Three == 1..3
Unknown == 9

\* Calls over the packages in P, the others depending on nothing.
CallsFor(P, zarf, ns, libraries, requests, prompts, shared) ==
  {[library |-> l, deps |-> d, zarf |-> zarf, ns |-> ns, requested |-> r,
    levels |-> KeepRequested(Waves(d), r), force |-> f, prompt |-> pr,
    shared |-> shared, found |-> found] :
     l \in libraries, f \in BOOLEAN, pr \in prompts, r \in requests,
     d \in {[p \in Three |-> IF p \in P THEN g[p] ELSE {}] : g \in [P -> SUBSET P]},
     found \in SUBSET {<<zarf[p], ns[p]>> : p \in P}}

\* Two entries for one Zarf package, in two namespaces or in the same; every graph,
\* selection and way in, over a cluster others use as well.
TwoPackageCalls ==
  UNION {CallsFor(1..2, <<"a", "a", "b">>, ns, BOOLEAN,
                  {{1}, {2}, {1, 2}, {1, Unknown}}, BOOLEAN, TRUE) :
           ns \in {<<"none", "own", "none">>, <<"none", "none", "none">>}}

\* Three packages, one of them in a namespace of its own; every acyclic graph and
\* selection over every cluster that is closed under dependencies.
EverySelection ==
  LET zarf == [p \in Three |-> IF p = 1 THEN "a" ELSE "b"]
      ns   == [p \in Three |-> IF p = 2 THEN "none" ELSE "own"]
  IN {c \in CallsFor(Three, zarf, ns, {TRUE}, SUBSET Three, {FALSE}, FALSE) :
        /\ Acyclic(c.deps)
        /\ \A p \in Three : <<zarf[p], ns[p]>> \in c.found =>
             \A q \in c.deps[p] : <<zarf[q], ns[q]>> \in c.found}

EveryCall == TwoPackageCalls \union EverySelection
=============================================================================
