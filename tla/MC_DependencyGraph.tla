------------------------- MODULE MC_DependencyGraph -------------------------
(***************************************************************************)
(* Instances of DependencyGraph for TLC, and of LocalOrder over the same   *)
(* graphs: the depends_on lists read as what the locals of a bundle name.  *)
(***************************************************************************)
EXTENDS DependencyGraph, LocalOrder, TLC

CONSTANT Ghost  \* a name that is no package

Names == Packages \union {Ghost}

\* The depends_on lists of the packages in P name Q, up to n times each.
Lists(P, Q, n) ==
  {[p \in Packages |-> [d \in Names |->
      IF p \in P /\ d \in Q THEN lists[p][d] ELSE 0]] : lists \in [P -> [Q -> 0..n]]}

Inputs(graphs, requests) == [edges : graphs, request : requests]

\* Every graph over all packages with every selection; every graph over one package
\* less whose lists may repeat a name; and two packages whose lists and selection may
\* name what is no package.
Bundles ==
  Inputs(Lists(Packages, Packages, 1), SUBSET Packages)
    \union UNION {Inputs(Lists(Packages \ {p}, Packages \ {p}, 2), {{}}) : p \in Packages}
    \union UNION {Inputs(Lists({p, q}, {p, q, Ghost}, 1), SUBSET {p, q, Ghost}) : p, q \in Packages}

\* The expression of a local or an attribute p refers to what the depends_on list of p
\* names, as often as it does.
Expression(p, listed, callers) ==
  LET once == SelectSeq(listed, LAMBDA d : edges[p][d] > 0)
      names == once \o SelectSeq(once, LAMBDA d : edges[p][d] > 1)
  IN [traversals |-> <<<<"sys", "arch">>>> \o [i \in DOMAIN names |-> <<"local", names[i]>>],
      own |-> {p}, file |-> p \in callers]

\* extractLocals puts the locals of a bundle file in an order in which each evaluates,
\* wherever they stand in the file, or reports a cycle that is there or a name that is
\* not; their values are those of the locals they reach; and the bundle file that create
\* writes, with every file() call replaced, has the values of the one it read.
LocalsResolve ==
  pc = "build" /\ request = {} =>
    /\ \A source \in SetToSeqs(Packages) :
         LET exprs == [p \in Packages |-> Expression(p, source \o <<Ghost>>, {})]
         IN /\ SortIsRight(source, [p \in Packages |-> LocalDependencies(exprs[p])])
            /\ ValuesAreRight(source, exprs)
    /\ LET source == SetToSeq(Packages)
       IN \A callers \in SUBSET Packages :
            LET exprs == [p \in Packages |-> Expression(p, source \o <<Ghost>>, callers)]
            IN MaterializedAgrees(source, [locals |-> exprs, attributes |-> exprs])

\* Packages names are interchangeable: the code compares them only for equality.
Symmetry == Permutations(Packages)
=============================================================================
