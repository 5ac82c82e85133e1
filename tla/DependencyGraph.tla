--------------------------- MODULE DependencyGraph ---------------------------
(***************************************************************************)
(* The dependency resolution every deployment and removal starts with, as  *)
(* the sequence of loops in internal/bundle/dependency.go:                 *)
(*                                                                         *)
(*   BuildDependencyGraph  unknown references, then detectCycles (DFS)     *)
(*   TopologicalLevels     Kahn's algorithm, one wave per iteration        *)
(*   FilterLevels          the --packages selection                        *)
(*                                                                         *)
(* A bundle is any multigraph over Packages: depends_on lists may repeat a *)
(* name, so edges[p][d] counts how often p lists d.  Name may hold names   *)
(* that are no package (an unknown reference).  The order in which Go      *)
(* visits its maps, and the order of a depends_on list, are choices of the *)
(* model: the result may depend on neither.                                *)
(*                                                                         *)
(* The specification is named GraphSpec, its parts alike: the proofs of    *)
(* BundleDeployProofs are about this module and about BundleDeploy.        *)
(***************************************************************************)
EXTENDS BundleGraph

CONSTANTS
  Packages,  \* the packages of the bundle, by name
  Name,      \* every name a depends_on or --packages entry may hold
  MaxRepeat, \* bound: how often one depends_on list repeats a name
  Input      \* bundles with a selection: [edges, request]

ASSUME GraphAssumption ==
  /\ IsFiniteSet(Name)
  /\ Packages \subseteq Name
  /\ MaxRepeat \in Nat
  /\ \A i \in Input : /\ i.edges \in [Packages -> [Name -> 0..MaxRepeat]]
                     /\ i.request \subseteq Name

VARIABLES
  edges,     \* edges[p][d]: occurrences of d in the depends_on list of p
  request,   \* the --packages names, {} when the flag is absent
  pc,        \* which loop runs: build, dfs, kahn, filter, done
  visited,   \* detectCycles: names already entered
  stack,     \* detectCycles: the frames of the recursive closure dfs
  inDegree,  \* TopologicalLevels: unmet dependencies, -1 once in a level
  remaining, \* TopologicalLevels: how many packages are in no level yet
  levels,    \* the levels built so far
  answer     \* none, ok, or the error returned

graphVars == <<edges, request, pc, visited, stack, inDegree, remaining, levels, answer>>

----------------------------------------------------------------------------
\* The dependency relation without repetitions.
Deps == [p \in Packages |-> {d \in Name : edges[p][d] > 0}]

\* Faulty variant: dfs returns without clearing recStack.
RecStackKept == visited

\* recStack of detectCycles holds exactly the names with an open frame.
RecStack == {stack[i].name : i \in DOMAIN stack}

InLevel == Members(levels)

\* The entries of the depends_on list of p that name a member of S, told apart by how
\* many entries before them name the same package.
Entries(p, S) == {e \in S \X (1..MaxRepeat) : e[2] <= edges[p][e[1]]}

Return(err) == pc' = "done" /\ answer' = err

----------------------------------------------------------------------------
GraphInit ==
  /\ \E i \in Input : edges = i.edges /\ request = i.request
  /\ pc = "build"
  /\ visited = {}
  /\ stack = <<>>
  /\ inDegree = [p \in Packages |-> 0]
  /\ remaining = 0
  /\ levels = <<>>
  /\ answer = "none"

\* BuildDependencyGraph up to detectCycles: the first reference to a name that
\* is no package is an error.
BuildEdges ==
  /\ pc = "build"
  /\ IF \A p \in Packages : Deps[p] \subseteq Packages
     THEN pc' = "dfs" /\ UNCHANGED answer
     ELSE Return("unknownDependency")
  /\ UNCHANGED <<edges, request, visited, stack, inDegree, remaining, levels>>

\* A call of the closure dfs.  Go finds no edges for a name that is no package.
Frame(p) == [name |-> p, todo |-> IF p \in Packages THEN Deps[p] ELSE {}]

\* The loop over d.packages: start the search at a package not yet visited.
DFSRoot ==
  /\ pc = "dfs" /\ stack = <<>>
  /\ \E p \in Packages \ visited :
       /\ visited' = visited \union {p}
       /\ stack' = <<Frame(p)>>
  /\ UNCHANGED <<edges, request, pc, inDegree, remaining, levels, answer>>

\* One iteration of the loop over the edges of the innermost frame.
DFSEdge ==
  /\ pc = "dfs" /\ stack # <<>>
  /\ \E d \in Last(stack).todo :
       LET rest == Append(Front(stack), [Last(stack) EXCEPT !.todo = @ \ {d}])
       IN \/ /\ d \notin visited
             /\ visited' = visited \union {d}
             /\ stack' = Append(rest, Frame(d))
             /\ UNCHANGED <<pc, answer>>
          \/ /\ d \in visited /\ d \in RecStack
             /\ Return("cycle")
             /\ UNCHANGED <<visited, stack>>
          \/ /\ d \in visited /\ d \notin RecStack
             /\ stack' = rest
             /\ UNCHANGED <<visited, pc, answer>>
  /\ UNCHANGED <<edges, request, inDegree, remaining, levels>>

\* dfs returns nil to its caller.
DFSReturn ==
  /\ pc = "dfs" /\ stack # <<>> /\ Last(stack).todo = {}
  /\ stack' = Front(stack)
  /\ UNCHANGED <<edges, request, pc, visited, inDegree, remaining, levels, answer>>

\* No cycle: TopologicalLevels counts the entries of each depends_on list.
CountInDegrees ==
  /\ pc = "dfs" /\ stack = <<>> /\ visited = Packages
  /\ inDegree' = [p \in Packages |-> Cardinality(Entries(p, Name))]
  /\ remaining' = Cardinality(Packages)
  /\ pc' = "kahn"
  /\ UNCHANGED <<edges, request, visited, stack, levels, answer>>

\* The packages with no unmet dependency.
CurrentLevel == {p \in Packages : inDegree[p] = 0}

\* Faulty variant: one decrement per dependent however many entries a wave
\* satisfies.
RelaxOnce(wave) ==
  [q \in Packages |->
     IF q \in wave THEN -1
     ELSE IF inDegree[q] > 0 /\ Entries(q, wave) # {}
     THEN inDegree[q] - 1
     ELSE inDegree[q]]

\* The inner loop of one wave: members drop to -1, and a dependent loses one
\* per entry of its depends_on list that the wave satisfies, never below 0.
Relax(wave) ==
  [q \in Packages |->
     IF q \in wave THEN -1
     ELSE IF inDegree[q] > 0
     THEN LET met == Cardinality(Entries(q, wave))
          IN IF met < inDegree[q] THEN inDegree[q] - met ELSE 0
     ELSE inDegree[q]]

\* One iteration of the loop over the remaining packages.
KahnLevel ==
  /\ pc = "kahn" /\ remaining > 0
  /\ IF CurrentLevel = {}
     THEN Return("levelsCycle") /\ UNCHANGED <<inDegree, remaining, levels>>
     ELSE /\ levels' = Append(levels, CurrentLevel)
          /\ remaining' = remaining - Cardinality(CurrentLevel)
          /\ inDegree' = Relax(CurrentLevel)
          /\ UNCHANGED <<pc, answer>>
  /\ UNCHANGED <<edges, request, visited, stack>>

KahnDone ==
  /\ pc = "kahn" /\ remaining <= 0
  /\ pc' = "filter"
  /\ UNCHANGED <<edges, request, visited, stack, inDegree, remaining, levels, answer>>

\* ValidatePackageNames and FilterLevels: both reject a name that is not in the
\* bundle before any level is dropped.
FilterLevels ==
  /\ pc = "filter"
  /\ IF request \subseteq Packages
     THEN levels' = KeepRequested(levels, request) /\ Return("ok")
     ELSE UNCHANGED levels /\ Return("unknownPackage")
  /\ UNCHANGED <<edges, request, visited, stack, inDegree, remaining>>

Resolved == pc = "done" /\ UNCHANGED graphVars

GraphNext ==
  \/ BuildEdges
  \/ DFSRoot \/ DFSEdge \/ DFSReturn
  \/ CountInDegrees \/ KahnLevel \/ KahnDone
  \/ FilterLevels
  \/ Resolved

GraphSpec == GraphInit /\ [][GraphNext]_graphVars

----------------------------------------------------------------------------
Types ==
  /\ edges \in [Packages -> [Name -> 0..MaxRepeat]]
  /\ request \subseteq Name
  /\ pc \in {"build", "dfs", "kahn", "filter", "done"}
  /\ visited \subseteq Packages
  /\ \A i \in DOMAIN stack : /\ stack[i].name \in Packages
                             /\ stack[i].todo \subseteq Packages
  /\ inDegree \in [Packages -> Nat \union {-1}]
  /\ remaining \in Nat
  /\ levels \in Seq(SUBSET Packages)
  /\ answer \in {"none", "ok", "unknownDependency", "cycle", "levelsCycle",
                  "unknownPackage"}

Validated == pc \in {"kahn", "filter"} \/ answer \in {"ok", "unknownPackage"}

\* The verdict of detectCycles is that of the transitive closure, whichever
\* package the search starts at and in whatever order it follows the edges: a
\* graph that passes has no cycle, a graph that is refused has one.  A reference to
\* a name that is no package never enters the search as a node of its own.
CycleVerdict ==
  /\ Validated => Acyclic(Deps)
  /\ answer = "cycle" => ~Acyclic(Deps)

\* TopologicalLevels finds the reference waves: every package waits for all it
\* depends on and for nothing else, so each wave is as large as it can be.  It
\* never runs out of packages to place, its second way to report a cycle, once
\* detectCycles has found none, also when depends_on lists repeat a name.  A selection
\* keeps exactly the requested packages, leaves no empty level, and keeps two packages
\* in order when one needs the other through a package that was filtered out.
LevelsAreWaves ==
  /\ Types /\ answer # "levelsCycle"
  /\ pc = "filter" => levels = Waves(Deps)
  /\ answer = "ok" =>
       LET kept == IF request = {} THEN Packages ELSE request
       IN /\ InLevel = kept
          /\ \A i \in DOMAIN levels : levels[i] # {}
          /\ \A p, q \in kept : q \in Ancestors(Deps)[p] =>
               Position(levels, q) < Position(levels, p)

\* The safety checks look at direct neighbours only, and that is enough: a
\* selection without a violation is closed under transitive dependencies
\* (deploy) or transitive dependents (remove).
DirectChecksSuffice ==
  answer = "ok" =>
    /\ DeploySafe(Deps, request) =>
         \A p \in request : Ancestors(Deps)[p] \subseteq request
    /\ RemovalSafe(Deps, request) =>
         \A p \in Packages \ request :
            Ancestors(Deps)[p] \intersect request = {}
=============================================================================
