----------------------------- MODULE LegacyProofs -----------------------------
(***************************************************************************)
(* What the legacy engine leaves on the cluster, reports and hands from    *)
(* package to package, over any number of commands of which each may fail  *)
(* or be killed anywhere: for any bundles and commands.  And of its        *)
(* monitor, PeprStream, that no count it keeps or prints is made up,       *)
(* however the goroutines that share the counter without its mutex are     *)
(* interleaved, and that the log of a single pod is told truly: for any    *)
(* pods, logs and streams.                                                 *)
(***************************************************************************)
EXTENDS LegacyBundle, PeprStream, FiniteSetTheorems, SequenceTheorems, TLAPS

----------------------------------------------------------------------------
(* Deploy, resume, dev deploy and remove.                                   *)

States == {"absent", "partial", "deployed"}
Outcomes == {"none", "ok", "error", "panic", "killed"}

\* Where a command has not yet looked at a package, where it goes through its
\* packages, and where it has one in hand.
Starting == {"validate", "select", "list"}
Midway == {"install", "installing", "record"}
Working == {"next"} \union Midway

\* What a command wants of entry i was so at some moment of the command.
Handled(i) ==
  IF command.op = "deploy" THEN "deployed" \in seen[ID(i)]
  ELSE blind \/ "absent" \in seen[ID(i)]

\* How far the command is.
Progress ==
  /\ bundle \in Bundles /\ ValidVars(bundle)
  /\ cluster \in [IDs -> States] /\ seen \in [IDs -> SUBSET States]
  /\ pc \in {"idle"} \union Starting \union Working
  /\ todo \subseteq Index
  /\ DOMAIN exported \subseteq Name /\ DOMAIN loaded \subseteq Index
  /\ outcome \in Outcomes
  /\ blind \in BOOLEAN /\ piecemeal \in BOOLEAN
  /\ pc # "idle" => command \in Commands /\ outcome = "none"
  /\ pc \in Starting => DOMAIN exported = {} /\ DOMAIN loaded = {}
  /\ pc = "list" => todo = Selected(command)
  /\ pc \in Midway => command.op = "deploy"

\* What was seen covers the cluster as it is, and every entry no longer to be handled.
Witnessed ==
  /\ pc # "idle" => \A d \in IDs : cluster[d] \in seen[d]
  /\ pc \in Working => \A i \in Selected(command) \ todo : Handled(i)
  /\ pc = "record" => \A i \in Index : InTurn(i) => "deployed" \in seen[ID(i)]
  /\ outcome = "ok" => \A i \in Selected(command) : Handled(i)

InPrefix == \A i, j \in Index : i < j /\ ID(j) \in Deployed => ID(i) \in Deployed

\* A deployment has what it is done with on the cluster, a removal has nothing there but
\* what it is to remove, if it could read the cluster; and both take the next in order.
InOrder ==
  /\ InPrefix
  /\ pc # "idle" => command.packages = <<>>
  /\ pc \in Working /\ command.op = "deploy" => \A j \in Index \ todo : ID(j) \in Deployed
  /\ pc \in {"installing", "record"} => \A i \in Index : InTurn(i) => ID(i) \in Deployed
  /\ pc \in Working /\ command.op = "remove" =>
       IF blind THEN todo = {} ELSE \A j \in Index : ID(j) \in Deployed => j \in todo

Ordered == DistinctIDs /\ ~piecemeal => InOrder

\* The imports of entry k are what ImportsFollowExports says of them.
ImportsOf(k) ==
  \A v \in DOMAIN bundle[k].imports \ command.user :
    \A j \in Index \ {k} : bundle[j].name = bundle[k].imports[v] =>
      loaded[k].vars[v] = IF j \in DOMAIN loaded THEN Export(j) ELSE Blank

\* The exports of every entry done are known, and of no other, and the entries are loaded
\* in their order.
Known ==
  /\ DOMAIN exported = {bundle[k].name : k \in DOMAIN loaded \ todo}
  /\ \A k \in DOMAIN loaded \ todo :
       exported[bundle[k].name] = [v \in bundle[k].exports |-> Export(k)]
  /\ \A k \in DOMAIN loaded, t \in todo : k <= t
  /\ pc \notin Midway => DOMAIN loaded \intersect todo = {}
  /\ pc \in Midway => \A i \in Index : InTurn(i) => i \in DOMAIN loaded

Handed ==
  DistinctNames =>
    /\ \A k \in DOMAIN loaded : ImportsOf(k)
    /\ pc # "idle" => Known

Inv == Progress /\ Witnessed /\ Ordered /\ Handed

-----------------------------------------------------------------------------
(* The bundle never changes, and what is said of it alone does not either.  *)

LEMMA Same ==
  ASSUME bundle' = bundle
  PROVE  /\ Index' = Index /\ IDs' = IDs /\ \A i : ID(i)' = ID(i)
         /\ DistinctIDs' = DistinctIDs /\ DistinctNames' = DistinctNames
         /\ ValidVars(bundle)' = ValidVars(bundle)
BY DEF Index, IDs, ID, DistinctIDs, DistinctNames

LEMMA BundleIs ==
  ASSUME Progress
  PROVE  /\ Len(bundle) \in Nat \ {0} /\ Index = 1..Len(bundle)
         /\ \A i \in Index : /\ ID(i) \in IDs /\ bundle[i].name \in Name
                             /\ DOMAIN bundle[i].imports \subseteq Var
         /\ Selected(command) \subseteq Index
<1>1. BundleType(bundle)
  BY LegacyAssumption DEF Progress
<1> QED
  BY <1>1 DEF BundleType, Index, IDs, Selected, Named

LEMMA Operations == ASSUME Progress, pc # "idle" PROVE command.op \in {"deploy", "remove"}
BY LegacyAssumption DEF Progress, CommandType

\* What was seen stays seen when the cluster changes.
LEMMA Sees ==
  ASSUME Progress, bundle' = bundle, NEW c \in [IDs -> States], SetCluster(c)
  PROVE  /\ cluster' \in [IDs -> States] /\ seen' \in [IDs -> SUBSET States]
         /\ \A d \in IDs : cluster'[d] = c[d] /\ c[d] \in seen'[d] /\ seen[d] \subseteq seen'[d]
BY Same DEF SetCluster, Progress

-----------------------------------------------------------------------------
LEMMA AtFirst == Init => Inv
<1> SUFFICES ASSUME Init PROVE Inv
  OBVIOUS
<1>1. /\ bundle \in Bundles /\ ValidVars(bundle)
      /\ cluster = [d \in IDs |-> "absent"] /\ seen = [d \in IDs |-> {}]
      /\ pc = "idle" /\ todo = {} /\ exported = <<>> /\ loaded = <<>> /\ outcome = "none"
      /\ blind = FALSE /\ piecemeal = FALSE
  BY DEF Init
<1>2. DOMAIN exported = {} /\ DOMAIN loaded = {}
  BY <1>1
<1>3. Progress
  BY <1>1, <1>2 DEF Progress, Starting, Midway, Working, States, Outcomes
<1>4. Witnessed
  BY <1>1 DEF Witnessed, Working, Midway
<1>5. Deployed = {}
  BY <1>1 DEF Deployed
<1>6. Ordered
  BY <1>1, <1>5 DEF Ordered, InOrder, InPrefix, Working, Midway
<1>7. Handed
  BY <1>1, <1>2 DEF Handed
<1> QED
  BY <1>3, <1>4, <1>6, <1>7 DEF Inv

\* A command begins anew, knowing of the cluster only what it sees.
LEMMA Begins == ASSUME Inv, NEW c \in Commands, Begin(c) PROVE Inv'
<1>1. /\ pc = "idle" /\ command' = c /\ pc' = "validate" /\ todo' = {}
      /\ exported' = <<>> /\ loaded' = <<>> /\ outcome' = "none"
      /\ seen' = [d \in IDs |-> {cluster[d]}] /\ blind' = FALSE
      /\ piecemeal' = (piecemeal \/ c.packages # <<>>)
      /\ UNCHANGED <<bundle, cluster>>
  BY DEF Begin
<1>2. DOMAIN exported' = {} /\ DOMAIN loaded' = {}
  BY <1>1
<1>3. Progress'
  <2>1. seen' \in [IDs -> SUBSET States] /\ piecemeal' \in BOOLEAN
    BY <1>1 DEF Inv, Progress
  <2> QED
    BY <1>1, <1>2, <2>1, Same DEF Inv, Progress, Starting, Midway, Working, Outcomes
<1>4. Witnessed'
  BY <1>1, Same DEF Witnessed, Working, Midway
<1>5. Ordered'
  <2>1. Deployed' = Deployed
    BY <1>1, Same DEF Deployed
  <2> QED
    BY <1>1, <2>1, Same DEF Inv, Ordered, InOrder, InPrefix, Working, Midway
<1>6. Handed'
  BY <1>1, <1>2, Same DEF Handed, Known, Midway
<1> QED
  BY <1>3, <1>4, <1>5, <1>6 DEF Inv

\* A command ends with the cluster as it is.
LEMMA Ends ==
  ASSUME Inv, NEW from, NEW result \in Outcomes, Stop(from, result), from # "idle",
         result = "ok" => todo = {} /\ from = "next"
  PROVE  Inv'
<1>1. /\ pc = from /\ pc' = "idle" /\ outcome' = result
      /\ UNCHANGED <<bundle, command, todo, exported, loaded, blind, piecemeal, cluster, seen>>
  BY DEF Stop, End, history
<1>2. Progress'
  BY <1>1, Same DEF Inv, Progress, Starting, Midway, Working
<1>3. Witnessed'
  BY <1>1, Same DEF Inv, Witnessed, Working, Midway, Selected, Named, Handled
<1>4. Ordered'
  BY <1>1, Same DEF Inv, Ordered, InOrder, InPrefix, Working, Midway, Deployed
<1>5. Handed'
  <2>1. \A k : ImportsOf(k)' <=> ImportsOf(k)
    BY <1>1, Same DEF ImportsOf, Export
  <2> QED
    BY <1>1, <2>1, Same DEF Inv, Handed
<1> QED
  BY <1>2, <1>3, <1>4, <1>5 DEF Inv

\* A command goes on to what it is to handle: all that was selected, or what is left of
\* it after a look at the cluster.
LEMMA Chooses ==
  ASSUME Inv,
         \/ Validate /\ pc' = "select"
         \/ Select /\ pc' # "idle"
         \/ List
  PROVE  Inv'
<1>1. /\ pc \in Starting /\ pc' \in {"select", "list", "next"}
      /\ pc' = "select" => pc = "validate" /\ todo' = todo
      /\ pc' = "list" => pc = "select"
      /\ UNCHANGED <<bundle, command, outcome, cluster, seen, exported, loaded, piecemeal>>
  BY DEF Validate, Select, List, Stop, End, Goto, Still, history, Starting
<1>2. /\ command \in Commands /\ command.op \in {"deploy", "remove"} /\ outcome = "none"
      /\ DOMAIN exported = {} /\ DOMAIN loaded = {} /\ todo \subseteq Index
      /\ pc # "idle"
  BY <1>1, Operations DEF Inv, Progress, Starting
<1>3. pc = "select" => todo' = Selected(command) /\ blind' = blind
  BY <1>1, <1>2 DEF Select, Stop, End, Goto, history, Validate, List
<1>4. pc = "list" =>
        /\ pc' = "next" /\ blind' \in BOOLEAN /\ todo = Selected(command)
        /\ todo' = IF command.op = "remove"
                   THEN ToRemove(IF blind' THEN {} ELSE Deployed)
                   ELSE ToResume(IF blind' THEN {} ELSE Successful)
  BY DEF Validate, Select, List, Stop, End, Goto, Inv, Progress
<1>5. pc = "validate" => pc' = "select" /\ blind' = blind
  BY <1>1 DEF Validate, Select, List, Goto, history, Stop, End
<1>6. /\ Selected(command)' = Selected(command) /\ Selected(command) \subseteq Index
      /\ \A i \in Index : ID(i) \in IDs /\ (Handled(i) /\ blind' = blind => Handled(i)')
  BY <1>1, Same, BundleIs DEF Selected, Named, Handled, Inv
<1>7. todo' \subseteq Index /\ blind' \in BOOLEAN
  BY <1>1, <1>2, <1>3, <1>4, <1>5, <1>6 DEF ToRemove, ToResume, Inv, Progress, Starting
<1>8. Progress'
  BY <1>1, <1>2, <1>3, <1>6, <1>7, Same DEF Inv, Progress, Starting, Working, Midway
<1>9. Witnessed'
  <2>1. ASSUME pc = "list", NEW i \in Selected(command) \ todo' PROVE Handled(i)'
    <3>1. cluster[ID(i)] \in seen[ID(i)] /\ ID(i) \in IDs /\ ID(i)' = ID(i)
      BY <1>1, <1>2, <1>6, Same DEF Inv, Witnessed
    <3> QED
      BY <1>1, <1>2, <1>4, <2>1, <3>1 DEF ToRemove, ToResume, Deployed, Successful, Handled
  <2>2. pc' \in Working => \A i \in Selected(command) \ todo' : Handled(i)'
    BY <1>1, <1>3, <1>5, <2>1 DEF Starting, Working, Midway
  <2> QED
    BY <1>1, <1>2, <1>6, <2>2, Same DEF Inv, Witnessed
<1>10. Ordered'
  <2> SUFFICES ASSUME DistinctIDs, ~piecemeal PROVE InOrder'
    BY <1>1, Same DEF Ordered
  <2>1. InPrefix' /\ Deployed' = Deployed
    BY <1>1, Same DEF Inv, Ordered, InOrder, InPrefix, Deployed
  <2>2. command.packages = <<>> /\ Selected(command) = Index
    BY <1>2 DEF Inv, Ordered, InOrder, Selected
  <2>3. command.op = "deploy" /\ pc' = "next" => \A j \in Index \ todo' : ID(j) \in Deployed
    BY <1>1, <1>3, <1>4, <1>5, <1>6, <2>2 DEF Starting, ToResume, Successful, Deployed
  <2>4. command.op = "remove" /\ pc' = "next" =>
          IF blind' THEN todo' = {} ELSE \A j \in Index : ID(j) \in Deployed => j \in todo'
    <3>1. command.op = "remove" /\ pc = "select" => pc' = "list"
      BY <1>1 DEF Select, Stop, End, Goto, Validate, List
    <3> QED
      BY <1>1, <1>4, <1>5, <2>2, <3>1 DEF Starting, ToRemove
  <2> QED
    BY <1>1, <2>1, <2>2, <2>3, <2>4, Same DEF InOrder, Working, Midway
<1>11. Handed'
  BY <1>1, <1>2, Same DEF Handed, Known, Midway
<1> QED
  BY <1>8, <1>9, <1>10, <1>11 DEF Inv

\* The next package is prepared, with what the packages before it exported.
LEMMA Prepares ==
  ASSUME Inv, NEW i \in Index, Prepare(i), pc' = "install"
  PROVE  Inv'
<1>1. /\ pc = "next" /\ command.op = "deploy" /\ InTurn(i)
      /\ UNCHANGED <<bundle, command, outcome, cluster, seen, todo, exported, blind, piecemeal>>
  BY DEF Prepare, Stop, End, Goto, Still, history
<1>2. PICK values \in [Var -> UNION {LoadVariables(i)[v] : v \in Var}] :
        /\ \A v \in Var : values[v] \in LoadVariables(i)[v]
        /\ loaded' = [k \in DOMAIN loaded \union {i} |->
                        IF k = i THEN [vars |-> values, reference |-> Reference(i)]
                        ELSE loaded[k]]
  BY DEF Prepare, Stop, End
<1>3. /\ DOMAIN loaded' = DOMAIN loaded \union {i} /\ loaded'[i].vars = values
      /\ \A k \in DOMAIN loaded : k # i => loaded'[k] = loaded[k]
  BY <1>2
<1>4. \A k : InTurn(k)' <=> InTurn(k)
  BY <1>1 DEF InTurn
<1>5. Progress'
  BY <1>1, <1>3, Same DEF Inv, Progress, Starting, Working, Midway
<1>6. Witnessed'
  BY <1>1, <1>4, Same DEF Inv, Witnessed, Handled, Working, Midway, Selected, Named
<1>7. Ordered'
  <2>1. Deployed' = Deployed
    BY <1>1, Same DEF Deployed
  <2> QED
    BY <1>1, <1>4, <2>1, Same DEF Inv, Ordered, InOrder, InPrefix, Working, Midway
<1>8. Handed'
  <2> SUFFICES ASSUME DistinctNames
               PROVE  (\A k \in DOMAIN loaded' : ImportsOf(k)') /\ Known'
    BY <1>1, Same DEF Handed
  <2>1. Known /\ \A k \in DOMAIN loaded : ImportsOf(k)
    BY <1>1 DEF Inv, Handed
  <2>2. /\ i \in todo /\ i \notin DOMAIN loaded /\ \A t \in todo : i <= t
        /\ DOMAIN loaded \intersect todo = {} /\ \A k \in DOMAIN loaded : k <= i
        /\ DOMAIN loaded \subseteq Index /\ todo \subseteq Index
        /\ Index \subseteq Nat
    BY <1>1, <2>1, BundleIs DEF InTurn, Known, Midway, Inv, Progress
  <2>3. Known'
    <3>1. DOMAIN loaded' \ todo' = DOMAIN loaded \ todo
      BY <1>1, <1>3, <2>2
    <3>2. \A k \in DOMAIN loaded', t \in todo : k <= t
      BY <1>3, <2>1, <2>2 DEF Known
    <3>3. \A k \in Index : InTurn(k) => k = i
      BY <1>1, <2>2 DEF InTurn
    <3> QED
      BY <1>1, <1>3, <1>4, <2>1, <3>1, <3>2, <3>3, Same DEF Known, Midway, Export
  <2>4. ASSUME NEW k \in Index, NEW v \in DOMAIN bundle[k].imports, NEW j \in Index \ {k},
               bundle[j].name = bundle[k].imports[v]
        PROVE  j < k /\ v \in bundle[j].exports
    <3>1. PICK e \in Index :
            LastExporter(bundle, k, v, e) /\ bundle[k].imports[v] = bundle[e].name
      BY DEF Inv, Progress, ValidVars, Index
    <3>2. e = j
      BY <2>4, <3>1 DEF DistinctNames
    <3> QED
      BY <2>2, <3>1, <3>2 DEF LastExporter
  <2>5. ImportsOf(i)'
    <3> SUFFICES ASSUME NEW v \in DOMAIN bundle[i].imports \ command.user,
                        NEW j \in Index \ {i}, bundle[j].name = bundle[i].imports[v]
                 PROVE  values[v] = IF j \in DOMAIN loaded THEN Export(j) ELSE Blank
      BY <1>1, <1>3, Same DEF ImportsOf, Export, Blank
    <3>1. v \in bundle[j].exports
      BY <2>4
    <3>2. values[v] = ExportedBy(bundle[j].name, v)
      <4>1. v \in Var
        BY BundleIs DEF Inv
      <4> QED
        BY <1>2, <4>1 DEF LoadVariables
    <3>3. CASE j \in DOMAIN loaded
      <4>1. j \in DOMAIN loaded \ todo
        BY <2>2, <3>3
      <4>2. /\ bundle[j].name \in DOMAIN exported
            /\ exported[bundle[j].name] = [u \in bundle[j].exports |-> Export(j)]
        BY <2>1, <4>1 DEF Known
      <4> QED
        BY <3>1, <3>2, <3>3, <4>2 DEF ExportedBy
    <3>4. CASE j \notin DOMAIN loaded
      <4>1. bundle[j].name \notin DOMAIN exported
        BY <2>1, <2>2, <3>4 DEF Known, DistinctNames
      <4> QED
        BY <3>2, <3>4, <4>1 DEF ExportedBy
    <3> QED
      BY <3>3, <3>4
  <2>6. ASSUME NEW k \in DOMAIN loaded PROVE ImportsOf(k)'
    <3>1. k \in Index /\ k < i /\ ~(i < k) /\ i \in Index \ {k} /\ loaded'[k] = loaded[k]
      <4>1. k \in Nat /\ i \in Nat /\ k <= i /\ k # i
        BY <2>2
      <4> QED
        BY <1>3, <2>2, <4>1
    <3>2. \A v \in DOMAIN bundle[k].imports : bundle[i].name # bundle[k].imports[v]
      BY <2>4, <3>1
    <3>3. ASSUME NEW v \in DOMAIN bundle[k].imports \ command.user, NEW j \in Index \ {k},
                 bundle[j].name = bundle[k].imports[v]
          PROVE  loaded'[k].vars[v] = IF j \in DOMAIN loaded' THEN Export(j) ELSE Blank
      <4>1. j # i
        BY <3>2, <3>3
      <4>2. loaded[k].vars[v] = IF j \in DOMAIN loaded THEN Export(j) ELSE Blank
        BY <2>1, <3>3 DEF ImportsOf
      <4> QED
        BY <1>3, <3>1, <4>1, <4>2
    <3> QED
      BY <1>1, <3>3, Same DEF ImportsOf, Export, Blank
  <2> QED
    BY <1>3, <2>3, <2>5, <2>6
<1> QED
  BY <1>5, <1>6, <1>7, <1>8 DEF Inv

\* The package is installed, at first in part, then completely.
LEMMA Installs ==
  ASSUME Inv, NEW i \in Index, Install(i) \/ Installed(i), pc' # "idle"
  PROVE  Inv'
<1>1. PICK s \in {"partial", "deployed"} : SetCluster([cluster EXCEPT ![ID(i)] = s])
  BY DEF Install, Installed, Stop, End
<1>2. /\ \/ pc = "install" /\ pc' = "installing"
         \/ /\ pc = "installing" /\ pc' = "record"
            /\ SetCluster([cluster EXCEPT ![ID(i)] = "deployed"])
      /\ InTurn(i)
      /\ UNCHANGED <<bundle, command, outcome, todo, exported, loaded, blind, piecemeal>>
  BY DEF Install, Installed, Stop, End, Goto, history
<1>3. command.op = "deploy" /\ i \in todo /\ (\A t \in todo : i <= t) /\ Index \subseteq Nat
      /\ todo \subseteq Index /\ pc # "idle"
  BY <1>2, BundleIs DEF Inv, Progress, InTurn, Midway
<1>4. \A k : InTurn(k)' <=> InTurn(k)
  BY <1>2 DEF InTurn
<1>5. [cluster EXCEPT ![ID(i)] = s] \in [IDs -> States] /\ ID(i) \in IDs
  BY BundleIs DEF Inv, Progress, States
<1>6. /\ cluster' \in [IDs -> States] /\ seen' \in [IDs -> SUBSET States]
      /\ \A d \in IDs : cluster'[d] \in seen'[d] /\ seen[d] \subseteq seen'[d]
      /\ cluster'[ID(i)] = s /\ \A d \in IDs : d # ID(i) => cluster'[d] = cluster[d]
  BY <1>1, <1>2, <1>5, Sees DEF Inv, Progress
<1>7. pc' = "record" => cluster'[ID(i)] = "deployed"
  BY <1>2, <1>5 DEF SetCluster, Inv, Progress
<1>8. \A k \in Index : ID(k) \in IDs /\ (Handled(k) => Handled(k)')
  BY <1>2, <1>6, BundleIs, Same DEF Handled, Inv
<1>9. \A k \in Index : InTurn(k) => k = i
  BY <1>2, <1>3 DEF InTurn
<1>10. Progress'
  BY <1>2, <1>6, Same DEF Inv, Progress, Starting, Working, Midway
<1>11. Witnessed'
  <2>1. Selected(command)' = Selected(command) /\ Selected(command) \subseteq Index
    BY <1>2, Same, BundleIs DEF Selected, Named, Inv
  <2> QED
    BY <1>2, <1>5, <1>6, <1>7, <1>8, <1>9, <1>4, <2>1, Same DEF Inv, Witnessed, Working, Midway
<1>12. Ordered'
  <2> SUFFICES ASSUME DistinctIDs, ~piecemeal PROVE InOrder'
    BY <1>2, Same DEF Ordered
  <2>1. Deployed' = Deployed \union {ID(i)}
    BY <1>5, <1>6, <1>1, Same, <1>2 DEF Deployed, Inv, Progress
  <2>2. InOrder
    BY DEF Inv, Ordered
  <2>3. \A j \in Index : j < i => ID(j) \in Deployed
    BY <1>2, <1>3, <2>2 DEF InOrder, Working, Midway
  <2>4. InPrefix'
    <3>1. i \in Index /\ Index' = Index /\ \A j : ID(j)' = ID(j)
      BY <1>2, <1>3, Same DEF Inv, Progress
    <3>2. \A j, k \in Index : j < k /\ ID(k) \in Deployed \union {ID(i)} =>
            ID(j) \in Deployed \union {ID(i)}
      BY <2>2, <2>3, <3>1 DEF InOrder, InPrefix, DistinctIDs
    <3> QED
      BY <2>1, <3>1, <3>2 DEF InPrefix
  <2> QED
    BY <1>2, <1>3, <1>4, <1>9, <2>1, <2>2, <2>4, Same DEF InOrder, Working, Midway
<1>13. Handed'
  <2>1. \A k : ImportsOf(k)' <=> ImportsOf(k)
    BY <1>2, Same DEF ImportsOf, Export
  <2>2. Known' <=> Known
    BY <1>2, <1>4, Same DEF Known, Midway, Export
  <2> QED
    BY <1>2, <1>3, <2>1, <2>2, Same DEF Inv, Handed
<1> QED
  BY <1>10, <1>11, <1>12, <1>13 DEF Inv

\* The exports are recorded, and the package is done.
LEMMA Records ==
  ASSUME Inv, NEW i \in Index, RecordExports(i), pc' = "next"
  PROVE  Inv'
<1>1. /\ pc = "record" /\ InTurn(i) /\ todo' = todo \ {i}
      /\ exported' = [p \in DOMAIN exported \union {bundle[i].name} |->
                        IF p = bundle[i].name THEN [v \in bundle[i].exports |-> Export(i)]
                        ELSE exported[p]]
      /\ UNCHANGED <<bundle, command, outcome, cluster, seen, loaded, blind, piecemeal>>
  BY DEF RecordExports, Stop, End, Goto, Still, history
<1>2. /\ command.op = "deploy" /\ i \in todo /\ (\A t \in todo : i <= t) /\ todo \subseteq Index
      /\ Index \subseteq Nat /\ DOMAIN loaded \subseteq Index
      /\ bundle[i].name \in Name
  BY <1>1, BundleIs DEF Inv, Progress, InTurn, Midway
<1>3. /\ DOMAIN exported' = DOMAIN exported \union {bundle[i].name}
      /\ exported'[bundle[i].name] = [v \in bundle[i].exports |-> Export(i)]
      /\ \A p \in DOMAIN exported : p # bundle[i].name => exported'[p] = exported[p]
  BY <1>1
<1>4. Progress'
  BY <1>1, <1>2, <1>3, Same DEF Inv, Progress, Starting, Working, Midway
<1>5. Witnessed'
  <2>1. Handled(i)
    BY <1>1, <1>2 DEF Inv, Witnessed, Handled
  <2>2. /\ Selected(command)' = Selected(command) /\ Selected(command) \subseteq Index
        /\ \A k \in Index : Handled(k)' <=> Handled(k)
    BY <1>1, Same, BundleIs DEF Selected, Named, Inv, Handled
  <2> QED
    BY <1>1, <2>1, <2>2, Same DEF Inv, Witnessed, Working, Midway
<1>6. Ordered'
  <2> SUFFICES ASSUME DistinctIDs, ~piecemeal PROVE InOrder'
    BY <1>1, Same DEF Ordered
  <2>1. InOrder /\ Deployed' = Deployed
    BY <1>1, Same DEF Inv, Ordered, Deployed
  <2>2. \A j \in Index \ todo' : ID(j) \in Deployed
    BY <1>1, <1>2, <2>1 DEF InOrder, Working, Midway
  <2> QED
    BY <1>1, <1>2, <2>1, <2>2, Same DEF InOrder, InPrefix, Working, Midway
<1>7. Handed'
  <2> SUFFICES ASSUME DistinctNames
               PROVE  (\A k \in DOMAIN loaded' : ImportsOf(k)') /\ Known'
    BY <1>1, Same DEF Handed
  <2>1. Known /\ \A k \in DOMAIN loaded : ImportsOf(k)
    BY <1>1 DEF Inv, Handed
  <2>2. \A k : ImportsOf(k)' <=> ImportsOf(k)
    BY <1>1, Same DEF ImportsOf, Export
  <2>3. i \in DOMAIN loaded /\ \A k \in DOMAIN loaded, t \in todo : k <= t
    BY <1>1, <2>1 DEF Known, Midway
  <2>4. DOMAIN loaded \ todo' = (DOMAIN loaded \ todo) \union {i}
    BY <1>1, <2>3
  <2>5. DOMAIN loaded \intersect todo' = {}
    <3> SUFFICES ASSUME NEW k \in DOMAIN loaded, k \in todo, k # i PROVE FALSE
      BY <1>1
    <3>1. k \in Nat /\ i \in Nat /\ k <= i /\ i <= k
      BY <1>2, <2>3
    <3> QED
      BY <3>1
  <2>6. DOMAIN exported' = {bundle[k].name : k \in DOMAIN loaded \ todo'}
    <3>1. DOMAIN exported = {bundle[k].name : k \in DOMAIN loaded \ todo}
      BY <2>1 DEF Known
    <3> QED
      BY <1>3, <2>4, <3>1
  <2>7. ASSUME NEW k \in DOMAIN loaded \ todo'
        PROVE  exported'[bundle[k].name] = [v \in bundle[k].exports |-> Export(k)]
    <3>1. CASE k = i
      BY <1>3, <3>1
    <3>2. CASE k # i
      <4>1. /\ k \in DOMAIN loaded \ todo /\ bundle[k].name # bundle[i].name
            /\ bundle[k].name \in DOMAIN exported
        BY <1>2, <2>1, <2>4, <3>2 DEF DistinctNames, Known
      <4> QED
        BY <1>3, <2>1, <4>1 DEF Known
    <3> QED
      BY <3>1, <3>2
  <2>8. Known'
    <3>1. bundle' = bundle /\ loaded' = loaded /\ pc' \notin Midway
      BY <1>1 DEF Midway
    <3>2. \A k \in DOMAIN loaded, t \in todo' : k <= t
      BY <1>1, <2>3
    <3> QED
      BY <2>5, <2>6, <2>7, <3>1, <3>2 DEF Known
  <2> QED
    BY <1>1, <2>1, <2>2, <2>8
<1> QED
  BY <1>4, <1>5, <1>6, <1>7 DEF Inv

\* A package is removed, or in part.
LEMMA Removes ==
  ASSUME Inv, NEW i \in Index, Uninstall(i), ~Stop("next", "error")
  PROVE  Inv'
<1>1. /\ pc = "next" /\ command.op = "remove" /\ InTurn(i) /\ cluster[ID(i)] # "absent"
      /\ UNCHANGED <<bundle, command, exported, loaded, blind, piecemeal>>
      /\ \/ /\ pc' = "idle" /\ outcome' = "error" /\ todo' = todo
            /\ SetCluster([cluster EXCEPT ![ID(i)] = "partial"])
         \/ /\ pc' = "next" /\ outcome' = outcome /\ todo' = todo \ {i}
            /\ SetCluster([cluster EXCEPT ![ID(i)] = "absent"])
  BY DEF Uninstall, End, Goto, history
<1>2. PICK s \in {"partial", "absent"} :
        /\ SetCluster([cluster EXCEPT ![ID(i)] = s])
        /\ pc' = IF s = "partial" THEN "idle" ELSE "next"
  BY <1>1
<1>3. i \in todo /\ (\A t \in todo : t <= i) /\ todo \subseteq Index /\ Index \subseteq Nat
  BY <1>1, BundleIs DEF InTurn, Inv, Progress
<1>4. [cluster EXCEPT ![ID(i)] = s] \in [IDs -> States] /\ ID(i) \in IDs
  BY BundleIs DEF Inv, Progress, States
<1>5. /\ cluster' \in [IDs -> States] /\ seen' \in [IDs -> SUBSET States]
      /\ \A d \in IDs : cluster'[d] \in seen'[d] /\ seen[d] \subseteq seen'[d]
      /\ cluster'[ID(i)] = s /\ \A d \in IDs : d # ID(i) => cluster'[d] = cluster[d]
  BY <1>1, <1>2, <1>4, Sees DEF Inv, Progress
<1>6. \A k \in Index : ID(k) \in IDs /\ (Handled(k) => Handled(k)')
  BY <1>1, <1>5, BundleIs, Same DEF Handled, Inv
<1>7. Progress'
  BY <1>1, <1>5, Same DEF Inv, Progress, Starting, Working, Midway, Outcomes
<1>8. Witnessed'
  <2>1. Selected(command)' = Selected(command) /\ Selected(command) \subseteq Index
    BY <1>1, Same, BundleIs DEF Selected, Named, Inv
  <2>2. pc' = "next" => Handled(i)'
    BY <1>1, <1>2, <1>4, <1>5, Same DEF Handled
  <2>3. outcome' # "ok"
    BY <1>1 DEF Inv, Progress
  <2> QED
    BY <1>1, <1>5, <1>6, <2>1, <2>2, <2>3, Same DEF Inv, Witnessed, Working, Midway
<1>9. Ordered'
  <2> SUFFICES ASSUME DistinctIDs, ~piecemeal PROVE InOrder'
    BY <1>1, Same DEF Ordered
  <2>1. InOrder
    BY DEF Inv, Ordered
  <2>2. ~blind /\ \A j \in Index : ID(j) \in Deployed => j \in todo
    BY <1>1, <1>3, <2>1 DEF InOrder, Working
  <2>3. CASE s = "partial"
    <3>1. Deployed' = Deployed
      BY <1>1, <1>4, <1>5, <2>3, Same DEF Deployed
    <3> QED
      BY <1>1, <1>2, <2>1, <2>3, <3>1, Same DEF InOrder, InPrefix, Working, Midway
  <2>4. CASE s = "absent"
    <3>1. Deployed' = Deployed \ {ID(i)}
      BY <1>1, <1>4, <1>5, <2>4, Same DEF Deployed
    <3>2. pc' = "next" /\ todo' = todo \ {i}
      BY <1>1, <1>2, <2>4
    <3>3. \A j \in Index : ID(j) \in Deployed' => j \in todo' /\ j < i
      BY <1>3, <2>2, <3>1, <3>2
    <3>4. InPrefix'
      <4> SUFFICES ASSUME NEW k \in Index, NEW j \in Index, k < j, ID(j) \in Deployed'
                   PROVE  ID(k) \in Deployed'
        BY <1>1, Same DEF InPrefix
      <4>1. k # i /\ ID(k) # ID(i)
        BY <1>3, <3>3 DEF DistinctIDs
      <4> QED
        BY <2>1, <3>1, <4>1 DEF InOrder, InPrefix
    <3> QED
      BY <1>1, <2>1, <2>2, <3>2, <3>3, <3>4, Same DEF InOrder, Working, Midway
  <2> QED
    BY <2>3, <2>4
<1>10. Handed'
  <2>1. \A k : ImportsOf(k)' <=> ImportsOf(k)
    BY <1>1, Same DEF ImportsOf, Export
  <2>2. ASSUME Known, pc' = "next" PROVE Known'
    <3>1. DOMAIN loaded \intersect todo = {}
      BY <1>1, <2>2 DEF Known, Midway
    <3>2. todo' \subseteq todo /\ DOMAIN loaded \ todo' = DOMAIN loaded \ todo
      BY <1>1, <1>3, <3>1
    <3> QED
      BY <1>1, <2>2, <3>1, <3>2, Same DEF Known, Midway, Export
  <2> QED
    BY <1>1, <2>1, <2>2, Same DEF Inv, Handed
<1> QED
  BY <1>7, <1>8, <1>9, <1>10 DEF Inv

\* Others change the cluster, which is then no longer the commands' alone.
LEMMA Meddles == ASSUME Inv, Meddle PROVE Inv'
<1>1. /\ piecemeal' = TRUE
      /\ UNCHANGED <<bundle, command, pc, todo, exported, loaded, outcome, blind>>
  BY DEF Meddle
<1>2. PICK d \in IDs, s \in {"absent", "deployed"} : SetCluster([cluster EXCEPT ![d] = s])
  BY DEF Meddle
<1>3. [cluster EXCEPT ![d] = s] \in [IDs -> States]
  BY DEF Inv, Progress, States
<1>4. /\ cluster' \in [IDs -> States] /\ seen' \in [IDs -> SUBSET States]
      /\ \A e \in IDs : cluster'[e] \in seen'[e] /\ seen[e] \subseteq seen'[e]
  BY <1>1, <1>2, <1>3, Sees DEF Inv, Progress
<1>5. Progress'
  BY <1>1, <1>4, Same DEF Inv, Progress, Selected, Named
<1>6. Witnessed'
  <2>1. /\ Selected(command)' = Selected(command) /\ Selected(command) \subseteq Index
        /\ \A k \in Index : InTurn(k)' <=> InTurn(k)
    BY <1>1, Same, BundleIs DEF Selected, Named, Inv, InTurn
  <2>2. \A k \in Index : ID(k) \in IDs /\ (Handled(k) => Handled(k)')
    BY <1>1, <1>4, BundleIs, Same DEF Handled, Inv
  <2> QED
    BY <1>1, <1>4, <2>1, <2>2, Same DEF Inv, Witnessed, Working, Midway
<1>7. Ordered'
  BY <1>1 DEF Ordered
<1>8. Handed'
  <2>1. \A k : ImportsOf(k)' <=> ImportsOf(k)
    BY <1>1, Same DEF ImportsOf, Export
  <2>2. Known' <=> Known
    BY <1>1, Same DEF Known, Midway, Export, InTurn
  <2> QED
    BY <1>1, <2>1, <2>2, Same DEF Inv, Handed
<1> QED
  BY <1>5, <1>6, <1>7, <1>8 DEF Inv

-----------------------------------------------------------------------------
LEMMA EveryStep == ASSUME Inv, [Next]_vars PROVE Inv'
<1>1. CASE \E c \in Commands : Begin(c)
  BY <1>1, Begins
<1>2. ASSUME NEW from \in Starting \union Working, NEW result \in Outcomes \ {"ok"},
             Stop(from, result)
      PROVE  Inv'
  BY <1>2, Ends DEF Starting, Working, Midway
<1>3. CASE Validate
  BY <1>3, <1>2, Chooses DEF Validate, Goto, Starting, Outcomes
<1>4. CASE Select
  <2>1. CASE pc' # "idle"
    BY <1>4, <2>1, Chooses
  <2>2. CASE pc' = "idle"
    <3>1. Stop("select", "error")
      BY <1>4, <2>2 DEF Select, Goto
    <3> QED
      BY <1>2, <3>1 DEF Starting, Outcomes
  <2> QED
    BY <2>1, <2>2
<1>5. CASE List
  BY <1>5, Chooses
<1>6. CASE Finished
  BY <1>6, Ends DEF Finished, Outcomes
<1>7. ASSUME NEW i \in Index,
             Prepare(i) \/ Install(i) \/ Installed(i) \/ RecordExports(i) \/ Uninstall(i)
      PROVE  Inv'
  <2>1. \/ Stop(pc, "error") \/ Stop(pc, "panic")
        \/ Prepare(i) /\ pc' = "install"
        \/ (Install(i) \/ Installed(i)) /\ pc' # "idle"
        \/ RecordExports(i) /\ pc' = "next"
        \/ Uninstall(i) /\ ~Stop("next", "error")
    BY <1>7 DEF Prepare, Install, Installed, RecordExports, Uninstall, Goto, Stop, End
  <2>2. pc \in Starting \union Working
    BY <1>7 DEF Prepare, Install, Installed, RecordExports, Uninstall, Goto, Stop, End,
                Working, Midway
  <2> QED
    BY <1>2, <2>1, <2>2, Prepares, Installs, Records, Removes DEF Outcomes
<1>8. CASE Kill
  BY <1>8, <1>2 DEF Kill, Inv, Progress, Outcomes
<1>9. CASE Meddle
  BY <1>9, Meddles
<1>10. CASE UNCHANGED vars
  <2>1. UNCHANGED <<bundle, cluster, command, pc, todo, exported, loaded, outcome,
                    seen, blind, piecemeal>>
    BY <1>10 DEF vars
  <2>2. Progress'
    BY <2>1, Same DEF Inv, Progress, Selected, Named
  <2>3. Witnessed'
    BY <2>1, Same DEF Inv, Witnessed, Handled, Selected, Named, InTurn
  <2>4. Ordered'
    BY <2>1, Same DEF Inv, Ordered, InOrder, InPrefix, InTurn, Deployed
  <2>5. Handed'
    <3>1. \A k : ImportsOf(k)' <=> ImportsOf(k)
      BY <2>1, Same DEF ImportsOf, Export
    <3>2. Known' <=> Known
      BY <2>1, Same DEF Known, Export, InTurn
    <3> QED
      BY <2>1, <3>1, <3>2, Same DEF Inv, Handed
  <2> QED
    BY <2>2, <2>3, <2>4, <2>5 DEF Inv
<1> QED
  BY <1>1, <1>3, <1>4, <1>5, <1>6, <1>7, <1>8, <1>9, <1>10 DEF Next

\* Through every step of any commands: how far the command is, what it has seen, which
\* entries are on the cluster, and what was exported and handed on.
THEOREM Invariant == Spec => []Inv
BY AtFirst, EveryStep, PTL DEF Spec

\* Deploys, resumed deploys and removals of the whole of any bundle with distinct
\* deployments, in any number and order, leave the first entries of the bundle on the
\* cluster and none after them, wherever deployPackages and removePackages fail or are
\* killed.
THEOREM PrefixStays == Spec => []WholeCommandsKeepPrefix
<1>1. Inv => WholeCommandsKeepPrefix
  BY DEF Inv, Ordered, InOrder, InPrefix, WholeCommandsKeepPrefix
<1> QED
  BY <1>1, Invariant, PTL

\* A command that reports success has seen every package it was about completely
\* deployed, or gone, if GetDeployedPackageIDs could list any, also while others change
\* the cluster.
THEOREM SuccessHolds == Spec => []SuccessIsSeen
<1>1. Inv => SuccessIsSeen
  <2> SUFFICES ASSUME Inv PROVE SuccessIsSeen
    OBVIOUS
  <2>1. TypeOK
    BY DEF Inv, Progress, TypeOK, States, Outcomes, Starting, Working, Midway
  <2> QED
    BY <2>1 DEF Inv, Witnessed, Handled, SuccessIsSeen
<1> QED
  BY <1>1, Invariant, PTL

\* In any bundle with distinct names, loadVariables gives an import the export of the
\* package it names, or a blank if this command did not install that package.
THEOREM ImportsAreExports == Spec => []ImportsFollowExports
<1>1. Inv => ImportsFollowExports
  BY DEF Inv, Handed, ImportsOf, ImportsFollowExports
<1> QED
  BY <1>1, Invariant, PTL

----------------------------------------------------------------------------
(* The monitor.                                                             *)

Held == {"clearing", "replacing"}

\* The places of a goroutine that has no line in hand.
Idle == {"open", "scan", "done"}

Places == Idle \cup Held \cup {"idle", "body", "differs", "repeats", "bump", "report", "reset",
                              "clear", "replace", "write"}

\* Where the goroutines are: a pod that is not read is done, and one that has a line in
\* hand has not come to the end of its log.
Control ==
    /\ setting \in Settings
    /\ main \in {"wait", "returned", "exited"} /\ stopping \in BOOLEAN
    /\ at \in [Procs -> Places] /\ pos \in [Pods -> Nat]
    /\ mutex \in Procs \cup {"free"}
    /\ \A x \in Procs : (mutex = x) <=> (at[x] \in Held)
    /\ \A p \in Pods : at[p] # "done" => p \in Reading
    /\ \A p \in Reading : pos[p] <= Len(Log(p))
    /\ \A p \in Pods : at[p] \notin Idle => pos[p] < Len(Log(p))

IsSequence(s) == \E S : s \in Seq(S)

\* Every count, wherever it is on its way, is one of events that were taken for repeats.
Counts ==
    /\ repeatCount \in Nat /\ suppressed \in Nat /\ bumped \in [Pods -> Nat]
    /\ repeatCount <= suppressed
    /\ \A p \in Pods : bumped[p] <= suppressed
    /\ IsSequence(out)
    /\ \A i \in DOMAIN out : out[i].type = "count" => out[i].count \in 0 .. suppressed

-----------------------------------------------------------------------------
\* The pods that are read are among the pods, and their logs end.
LEMMA ReadPods == ASSUME setting \in Settings
               PROVE  /\ Reading \subseteq Pods
                      /\ \A p \in Reading : Len(Log(p)) \in Nat
BY SettingsOK DEF Reading, Containers, Log

LEMMA MonitorAtFirst == StreamInit => Control /\ Counts
<1> SUFFICES ASSUME StreamInit PROVE Control /\ Counts
  OBVIOUS
<1>1. /\ setting \in Settings /\ main = "wait" /\ stopping = FALSE /\ mutex = "free"
      /\ pos = [p \in Pods |-> 0] /\ bumped = [p \in Pods |-> 0]
      /\ repeatCount = 0 /\ suppressed = 0 /\ out = <<>>
  BY DEF StreamInit
<1>2. Reading \subseteq Pods /\ \A p \in Reading : Len(Log(p)) \in Nat
  BY <1>1, ReadPods
<1>3. \A x \in Procs : at[x] \in {"open", "idle", "done"}
  BY DEF StreamInit
<1>4. at \in [Procs -> Places]
  <2>1. at \in [Procs -> {"open", "idle", "done"}]
    BY DEF StreamInit
  <2> QED
    BY <2>1 DEF Places, Idle
<1>5. \A p \in Pods : at[p] = IF p \in Reading THEN "open" ELSE "done"
  BY SettingsOK DEF StreamInit, Procs, Reading
<1>6. Control
  <2>1. \A x \in Procs : (mutex = x) <=> (at[x] \in Held)
    BY <1>1, <1>3, SettingsOK DEF Procs, Held
  <2>2. \A p \in Pods : at[p] \in Idle
    BY <1>5 DEF Idle
  <2>3. pos \in [Pods -> Nat] /\ \A p \in Reading : pos[p] <= Len(Log(p))
    BY <1>1, <1>2
  <2> QED
    BY <1>1, <1>4, <1>5, <2>1, <2>2, <2>3 DEF Control
<1>7. IsSequence(out) /\ DOMAIN out = {}
  <2>1. out \in Seq({})
    BY <1>1
  <2> QED
    BY <1>1, <2>1 DEF IsSequence
<1>8. Counts
  BY <1>1, <1>7 DEF Counts
<1> QED
  BY <1>6, <1>8

\* A goroutine goes on, with the mutex as it was, taken or given back, and with a line
\* less to read or not.
LEMMA Moves ==
  ASSUME Control, NEW x \in Procs, NEW l \in Places,
         at[x] # "done", Move(x, l),
         setting' = setting, main' = main, stopping' \in {stopping, TRUE},
         \/ mutex' = mutex /\ at[x] \notin Held /\ l \notin Held
         \/ mutex = "free" /\ mutex' = x /\ l \in Held
         \/ at[x] \in Held /\ mutex' = "free" /\ l \notin Held,
         \/ pos' = pos /\ (x \in Pods /\ l \notin Idle => pos[x] < Len(Log(x)))
         \/ /\ x \in Pods /\ pos' = [pos EXCEPT ![x] = @ + 1]
            /\ pos[x] < Len(Log(x)) /\ l = "scan"
  PROVE  Control'
<1>1. /\ Reading \subseteq Pods /\ Reading' = Reading
      /\ \A p \in Pods : Log(p)' = Log(p)
  BY ReadPods DEF Control, Reading, Log
<1>2. \A p \in Reading : Len(Log(p)) \in Nat
  BY ReadPods DEF Control
<1>3. at' = [at EXCEPT ![x] = l] /\ at' \in [Procs -> Places]
  BY DEF Move, Control
<1>4. /\ mutex' \in Procs \cup {"free"}
      /\ \A y \in Procs : (mutex' = y) <=> (at'[y] \in Held)
  BY <1>3, SettingsOK DEF Control, Procs
<1>5. \A p \in Pods : at'[p] # "done" => p \in Reading
  BY <1>3 DEF Control, Procs
<1>6. /\ pos' \in [Pods -> Nat]
      /\ \A p \in Reading : pos'[p] <= Len(Log(p))
      /\ \A p \in Pods : at'[p] \notin Idle => pos'[p] < Len(Log(p))
  <2>1. CASE pos' = pos /\ (x \in Pods /\ l \notin Idle => pos[x] < Len(Log(x)))
    BY <1>3, <2>1 DEF Control, Procs
  <2>2. CASE /\ x \in Pods /\ pos' = [pos EXCEPT ![x] = @ + 1]
             /\ pos[x] < Len(Log(x)) /\ l = "scan"
    <3>1. x \in Reading /\ Len(Log(x)) \in Nat /\ pos[x] \in Nat
      BY <1>2, <2>2 DEF Control
    <3>2. /\ pos' \in [Pods -> Nat] /\ pos'[x] = pos[x] + 1
          /\ \A p \in Pods \ {x} : pos'[p] = pos[p]
      BY <2>2 DEF Control
    <3>3. \A p \in Reading : pos'[p] <= Len(Log(p))
      BY <1>1, <2>2, <3>1, <3>2 DEF Control
    <3>4. at'[x] = "scan" /\ \A p \in Pods \ {x} : at'[p] = at[p]
      BY <1>3, <2>2 DEF Control, Procs
    <3> QED
      BY <3>2, <3>3, <3>4 DEF Control, Idle
  <2> QED
    BY <2>1, <2>2
<1> QED
  BY <1>1, <1>4, <1>5, <1>6, <1>3 DEF Control

\* Something more is written.
LEMMA Writes ==
  ASSUME Counts, NEW o, out' = Append(out, o), o.type = "count" => o.count \in 0 .. suppressed,
         UNCHANGED <<repeatCount, suppressed, bumped>>
  PROVE  Counts'
<1>1. PICK S : out \in Seq(S)
  BY DEF Counts, IsSequence
<1>2. out \in Seq(S \cup {o})
  BY <1>1, SeqMonotonic
<1>3. /\ out' \in Seq(S \cup {o}) /\ Len(out') = Len(out) + 1
      /\ \A i \in 1 .. Len(out) : out'[i] = out[i]
      /\ out'[Len(out) + 1] = o
  BY <1>2, AppendProperties
<1>4. DOMAIN out = 1 .. Len(out) /\ DOMAIN out' = 1 .. (Len(out) + 1) /\ Len(out) \in Nat
  BY <1>1, <1>3
<1>5. \A i \in DOMAIN out' : out'[i].type = "count" => out'[i].count \in 0 .. suppressed
  BY <1>3, <1>4 DEF Counts
<1>6. IsSequence(out')
  BY <1>3 DEF IsSequence
<1> QED
  BY <1>5, <1>6 DEF Counts

-----------------------------------------------------------------------------
\* A pod's goroutine up to the comparison with the last entry, and its end.
LEMMA Scans ==
  ASSUME Control, Counts, NEW p \in Pods,
         \/ Open(p) \/ Pass(p) \/ CompareHeader(p)
         \/ CompareBody(p) \/ EndOfLog(p) \/ Break(p)
  PROVE  Control' /\ Counts'
<1> USE DEF At
<1>1. p \in Procs
  BY DEF Procs
<1>2. CASE Pass(p)
  <2>1. at[p] = "scan" /\ pos[p] < Len(Log(p)) /\ pos' = [pos EXCEPT ![p] = @ + 1] /\ at' = at
        /\ UNCHANGED <<setting, main, stopping, mutex, repeatCount, suppressed, bumped>>
    BY <1>2 DEF Pass
  <2>2. Move(p, "scan")
    BY <1>1, <2>1 DEF Move, Control
  <2>3. Control'
    BY <1>1, <2>1, <2>2, Moves DEF Held, Idle, Places
  <2>4. CASE out' = out
    BY <2>1, <2>3, <2>4 DEF Counts
  <2>5. CASE out' = Append(out, [type |-> "raw", pod |-> p, line |-> Line(p)])
    BY <2>1, <2>3, <2>5, Writes
  <2> QED
    BY <1>2, <2>3, <2>4, <2>5 DEF Pass
<1>3. CASE \/ Open(p) \/ CompareHeader(p) \/ CompareBody(p)
           \/ EndOfLog(p) \/ Break(p)
  <2>1. /\ at[p] \in {"open", "scan", "body", "write"}
        /\ UNCHANGED <<setting, main, stopping, mutex, pos, out, repeatCount, suppressed, bumped>>
    BY <1>3 DEF Open, CompareHeader, CompareBody, EndOfLog,
                Break
  <2>2. PICK l \in {"scan", "done", "body", "differs", "repeats"} :
          Move(p, l) /\ (l \notin Idle => pos[p] < Len(Log(p)))
    <3>1. CASE Open(p) \/ EndOfLog(p) \/ Break(p)
      BY <3>1 DEF Open, EndOfLog, Break, Idle
    <3>2. CASE CompareHeader(p)
      BY <3>2 DEF CompareHeader
    <3>3. CASE CompareBody(p)
      BY <3>3 DEF CompareBody, Control, Idle
    <3> QED
      BY <1>3, <3>1, <3>2, <3>3
  <2>3. Control'
    BY <1>1, <2>1, <2>2, Moves DEF Held, Idle, Places
  <2> QED
    BY <2>1, <2>3 DEF Counts
<1> QED
  BY <1>2, <1>3

\* An event is taken for a repeat: what will be stored is read, then stored.
LEMMA Bumps ==
  ASSUME Control, Counts, NEW p \in Pods,
         ReadCount(p) \/ WriteCount(p)
  PROVE  Control' /\ Counts'
<1> USE DEF At
<1>1. p \in Procs
  BY DEF Procs
<1>2. CASE ReadCount(p)
  <2>1. /\ at[p] = "repeats" /\ Move(p, "bump")
        /\ bumped' = [bumped EXCEPT ![p] = repeatCount + 1] /\ suppressed' = suppressed + 1
        /\ UNCHANGED <<setting, main, stopping, mutex, pos, out, repeatCount>>
    BY <1>2 DEF ReadCount
  <2>2. pos[p] < Len(Log(p))
    BY <2>1 DEF Control, Idle
  <2>3. Control'
    BY <1>1, <2>1, <2>2, Moves DEF Held, Idle, Places
  <2> QED
    BY <2>1, <2>3 DEF Counts
<1>3. CASE WriteCount(p)
  <2>1. /\ at[p] = "bump" /\ Move(p, "scan") /\ pos' = [pos EXCEPT ![p] = @ + 1]
        /\ repeatCount' = bumped[p] /\ bumped' = [bumped EXCEPT ![p] = 0]
        /\ UNCHANGED <<setting, main, stopping, mutex, out, suppressed>>
    BY <1>3 DEF WriteCount
  <2>2. pos[p] < Len(Log(p))
    BY <2>1 DEF Control, Idle
  <2>3. Control'
    BY <1>1, <2>1, <2>2, Moves DEF Held, Idle, Places
  <2> QED
    BY <2>1, <2>3 DEF Counts
<1> QED
  BY <1>2, <1>3

\* A pod's goroutine or the flusher reports pending repeats and clears the last entry.
LEMMA Flushes ==
  ASSUME Control, Counts, NEW x \in Procs,
         \/ TestCount(x) \/ Report(x)
         \/ Reset(x) \/ Clear(x)
  PROVE  Control' /\ Counts'
<1> USE DEF At
<1>1. at[x] \in {"differs", "report", "reset", "clear", "clearing"}
      /\ UNCHANGED <<setting, main, stopping, pos, suppressed, bumped>>
  BY DEF TestCount, Report, Reset, Clear, SetHeader,
         SetBody
<1>2. x \in Pods => pos[x] < Len(Log(x))
  BY <1>1 DEF Control, Idle
<1>3. After(x) \in {"replace", "done", "idle"}
  BY DEF After
<1>4. CASE TestCount(x)
  <2>1. PICK l \in {"report", After(x)} : Move(x, l)
    BY <1>4 DEF TestCount
  <2>2. UNCHANGED <<mutex, out, repeatCount>> /\ at[x] = "differs"
    BY <1>4 DEF TestCount
  <2>3. Control'
    BY <1>1, <1>2, <1>3, <2>1, <2>2, Moves DEF Held, Idle, Places
  <2> QED
    BY <1>1, <2>2, <2>3 DEF Counts
<1>5. CASE Report(x)
  <2>1. /\ at[x] = "report" /\ Move(x, "reset") /\ UNCHANGED <<mutex, repeatCount>>
        /\ out' = Append(out, [type |-> "count", count |-> repeatCount])
    BY <1>5 DEF Report, Printed
  <2>2. Control'
    BY <1>1, <1>2, <2>1, Moves DEF Held, Idle, Places
  <2> QED
    BY <1>1, <2>1, <2>2, Writes DEF Counts
<1>6. CASE Reset(x)
  <2>1. at[x] = "reset" /\ Move(x, "clear") /\ repeatCount' = 0 /\ UNCHANGED <<mutex, out>>
    BY <1>6 DEF Reset, AfterReset
  <2>2. Control'
    BY <1>1, <1>2, <2>1, Moves DEF Held, Idle, Places
  <2> QED
    BY <1>1, <2>1, <2>2 DEF Counts
<1>7. CASE Clear(x)
  <2>1. UNCHANGED <<out, repeatCount>>
    BY <1>7 DEF Clear, SetHeader, SetBody
  <2>2. \/ at[x] = "clear" /\ mutex = "free" /\ mutex' = x /\ Move(x, "clearing")
        \/ at[x] = "clearing" /\ mutex' = "free" /\ Move(x, After(x))
    BY <1>7 DEF Clear, SetHeader, SetBody
  <2>3. Control'
    BY <1>1, <1>2, <1>3, <2>2, Moves DEF Held, Idle, Places
  <2> QED
    BY <1>1, <2>1, <2>3 DEF Counts
<1> QED
  BY <1>4, <1>5, <1>6, <1>7

\* A pod's goroutine names its entry as the last one and writes it.
LEMMA WritesEntry ==
  ASSUME Control, Counts, NEW p \in Pods,
         Replace(p) \/ WriteEntry(p)
  PROVE  Control' /\ Counts'
<1> USE DEF At
<1>1. p \in Procs
  BY DEF Procs
<1>2. /\ at[p] \in {"replace", "replacing", "write"} /\ pos[p] < Len(Log(p))
      /\ UNCHANGED <<setting, main, stopping, suppressed, bumped, repeatCount>>
  BY DEF Replace, SetHeader, SetBody, WriteEntry, Control, Idle
<1>3. CASE Replace(p)
  <2>1. /\ UNCHANGED <<out, pos>>
        /\ \/ at[p] = "replace" /\ mutex = "free" /\ mutex' = p /\ Move(p, "replacing")
           \/ at[p] = "replacing" /\ mutex' = "free" /\ Move(p, "write")
    BY <1>3 DEF Replace, SetHeader, SetBody
  <2>2. Control'
    BY <1>1, <1>2, <2>1, Moves DEF Held, Idle, Places
  <2> QED
    BY <1>2, <2>1, <2>2 DEF Counts
<1>4. CASE WriteEntry(p)
  <2> DEFINE o == [type |-> "entry", pod |-> p, line |-> pos[p] + 1,
                   header |-> MyHeader(p), body |-> body[p]]
  <2>1. /\ at[p] = "write" /\ Move(p, "scan") /\ pos' = [pos EXCEPT ![p] = @ + 1]
        /\ mutex' = mutex /\ out' = Append(out, o)
    BY <1>4 DEF WriteEntry
  <2>2. Control'
    BY <1>1, <1>2, <2>1, Moves DEF Held, Idle, Places
  <2>3. o.type # "count"
    OBVIOUS
  <2> QED
    BY <1>2, <2>1, <2>2, <2>3, Writes
<1> QED
  BY <1>3, <1>4

\* The flusher wakes up, Start returns, the process ends.
LEMMA MonitorEnds ==
  ASSUME Control, Counts,
         \/ Tick \/ StopFlushing \/ Return \/ Exit
         \/ UNCHANGED streamVars
  PROVE  Control' /\ Counts'
<1> USE DEF At
<1>1. UNCHANGED <<setting, pos, mutex, out, repeatCount, suppressed, bumped>>
  BY DEF Tick, StopFlushing, Return, Exit, streamVars
<1>2. Counts'
  BY <1>1 DEF Counts
<1>3. CASE Tick \/ StopFlushing
  <2>1. /\ at[Flusher] = "idle" /\ Move(Flusher, "differs")
        /\ main' = main /\ stopping' \in {stopping, TRUE}
    BY <1>3 DEF Tick, StopFlushing
  <2> QED
    BY <1>1, <1>2, <2>1, Moves, SettingsOK DEF Procs, Held, Idle, Places
<1>4. CASE Return \/ Exit \/ UNCHANGED streamVars
  <2>1. main' \in {"wait", "returned", "exited"} /\ UNCHANGED <<at, stopping>>
    BY <1>4 DEF Return, Exit, streamVars, Control
  <2>2. Reading' = Reading /\ \A p : Log(p)' = Log(p)
    BY <1>1 DEF Reading, Log
  <2> QED
    BY <1>1, <1>2, <2>1, <2>2 DEF Control
<1> QED
  BY <1>3, <1>4

LEMMA MonitorSteps ==
  ASSUME Control, Counts, [StreamNext]_streamVars
  PROVE  Control' /\ Counts'
<1>1. ASSUME NEW p \in Pods, Pod(p) \/ EndOfLog(p) \/ Break(p)
      PROVE  Control' /\ Counts'
  <2>1. p \in Procs
    BY DEF Procs
  <2> QED
    BY <1>1, <2>1, Scans, Bumps, Flushes, WritesEntry DEF Pod
<1>2. CASE Flush
  <2>1. Flusher \in Procs
    BY DEF Procs
  <2> QED
    BY <1>2, <2>1, Flushes, MonitorEnds DEF Flush
<1>3. CASE Return \/ Exit \/ UNCHANGED streamVars
  BY <1>3, MonitorEnds
<1> QED
  BY <1>1, <1>2, <1>3 DEF StreamNext, StreamOver

\* No count, stored, about to be stored or printed, is larger than the number of events
\* taken for repeats so far, though LogStream and LogFlush read the counter without the
\* mutex and may lose or double repeats.
THEOREM CountsStayReal == StreamSpec => []CountsAreReal
<1>1. Control /\ Counts => CountsAreReal
  <2> SUFFICES ASSUME Control, Counts PROVE CountsAreReal
    OBVIOUS
  <2>1. Reading \subseteq Pods /\ \A p \in Reading : Len(Log(p)) \in Nat
    BY ReadPods DEF Control
  <2>2. Types
    BY <2>1 DEF Control, Counts, Types, Held
  <2> QED
    BY <2>2 DEF Counts, CountsAreReal
<1> QED
  BY <1>1, MonitorAtFirst, MonitorSteps, PTL DEF StreamSpec

-----------------------------------------------------------------------------

\* The last line told.
IsLast(p, q) == q \in Told(p) /\ \A k \in Told(p) : k <= q

\* The last entry names line n, or has been cleared, or is being cleared.
Names(p, n) ==
  /\ lastHeader = <<>> \/ (lastHeader = Event(p, n)[1] /\ lastBody[1] = Event(p, n)[2])
  /\ lastBody = NoBody \/ lastBody[1] = Event(p, n)[2]

\* The line a goroutine has in hand, and whose turn it is.
InHand(p) ==
  /\ at[Flusher] \in {"idle", "differs", "report", "reset", "clear", "clearing", "done"}
  /\ ~setting.follow => at[Flusher] = "done"
  /\ p \in DOMAIN body
  /\ at[p] \notin Idle => Shown(setting, Line(p)) /\ body[p][1] = Event(p, pos[p] + 1)[2]
  /\ \A x \in {p, Flusher} : at[x] = "clearing" => lastHeader = <<>>

\* What the shared last entry says.
Compared(p) ==
  /\ at[p] \notin {"repeats", "bump", "replacing", "write", "done"} =>
        \/ lastHeader = <<>> /\ lastBody = NoBody
        \/ \E q \in Told(p) : IsLast(p, q) /\ Names(p, q)
  /\ at[p] \in {"repeats", "bump", "write"} => Names(p, pos[p] + 1)
  /\ at[p] = "replacing" => lastHeader = Event(p, pos[p] + 1)[1]
  /\ at[p] = "body" => /\ \E q \in Told(p) : IsLast(p, q) /\ Event(p, pos[p] + 1)[1] = Event(p, q)[1]
                       /\ ~setting.follow => lastHeader = Event(p, pos[p] + 1)[1]
  /\ at[p] \in {"repeats", "bump"} => \E q \in Told(p) : IsLast(p, q) /\ Alike(p, q, pos[p] + 1)

\* What has been written.
InOrderOfLog(p) ==
  \A i \in Entries : /\ out[i].line \in Told(p)
                     /\ <<out[i].header, out[i].body[1]>> = Event(p, out[i].line)
                     /\ \A j \in Entries : i < j => out[i].line < out[j].line
AllTold(p) ==
  \A n \in Told(p) : \/ \E i \in Entries : out[i].line = n
                     \/ \E m \in Told(p) : Repeats(p, m, n)

\* What has been counted: from the report on it is in the output.
Reporting == {"reset", "clear", "clearing", "replace", "replacing", "write"}
Due(p, i) == IF at[p] \notin Reporting /\ i = Len(out) THEN repeatCount ELSE 0
Exact(p) ==
  /\ \A i \in Counted : i - 1 \in Entries
  /\ \A i \in Entries : Cardinality(LeftOut(p, i)) = Reported(i) + Due(p, i)
  /\ out = <<>> => Told(p) = {} /\ repeatCount = 0
  /\ at[p] \notin Reporting => out = <<>> \/ Len(out) \in Entries
  /\ at[p] \in Reporting \ {"reset"} => repeatCount = 0
  /\ at[p] = "report" => repeatCount > 0
  /\ at[p] = "bump" => bumped[p] = repeatCount + 1

Tale(p) ==
  /\ InHand(p) /\ Compared(p) /\ InOrderOfLog(p) /\ AllTold(p)
  /\ ~setting.follow /\ at[p] # "done" => Exact(p)

Tales == \A p \in Pods : Reading = {p} /\ ~setting.json => Tale(p)

-----------------------------------------------------------------------------
\* As long as no more is read a pod's lines are the same.
LEMMA SameLines ==
  ASSUME NEW p \in Pods, setting' = setting, pos'[p] = pos[p]
  PROVE  /\ Told(p)' = Told(p) /\ Log(p)' = Log(p) /\ Line(p)' = Line(p)
         /\ Event(p, pos[p] + 1)' = Event(p, pos[p] + 1)
         /\ \A n : Event(p, n)' = Event(p, n)
BY DEF Told, Log, Line, Event

\* One line more has been read.
LEMMA MoreLines ==
  ASSUME Control, NEW p \in Pods, setting' = setting, pos' = [pos EXCEPT ![p] = @ + 1]
  PROVE  /\ pos'[p] = pos[p] + 1 /\ pos[p] \in Nat /\ \A n : Event(p, n)' = Event(p, n)
         /\ \A n : n \in Told(p)' <=> n \in Told(p) \/ (n = pos[p] + 1 /\ Shown(setting, Line(p)))
         /\ \A n \in Told(p) : n \in 1 .. pos[p]
<1>1. pos'[p] = pos[p] + 1 /\ pos[p] \in Nat
  BY DEF Control
<1>2. \A n : n \in 1 .. pos[p] + 1 <=> n \in 1 .. pos[p] \/ n = pos[p] + 1
  BY <1>1
<1> QED
  BY <1>1, <1>2 DEF Told, Log, Line, Event

\* What is written stays told when what is appended is no entry and nothing more is told.
LEMMA StillTold ==
  ASSUME Counts, NEW p \in Pods, InOrderOfLog(p), AllTold(p),
         setting' = setting, Told(p)' = Told(p), \A n : Event(p, n)' = Event(p, n),
         \/ out' = out
         \/ \E o : o.type # "entry" /\ out' = Append(out, o)
  PROVE  InOrderOfLog(p)' /\ AllTold(p)' /\ Entries' = Entries /\ \A i \in Entries : out'[i] = out[i]
<1>1. Entries' = Entries /\ \A i \in Entries : out'[i] = out[i]
  <2>1. CASE out' = out
    BY <2>1 DEF Entries
  <2>2. ASSUME NEW o, o.type # "entry", out' = Append(out, o) PROVE Entries' = Entries /\ \A i \in Entries : out'[i] = out[i]
    <3>1. PICK S : out \in Seq(S)
      BY DEF Counts, IsSequence
    <3>2. out \in Seq(S \cup {o})
      BY <3>1, SeqMonotonic
    <3>3. /\ out' \in Seq(S \cup {o}) /\ Len(out') = Len(out) + 1
          /\ \A i \in 1 .. Len(out) : out'[i] = out[i]
          /\ out'[Len(out) + 1] = o
      BY <2>2, <3>2, AppendProperties
    <3>4. DOMAIN out = 1 .. Len(out) /\ DOMAIN out' = 1 .. (Len(out) + 1) /\ Len(out) \in Nat
      BY <3>1, <3>3
    <3>5. \A i : i \in DOMAIN out' <=> i \in DOMAIN out \/ i = Len(out) + 1
      BY <3>4
    <3>6. \A i \in DOMAIN out : out'[i] = out[i]
      BY <3>3, <3>4
    <3>7. \A i : i \in Entries' <=> i \in Entries
      BY <2>2, <3>3, <3>5, <3>6 DEF Entries
    <3> QED
      BY <3>6, <3>7 DEF Entries
  <2> QED
    BY <2>1, <2>2
<1>2. InOrderOfLog(p)'
  BY <1>1 DEF InOrderOfLog
<1>3. \A m, n : Repeats(p, m, n)' <=> Repeats(p, m, n)
  BY DEF Repeats, Alike
<1>4. AllTold(p)'
  BY <1>1, <1>3 DEF AllTold
<1> QED
  BY <1>1, <1>2, <1>4

LEMMA SameCounts ==
  ASSUME NEW p \in Pods, Told(p)' = Told(p), out' = out
  PROVE  /\ Entries' = Entries /\ Counted' = Counted
         /\ \A i : LeftOut(p, i)' = LeftOut(p, i) /\ Reported(i)' = Reported(i)
BY DEF Entries, Counted, LeftOut, Reported

\* The counts stay exact when nothing is read, written or counted and the report is not
\* passed.
LEMMA StaysExact ==
  ASSUME NEW p \in Pods, Exact(p), setting' = setting, Told(p)' = Told(p), out' = out, repeatCount' = repeatCount,
         (at[p] \in Reporting) <=> (at'[p] \in Reporting),
         at'[p] \in Reporting \ {"reset"} => at[p] # "reset" \/ repeatCount = 0,
         at'[p] = "report" => repeatCount > 0,
         at'[p] = "bump" => bumped'[p] = repeatCount + 1
  PROVE  Exact(p)'
<1>1. /\ Entries' = Entries /\ Counted' = Counted
      /\ \A i : LeftOut(p, i)' = LeftOut(p, i) /\ Reported(i)' = Reported(i)
  BY SameCounts
<1>2. \A i : Due(p, i)' = Due(p, i)
  BY DEF Due
<1>3. at'[p] \in Reporting \ {"reset"} => repeatCount' = 0
  BY DEF Exact
<1> QED
  BY <1>1, <1>2, <1>3 DEF Exact

\* The flusher prints pending repeats and clears the last entry.
LEMMA FlusherTells ==
  ASSUME Control, Counts, NEW p \in Pods, ~setting.json, Tale(p), Flush
  PROVE  Tale(p)'
<1> USE DEF At
<1>1. p \in Procs /\ Flusher \in Procs /\ p # Flusher
  BY SettingsOK DEF Procs
<1>2. /\ setting' = setting /\ pos' = pos /\ UNCHANGED body
      /\ at[Flusher] # "done" /\ mutex' \in {mutex, Flusher, "free"}
      /\ \E l : Move(Flusher, l)
  BY DEF Flush, Tick, StopFlushing, TestCount, Report, Reset, Clear, SetHeader, SetBody
<1>3. setting.follow /\ setting'.follow
  BY <1>2 DEF Tale, InHand
<1>4. at'[p] = at[p] /\ at' = [at EXCEPT ![Flusher] = at'[Flusher]]
  BY <1>1, <1>2 DEF Move, Control
<1>5. /\ Told(p)' = Told(p) /\ Log(p)' = Log(p) /\ Line(p)' = Line(p)
      /\ Event(p, pos[p] + 1)' = Event(p, pos[p] + 1)
      /\ \A n : Event(p, n)' = Event(p, n)
  BY <1>2, SameLines
<1>6. out' = out \/ \E o : o.type # "entry" /\ out' = Append(out, o)
  <2>1. \A n : [type |-> "count", count |-> n].type # "entry"
    OBVIOUS
  <2> QED
    BY <2>1 DEF Flush, Tick, StopFlushing, TestCount, Report, Reset, Clear, SetHeader, SetBody
<1>7. InOrderOfLog(p)' /\ AllTold(p)'
  BY <1>2, <1>5, <1>6, StillTold DEF Tale
<1>8. /\ at'[Flusher] \in {"idle", "differs", "report", "reset", "clear", "clearing", "done"}
      /\ \/ UNCHANGED <<lastHeader, lastBody>> /\ at'[Flusher] # "clearing"
         \/ lastHeader' = <<>> /\ lastBody' = lastBody /\ mutex = "free"
         \/ lastHeader' = lastHeader /\ lastBody' = NoBody /\ at[Flusher] = "clearing" /\ at'[Flusher] # "clearing"
  <2>1. After(Flusher) \in {"done", "idle"}
    BY SettingsOK DEF After
  <2> QED
    BY <1>1, <2>1 DEF Flush, Tick, StopFlushing, TestCount, Report, Reset, Clear, SetHeader, SetBody, Move, Control
<1>9. at[Flusher] = "clearing" => lastHeader = <<>> /\ at[p] \notin {"clearing", "replacing"}
  <2>1. at[Flusher] = "clearing" => mutex = Flusher
    BY <1>1 DEF Control, Held
  <2> QED
    BY <1>1, <2>1 DEF Tale, InHand, Control, Held
<1>10. mutex = "free" => at[p] \notin {"clearing", "replacing"}
  BY <1>1, SettingsOK DEF Control, Held, Procs
<1>11. InHand(p)'
  BY <1>2, <1>3, <1>4, <1>5, <1>8, <1>9 DEF Tale, InHand, Event
<1>12. Compared(p)'
  <2>1. ASSUME NEW n, Names(p, n) PROVE Names(p, n)'
    BY <1>5, <1>8, <1>9, <2>1 DEF Names
  <2>2. lastHeader = <<>> /\ lastBody = NoBody => lastHeader' = <<>> /\ lastBody' = NoBody
    BY <1>8
  <2>3. at[p] = "replacing" => lastHeader' = lastHeader
    BY <1>8, <1>9, <1>10
  <2>4. \A q : IsLast(p, q)' <=> IsLast(p, q)
    BY <1>5 DEF IsLast
  <2>5. \A m, n : Alike(p, m, n)' <=> Alike(p, m, n)
    BY <1>2, <1>5 DEF Alike
  <2> QED
    BY <1>2, <1>3, <1>4, <1>5, <2>1, <2>2, <2>3, <2>4, <2>5 DEF Tale, Compared
<1> QED
  BY <1>3, <1>7, <1>11, <1>12 DEF Tale

-----------------------------------------------------------------------------
\* A pod's goroutine goes on within a line, and writes nothing.
LEMMA WithinLine ==
  ASSUME Control, Counts, NEW p \in Pods, Tale(p), NEW l, Move(p, l),
         setting' = setting, pos' = pos,
         \/ out' = out
         \/ \E o : o.type # "entry" /\ out' = Append(out, o)
  PROVE  /\ at'[p] = l /\ at'[Flusher] = at[Flusher]
         /\ Told(p)' = Told(p) /\ Line(p)' = Line(p)
         /\ Event(p, pos[p] + 1)' = Event(p, pos[p] + 1)
         /\ \A n : Event(p, n)' = Event(p, n)
         /\ \A q : IsLast(p, q)' <=> IsLast(p, q)
         /\ \A m, n : Alike(p, m, n)' <=> Alike(p, m, n)
         /\ InOrderOfLog(p)' /\ AllTold(p)'
<1>1. p \in Procs /\ Flusher \in Procs /\ p # Flusher
  BY SettingsOK DEF Procs
<1>2. at'[p] = l /\ at'[Flusher] = at[Flusher]
  BY <1>1 DEF Move, Control
<1>3. /\ Told(p)' = Told(p) /\ Line(p)' = Line(p)
      /\ Event(p, pos[p] + 1)' = Event(p, pos[p] + 1)
      /\ \A n : Event(p, n)' = Event(p, n)
  BY SameLines
<1>4. InOrderOfLog(p)' /\ AllTold(p)'
  BY <1>3, StillTold DEF Tale
<1>5. \A q : IsLast(p, q)' <=> IsLast(p, q)
  BY <1>3 DEF IsLast
<1>6. \A m, n : Alike(p, m, n)' <=> Alike(p, m, n)
  BY <1>3 DEF Alike
<1> QED
  BY <1>2, <1>3, <1>4, <1>5, <1>6

\* The last line told is one line.
LEMMA OneIsLast ==
  ASSUME Control, NEW p \in Pods, NEW q, NEW k, IsLast(p, q), IsLast(p, k)
  PROVE  q = k
BY DEF IsLast, Told, Control

LEMMA PairsFirst == \A a, b : <<a, b>>[1] = a
OBVIOUS

\* A header names something.
LEMMA SomeHeader == \A p, n : Event(p, n)[1] # <<>>
<1> SUFFICES ASSUME NEW p, NEW n PROVE Event(p, n)[1] # <<>>
  OBVIOUS
<1>1. \A a, b, c : <<a, b, c>> # <<>>
  OBVIOUS
<1> QED
  BY <1>1 DEF Event, Header

\* A pod's log is opened, or is at its end, or breaks off.
LEMMA OpensTells ==
  ASSUME Control, Counts, NEW p \in Pods, ~setting.json, Tale(p),
         Open(p) \/ EndOfLog(p) \/ Break(p)
  PROVE  Tale(p)'
<1> USE DEF At
<1>1. /\ UNCHANGED <<setting, pos, lastHeader, lastBody, repeatCount, body, bumped, mutex, out>>
      /\ at[p] \in {"open", "scan", "write"}
  BY DEF Open, EndOfLog, Break
<1>2. PICK l \in {"scan", "done"} : Move(p, l) /\ (l = "scan" => at[p] = "open")
  BY DEF Open, EndOfLog, Break
<1>3. /\ at'[p] = l /\ at'[Flusher] = at[Flusher]
      /\ Told(p)' = Told(p)
      /\ \A n : Event(p, n)' = Event(p, n)
      /\ \A q : IsLast(p, q)' <=> IsLast(p, q)
      /\ InOrderOfLog(p)' /\ AllTold(p)'
  BY <1>1, <1>2, WithinLine
<1>4. InHand(p)'
  BY <1>1, <1>2, <1>3 DEF Tale, InHand, Idle
<1>5. Compared(p)'
  BY <1>1, <1>2, <1>3 DEF Tale, Compared, Names
<1>6. ~setting.follow /\ at'[p] # "done" => Exact(p)'
  BY <1>1, <1>2, <1>3, StaysExact DEF Tale, Reporting
<1> QED
  BY <1>1, <1>3, <1>4, <1>5, <1>6 DEF Tale

\* An event is compared with the last entry.
LEMMA ComparesTells ==
  ASSUME Control, Counts, NEW p \in Pods, ~setting.json, Tale(p),
         CompareHeader(p) \/ CompareBody(p)
  PROVE  Tale(p)'
<1> USE DEF At
<1>1. UNCHANGED <<setting, pos, lastHeader, lastBody, repeatCount, bumped, mutex, out>>
  BY DEF CompareHeader, CompareBody
<1>2. CASE CompareHeader(p)
  <2>1. at[p] = "scan" /\ Shown(setting, Line(p))
    BY <1>2 DEF CompareHeader
  <2>2. PICK l \in {"body", "differs"} : Move(p, l) /\ (l = "body" <=> lastHeader = MyHeader(p))
    BY <1>2 DEF CompareHeader
  <2>3. /\ at'[p] = l /\ at'[Flusher] = at[Flusher]
        /\ Told(p)' = Told(p) /\ Line(p)' = Line(p)
        /\ Event(p, pos[p] + 1)' = Event(p, pos[p] + 1)
        /\ \A n : Event(p, n)' = Event(p, n)
        /\ \A q : IsLast(p, q)' <=> IsLast(p, q)
        /\ InOrderOfLog(p)' /\ AllTold(p)'
    BY <1>1, <2>2, WithinLine
  <2>4. body'[p][1] = Event(p, pos[p] + 1)[2]
    <3>1. PICK b \in Bodies(setting.kind, Line(p)) : body' = [body EXCEPT ![p] = b]
      BY <1>2 DEF CompareHeader
    <3>2. b[1] = Text(setting.kind, Line(p))
      <4> DEFINE c == Category(setting.kind, Line(p))
      <4>1. CASE c = "MUTATED" /\ Line(p).text = "mixed"
        <5>1. Text(setting.kind, Line(p)) = Line(p).text
          BY <4>1 DEF Text
        <5>2. b \in {<<Line(p).text, "add first">>, <<Line(p).text, "remove first">>}
          BY <3>1, <4>1 DEF Bodies
        <5> QED
          BY <5>1, <5>2, PairsFirst
      <4>2. CASE ~(c = "MUTATED" /\ Line(p).text = "mixed")
        BY <3>1, <4>2, PairsFirst DEF Bodies
      <4> QED
        BY <4>1, <4>2
    <3>3. body'[p] = b /\ Event(p, pos[p] + 1)[2] = Text(setting.kind, Line(p))
      BY <3>1 DEF Event, Line, Tale, InHand
    <3> QED
      BY <3>2, <3>3
  <2>5. InHand(p)'
    <3>1. DOMAIN body' = DOMAIN body
      BY <1>2 DEF CompareHeader
    <3> QED
      BY <1>1, <2>1, <2>3, <2>4, <3>1 DEF Tale, InHand, Idle
  <2>6. MyHeader(p) = Event(p, pos[p] + 1)[1]
    BY DEF MyHeader, Event, Line
  <2>7. \A n : Names(p, n)' <=> Names(p, n)
    BY <1>1, <2>3 DEF Names
  <2>8. l = "body" => \E q \in Told(p) : IsLast(p, q) /\ Event(p, pos[p] + 1)[1] = Event(p, q)[1]
    BY <2>1, <2>2, <2>6, SomeHeader DEF Tale, Compared, Names
  <2>9. Compared(p)'
    BY <1>1, <2>1, <2>2, <2>3, <2>6, <2>7, <2>8 DEF Tale, Compared
  <2>10. ~setting.follow => Exact(p)'
    BY <1>1, <2>1, <2>3, StaysExact DEF Tale, Reporting
  <2> QED
    BY <1>1, <2>3, <2>5, <2>9, <2>10 DEF Tale
<1>3. CASE CompareBody(p)
  <2>1. at[p] = "body" /\ body' = body
    BY <1>3 DEF CompareBody
  <2>2. PICK l \in {"repeats", "differs"} : Move(p, l) /\ (l = "repeats" <=> lastBody = body[p])
    BY <1>3 DEF CompareBody, SameBody
  <2>3. /\ at'[p] = l /\ at'[Flusher] = at[Flusher]
        /\ Told(p)' = Told(p) /\ Line(p)' = Line(p)
        /\ Event(p, pos[p] + 1)' = Event(p, pos[p] + 1)
        /\ \A n : Event(p, n)' = Event(p, n)
        /\ \A q : IsLast(p, q)' <=> IsLast(p, q)
        /\ \A m, n : Alike(p, m, n)' <=> Alike(p, m, n)
        /\ InOrderOfLog(p)' /\ AllTold(p)'
    BY <1>1, <2>2, WithinLine
  <2>5. InHand(p)'
    BY <1>1, <2>1, <2>3 DEF Tale, InHand, Idle
  <2>6. PICK q \in Told(p) : IsLast(p, q) /\ Event(p, pos[p] + 1)[1] = Event(p, q)[1]
    BY <2>1 DEF Tale, Compared
  <2>7. \A n : Names(p, n)' <=> Names(p, n)
    BY <1>1, <2>3 DEF Names
  <2>8. \/ lastHeader = <<>> /\ lastBody = NoBody
        \/ Names(p, q)
    BY <2>1, <2>6, OneIsLast DEF Tale, Compared
  <2>9. body[p][1] = Event(p, pos[p] + 1)[2]
    BY <2>1 DEF Tale, InHand, Idle
  <2>10. l = "repeats" => Names(p, pos[p] + 1)
    BY <2>2, <2>6, <2>8, <2>9 DEF Names
  <2>11. l = "repeats" => Alike(p, q, pos[p] + 1)
    <3> SUFFICES ASSUME l = "repeats" PROVE Alike(p, q, pos[p] + 1)
      OBVIOUS
    <3>1. Event(p, q)[2] = Event(p, pos[p] + 1)[2] => Event(p, pos[p] + 1) = Event(p, q)
      BY <2>6 DEF Event
    <3>2. CASE lastBody = NoBody /\ setting.follow
      <4>1. body[p] = <<"", "">>
        BY <2>2, <3>2 DEF NoBody
      <4>2. Event(p, pos[p] + 1)[2] = ""
        BY <2>9, <4>1, PairsFirst
      <4> QED
        BY <2>6, <3>2, <4>2 DEF Alike
    <3>3. CASE lastBody # NoBody
      BY <2>2, <2>8, <2>9, <3>1, <3>3 DEF Names, Alike
    <3>4. CASE ~setting.follow
      <4>1. lastHeader # <<>>
        BY <2>1, <3>4, SomeHeader DEF Tale, Compared
      <4> QED
        BY <4>1, <2>2, <2>8, <2>9, <3>1 DEF Names, Alike
    <3> QED
      BY <3>2, <3>3, <3>4
  <2>12. Compared(p)'
    BY <1>1, <2>1, <2>2, <2>3, <2>6, <2>7, <2>8, <2>10, <2>11 DEF Tale, Compared
  <2>13. ~setting.follow => Exact(p)'
    BY <1>1, <2>1, <2>3, StaysExact DEF Tale, Reporting
  <2> QED
    BY <1>1, <2>3, <2>5, <2>12, <2>13 DEF Tale
<1> QED
  BY <1>2, <1>3

\* The counter is read, tested and reset.
LEMMA CountersTell ==
  ASSUME Control, Counts, NEW p \in Pods, ~setting.json, Tale(p),
         ReadCount(p) \/ TestCount(p) \/ Reset(p)
  PROVE  Tale(p)'
<1> USE DEF At
<1>1. /\ UNCHANGED <<setting, pos, lastHeader, lastBody, body, mutex, out>>
      /\ at[p] \in {"repeats", "differs", "reset"}
  BY DEF ReadCount, TestCount, Reset
<1>2. PICK l \in {"bump", "report", "clear", "replace"} :
         /\ Move(p, l)
         /\ l = "bump" <=> at[p] = "repeats"
         /\ l = "clear" <=> at[p] = "reset"
         /\ l = "report" => repeatCount > 0
         /\ l = "replace" => ~(repeatCount > 0)
  BY DEF ReadCount, TestCount, Reset, After, Pending
<1>3. /\ at'[p] = l /\ at'[Flusher] = at[Flusher]
      /\ Told(p)' = Told(p) /\ Line(p)' = Line(p)
      /\ Event(p, pos[p] + 1)' = Event(p, pos[p] + 1)
      /\ \A n : Event(p, n)' = Event(p, n)
      /\ \A q : IsLast(p, q)' <=> IsLast(p, q)
      /\ \A m, n : Alike(p, m, n)' <=> Alike(p, m, n)
      /\ InOrderOfLog(p)' /\ AllTold(p)'
  BY <1>1, <1>2, WithinLine
<1>4. InHand(p)'
  BY <1>1, <1>2, <1>3 DEF Tale, InHand, Idle
<1>5. \A n : Names(p, n)' <=> Names(p, n)
  BY <1>1, <1>3 DEF Names
<1>6. Compared(p)'
  BY <1>1, <1>2, <1>3, <1>5 DEF Tale, Compared
<1>7. ~setting.follow => Exact(p)'
  <2> SUFFICES ASSUME ~setting.follow PROVE Exact(p)'
    OBVIOUS
  <2>1. Exact(p) /\ repeatCount \in Nat
    BY <1>1 DEF Tale, Counts
  <2>2. CASE at[p] = "repeats"
    <3>1. repeatCount' = repeatCount /\ bumped'[p] = repeatCount + 1
      BY <1>1, <2>2 DEF ReadCount, TestCount, Reset, Counts
    <3> QED
      BY <1>1, <1>2, <1>3, <2>1, <2>2, <3>1, StaysExact DEF Reporting
  <2>3. CASE at[p] = "differs" /\ l = "report"
    <3>1. repeatCount' = repeatCount
      BY <1>1, <2>3 DEF ReadCount, TestCount, Reset
    <3> QED
      BY <1>1, <1>2, <1>3, <2>1, <2>3, <3>1, StaysExact DEF Reporting
  <2>4. CASE at[p] = "reset" \/ l = "replace"
    <3>1. repeatCount' = 0 /\ (l = "replace" => repeatCount = 0) /\ l \in {"clear", "replace"}
      BY <1>1, <1>2, <2>1, <2>4 DEF ReadCount, TestCount, Reset, AfterReset
    <3>2. /\ Entries' = Entries /\ Counted' = Counted
          /\ \A i : LeftOut(p, i)' = LeftOut(p, i) /\ Reported(i)' = Reported(i)
      BY <1>1, <1>3, SameCounts
    <3>3. \A i : Due(p, i)' = 0 /\ Due(p, i) = 0
      BY <1>2, <1>3, <2>4, <3>1 DEF Due, Reporting
    <3>4. at'[p] \in Reporting /\ at'[p] \notin {"report", "bump"}
      BY <1>3, <3>1 DEF Reporting
    <3> QED
      BY <1>1, <1>3, <2>1, <3>1, <3>2, <3>3, <3>4 DEF Exact
  <2> QED
    BY <1>1, <1>2, <2>2, <2>3, <2>4
<1> QED
  BY <1>1, <1>3, <1>4, <1>6, <1>7 DEF Tale

\* The last entry is cleared and replaced.
LEMMA ReplacingTells ==
  ASSUME Control, Counts, NEW p \in Pods, ~setting.json, Tale(p),
         Clear(p) \/ Replace(p)
  PROVE  Tale(p)'
<1> USE DEF At
<1>1. UNCHANGED <<setting, pos, repeatCount, bumped, body, out>>
  BY DEF Clear, Replace, SetHeader, SetBody
<1>2. PICK l \in {"clearing", "replace", "replacing", "write"} :
         /\ Move(p, l)
         /\ \/ at[p] = "clear" /\ l = "clearing" /\ mutex = "free"
               /\ lastHeader' = <<>> /\ lastBody' = lastBody
            \/ at[p] = "clearing" /\ l = "replace"
               /\ lastHeader' = lastHeader /\ lastBody' = NoBody
            \/ at[p] = "replace" /\ l = "replacing" /\ mutex = "free"
               /\ lastHeader' = MyHeader(p) /\ lastBody' = lastBody
            \/ at[p] = "replacing" /\ l = "write"
               /\ lastHeader' = lastHeader /\ lastBody' = body[p]
  BY DEF Clear, Replace, SetHeader, SetBody, After
<1>3. /\ at'[p] = l /\ at'[Flusher] = at[Flusher]
      /\ Told(p)' = Told(p) /\ Line(p)' = Line(p)
      /\ Event(p, pos[p] + 1)' = Event(p, pos[p] + 1)
      /\ \A n : Event(p, n)' = Event(p, n)
      /\ \A q : IsLast(p, q)' <=> IsLast(p, q)
      /\ \A m, n : Alike(p, m, n)' <=> Alike(p, m, n)
      /\ InOrderOfLog(p)' /\ AllTold(p)'
  BY <1>1, <1>2, WithinLine
<1>4. at[Flusher] # "clearing"
  <2>1. p \in Procs /\ Flusher \in Procs /\ p # Flusher /\ mutex # p => mutex = "free"
    BY <1>2, SettingsOK DEF Procs, Control, Held
  <2> QED
    BY <1>2, <2>1, SettingsOK DEF Procs, Control, Held
<1>5. at[p] = "clearing" => lastHeader = <<>>
  BY DEF Tale, InHand
<1>6. InHand(p)'
  BY <1>1, <1>2, <1>3, <1>4, <1>5 DEF Tale, InHand, Idle
<1>7. MyHeader(p) = Event(p, pos[p] + 1)[1] /\ (at[p] = "replacing" => body[p][1] = Event(p, pos[p] + 1)[2])
  BY DEF MyHeader, Event, Line, Tale, InHand, Idle
<1>8. Compared(p)'
  <2>1. CASE at[p] = "clear"
    <3>1. \A n : Names(p, n) => Names(p, n)'
      BY <1>2, <1>3, <2>1 DEF Names
    <3> QED
      BY <1>1, <1>2, <1>3, <2>1, <3>1 DEF Tale, Compared
  <2>2. CASE at[p] = "clearing"
    BY <1>1, <1>2, <1>3, <1>5, <2>2 DEF Compared, NoBody
  <2>3. CASE at[p] = "replace"
    BY <1>1, <1>2, <1>3, <1>7, <2>3 DEF Compared
  <2>4. CASE at[p] = "replacing"
    <3>1. Names(p, pos[p] + 1)'
      BY <1>1, <1>2, <1>3, <1>7, <2>4 DEF Names, Tale, Compared
    <3> QED
      BY <1>1, <1>2, <1>3, <2>4, <3>1 DEF Compared
  <2> QED
    BY <1>2, <2>1, <2>2, <2>3, <2>4
<1>9. ~setting.follow => Exact(p)'
  <2>1. at[p] \in Reporting \ {"reset"} /\ l \in Reporting /\ l \notin {"report", "bump"}
    BY <1>2 DEF Reporting
  <2> QED
    BY <1>1, <1>3, <2>1, StaysExact DEF Tale, Reporting
<1> QED
  BY <1>1, <1>3, <1>6, <1>8, <1>9 DEF Tale

\* What is written is written at the end.
LEMMA AtTheEnd ==
  ASSUME Counts, NEW o, out' = Append(out, o)
  PROVE  /\ Len(out) \in Nat /\ Len(out') = Len(out) + 1
         /\ \A i : i \in DOMAIN out <=> i \in 1 .. Len(out)
         /\ \A i : i \in DOMAIN out' <=> i \in DOMAIN out \/ i = Len(out) + 1
         /\ \A i \in DOMAIN out : out'[i] = out[i]
         /\ out'[Len(out) + 1] = o
<1>1. PICK S : out \in Seq(S)
  BY DEF Counts, IsSequence
<1>2. out \in Seq(S \cup {o})
  BY <1>1, SeqMonotonic
<1>3. /\ out' \in Seq(S \cup {o}) /\ Len(out') = Len(out) + 1
      /\ \A i \in 1 .. Len(out) : out'[i] = out[i]
      /\ out'[Len(out) + 1] = o
  BY <1>2, AppendProperties
<1>4. DOMAIN out = 1 .. Len(out) /\ DOMAIN out' = 1 .. (Len(out) + 1) /\ Len(out) \in Nat
  BY <1>1, <1>3
<1> QED
  BY <1>3, <1>4

\* What is left out is finite.
LEMMA FewLeftOut ==
  ASSUME Control, NEW p \in Pods, NEW i
  PROVE  IsFiniteSet(LeftOut(p, i))
<1>1. IsFiniteSet(1 .. pos[p])
  BY FS_Interval DEF Control
<1> QED
  BY <1>1, FS_Subset DEF LeftOut, Told

\* A line that is not shown is passed over.
LEMMA PassTells ==
  ASSUME Control, Counts, NEW p \in Pods, ~setting.json, Tale(p), Pass(p)
  PROVE  Tale(p)'
<1> USE DEF At
<1>1. /\ UNCHANGED <<setting, at, lastHeader, lastBody, repeatCount, body, bumped, mutex, out>>
      /\ at[p] = "scan" /\ ~Shown(setting, Line(p)) /\ pos' = [pos EXCEPT ![p] = @ + 1]
  BY DEF Pass
<1>2. /\ \A n : Event(p, n)' = Event(p, n)
      /\ \A n : n \in Told(p)' <=> n \in Told(p)
  BY <1>1, MoreLines
<1>3. Told(p)' = Told(p)
  BY <1>2
<1>4. InOrderOfLog(p)' /\ AllTold(p)'
  BY <1>1, <1>2, <1>3, StillTold DEF Tale
<1>5. InHand(p)'
  BY <1>1 DEF Tale, InHand, Idle
<1>6. Compared(p)'
  BY <1>1, <1>2, <1>3 DEF Tale, Compared, IsLast, Names
<1>7. ~setting.follow => Exact(p)'
  BY <1>1, <1>3, StaysExact DEF Tale, Reporting
<1> QED
  BY <1>1, <1>4, <1>5, <1>6, <1>7 DEF Tale

\* The repeats of the last entry are reported.
LEMMA ReportTells ==
  ASSUME Control, Counts, NEW p \in Pods, ~setting.json, Tale(p), Report(p)
  PROVE  Tale(p)'
<1> USE DEF At
<1> DEFINE o == [type |-> "count", count |-> repeatCount]
<1>1. /\ UNCHANGED <<setting, pos, lastHeader, lastBody, repeatCount, body, bumped, mutex>>
      /\ at[p] = "report" /\ Move(p, "reset") /\ out' = Append(out, o)
  BY DEF Report, Printed
<1>2. o.type = "count" /\ o.type # "entry" /\ o.count = repeatCount
  OBVIOUS
<1> HIDE DEF o
<1>3. /\ at'[p] = "reset" /\ at'[Flusher] = at[Flusher]
      /\ Told(p)' = Told(p) /\ Line(p)' = Line(p)
      /\ Event(p, pos[p] + 1)' = Event(p, pos[p] + 1)
      /\ \A n : Event(p, n)' = Event(p, n)
      /\ \A q : IsLast(p, q)' <=> IsLast(p, q)
      /\ InOrderOfLog(p)' /\ AllTold(p)'
  BY <1>1, <1>2, WithinLine
<1>4. InHand(p)'
  BY <1>1, <1>3 DEF Tale, InHand, Idle
<1>5. \A n : Names(p, n)' <=> Names(p, n)
  BY <1>1, <1>3 DEF Names
<1>6. Compared(p)'
  BY <1>1, <1>3, <1>5 DEF Tale, Compared
<1>7. ~setting.follow => Exact(p)'
  <2> SUFFICES ASSUME ~setting.follow PROVE Exact(p)'
    OBVIOUS
  <2>1. Exact(p) /\ repeatCount \in Nat
    BY <1>1 DEF Tale, Counts
  <2>2. /\ Len(out) \in Nat /\ Len(out') = Len(out) + 1
        /\ \A i : i \in DOMAIN out <=> i \in 1 .. Len(out)
        /\ \A i : i \in DOMAIN out' <=> i \in DOMAIN out \/ i = Len(out) + 1
        /\ \A i \in DOMAIN out : out'[i] = out[i]
        /\ out'[Len(out) + 1] = o
    BY <1>1, AtTheEnd
  <2>3. Len(out) \in Entries
    BY <1>1, <2>1 DEF Exact, Reporting
  <2>4. Entries' = Entries /\ \A i \in Entries : out'[i] = out[i]
    <3>1. \A i : i \in Entries' <=> i \in Entries
      BY <1>2, <2>2 DEF Entries
    <3> QED
      BY <2>2, <3>1 DEF Entries
  <2>5. \A i : i \in Counted' <=> i \in Counted \/ i = Len(out) + 1
    BY <1>2, <2>2 DEF Counted
  <2>6. \A i \in Entries : LeftOut(p, i)' = LeftOut(p, i)
    BY <1>3, <2>4 DEF LeftOut
  <2>7. \A i \in Entries : /\ Reported(i)' = Reported(i) + Due(p, i)
                           /\ Due(p, i)' = 0
    <3> SUFFICES ASSUME NEW i \in Entries
                 PROVE  Reported(i)' = Reported(i) + Due(p, i) /\ Due(p, i)' = 0
      OBVIOUS
    <3>1. i \in 1 .. Len(out)
      BY <2>2 DEF Entries
    <3>2. Due(p, i)' = 0
      BY <1>3 DEF Due, Reporting
    <3>3. CASE i = Len(out)
      <4>1. i + 1 \notin Counted
        BY <2>2, <3>1, <3>3 DEF Counted
      <4>2. Reported(i) = 0 /\ Due(p, i) = repeatCount
        BY <1>1, <3>3, <4>1 DEF Reported, Due, Reporting
      <4>3. Reported(i)' = repeatCount
        BY <1>2, <2>2, <2>5, <3>3 DEF Reported
      <4> QED
        BY <2>1, <3>2, <4>2, <4>3
    <3>4. CASE i # Len(out)
      <4>1. i + 1 \in DOMAIN out /\ i + 1 # Len(out) + 1
        BY <2>2, <3>1, <3>4
      <4>2. Reported(i)' = Reported(i)
        BY <2>2, <2>5, <4>1 DEF Reported
      <4>3. Reported(i) \in Nat
        BY <4>1 DEF Reported, Counted, Counts
      <4> QED
        BY <3>2, <3>4, <4>2, <4>3 DEF Due
    <3> QED
      BY <3>3, <3>4
  <2>8. \A i \in Entries' : Cardinality(LeftOut(p, i)') = Reported(i)' + Due(p, i)'
    <3> SUFFICES ASSUME NEW i \in Entries
                 PROVE  Cardinality(LeftOut(p, i)') = Reported(i)' + Due(p, i)'
      BY <2>4
    <3>1. Cardinality(LeftOut(p, i)) = Reported(i)' /\ Due(p, i)' = 0
      BY <2>1, <2>7 DEF Exact
    <3>2. Cardinality(LeftOut(p, i)) \in Nat
      BY FewLeftOut, FS_CardinalityType
    <3> QED
      BY <2>6, <3>1, <3>2
  <2>9. \A i \in Counted' : i - 1 \in Entries'
    BY <2>1, <2>2, <2>3, <2>4, <2>5 DEF Exact
  <2>10. out' # <<>>
    BY <2>2
  <2> QED
    BY <1>3, <2>8, <2>9, <2>10 DEF Exact, Reporting
<1> QED
  BY <1>1, <1>3, <1>4, <1>6, <1>7 DEF Tale

\* One line more is told, and the goroutine goes on to the next.
LEMMA TellsMore ==
  ASSUME Control, NEW p \in Pods, Tale(p), setting' = setting, at[p] \notin Idle,
         pos' = [pos EXCEPT ![p] = @ + 1], Move(p, "scan"), body' = body,
         UNCHANGED <<lastHeader, lastBody>>, Names(p, pos[p] + 1)
  PROVE  /\ pos[p] \in Nat /\ at'[p] = "scan" /\ InHand(p)' /\ Compared(p)'
         /\ \A n : Event(p, n)' = Event(p, n)
         /\ \A n : n \in Told(p)' <=> n \in Told(p) \/ n = pos[p] + 1
         /\ \A n \in Told(p) : n \in 1 .. pos[p]
<1>1. p \in Procs /\ Flusher \in Procs /\ p # Flusher
  BY SettingsOK DEF Procs
<1>2. at'[p] = "scan" /\ at'[Flusher] = at[Flusher]
  BY <1>1 DEF Move, Control
<1>3. Shown(setting, Line(p))
  BY DEF Tale, InHand
<1>4. /\ pos[p] \in Nat
      /\ \A n : Event(p, n)' = Event(p, n)
      /\ \A n : n \in Told(p)' <=> n \in Told(p) \/ n = pos[p] + 1
      /\ \A n \in Told(p) : n \in 1 .. pos[p]
  BY <1>3, MoreLines
<1>5. InHand(p)'
  BY <1>2 DEF Tale, InHand, Idle
<1>6. PICK n : n = pos[p] + 1
  OBVIOUS
<1>7. IsLast(p, n)' /\ Names(p, n)'
  BY <1>4, <1>6 DEF IsLast, Names
<1>8. Compared(p)'
  BY <1>2, <1>7 DEF Compared, IsLast
<1> QED
  BY <1>2, <1>4, <1>5, <1>8

\* What repeated the line before it does so still, when another is told.
LEMMA StillRepeats ==
  ASSUME NEW p \in Pods, setting' = setting, pos[p] \in Nat,
         \A n : Event(p, n)' = Event(p, n),
         \A n : n \in Told(p)' <=> n \in Told(p) \/ n = pos[p] + 1,
         \A n \in Told(p) : n \in 1 .. pos[p],
         NEW m, NEW n \in Told(p), Repeats(p, m, n)
  PROVE  Repeats(p, m, n)'
<1>1. Alike(p, m, n)'
  BY DEF Repeats, Alike
<1>2. n <= pos[p] + 1
  OBVIOUS
<1> QED
  BY <1>1, <1>2 DEF Repeats

\* A line is counted as a repetition of the last entry.
LEMMA WriteCountTells ==
  ASSUME Control, Counts, NEW p \in Pods, ~setting.json, Tale(p), WriteCount(p)
  PROVE  Tale(p)'
<1> USE DEF At
<1>1. /\ UNCHANGED <<setting, lastHeader, lastBody, body, out>>
      /\ at[p] = "bump" /\ Move(p, "scan") /\ pos' = [pos EXCEPT ![p] = @ + 1]
      /\ repeatCount' = bumped[p]
  BY DEF WriteCount
<1>2. Names(p, pos[p] + 1)
  BY <1>1 DEF Tale, Compared
<1>3. /\ pos[p] \in Nat /\ at'[p] = "scan" /\ InHand(p)' /\ Compared(p)'
      /\ \A n : Event(p, n)' = Event(p, n)
      /\ \A n : n \in Told(p)' <=> n \in Told(p) \/ n = pos[p] + 1
      /\ \A n \in Told(p) : n \in 1 .. pos[p]
  BY <1>1, <1>2, TellsMore DEF Idle
<1>4. PICK q \in Told(p) : IsLast(p, q) /\ Alike(p, q, pos[p] + 1)
  BY <1>1 DEF Tale, Compared
<1>5. Entries' = Entries /\ Counted' = Counted /\ \A i : Reported(i)' = Reported(i)
  BY <1>1 DEF Entries, Counted, Reported
<1>6. InOrderOfLog(p)'
  BY <1>1, <1>3, <1>5 DEF Tale, InOrderOfLog
<1>7. AllTold(p)'
  <2> SUFFICES ASSUME NEW n \in Told(p)'
               PROVE  \/ \E i \in Entries : out[i].line = n
                      \/ \E m \in Told(p)' : Repeats(p, m, n)'
    BY <1>1, <1>5 DEF AllTold
  <2>1. CASE n \in Told(p)
    BY <1>1, <1>3, <2>1, StillRepeats DEF Tale, AllTold
  <2>2. CASE n = pos[p] + 1
    <3>1. Alike(p, q, n)'
      BY <1>1, <1>3, <1>4, <2>2 DEF Alike
    <3>2. q < n /\ \A k \in Told(p)' : k <= q \/ n <= k
      BY <1>3, <1>4, <2>2 DEF IsLast
    <3> QED
      BY <1>3, <3>1, <3>2 DEF Repeats
  <2> QED
    BY <1>3, <2>1, <2>2
<1>8. ~setting.follow => Exact(p)'
  <2> SUFFICES ASSUME ~setting.follow PROVE Exact(p)'
    OBVIOUS
  <2>1. Exact(p) /\ repeatCount \in Nat
    BY <1>1 DEF Tale, Counts
  <2>2. out # <<>> /\ Len(out) \in Entries /\ repeatCount' = repeatCount + 1
    BY <1>1, <1>4, <2>1 DEF Exact, Reporting
  <2>3. Len(out) \in Nat /\ \A i \in Entries : i \in 1 .. Len(out)
    BY DEF Counts, IsSequence, Entries
  <2>4. \A i \in Entries : out[i].line \in 1 .. pos[p]
    BY <1>3 DEF Tale, InOrderOfLog
  <2>5. ASSUME NEW i \in Entries, i # Len(out)
        PROVE  Cardinality(LeftOut(p, i)') = Reported(i)' + Due(p, i)'
    <3>1. \A n : n \in LeftOut(p, i)' <=> n \in LeftOut(p, i)
      <4>1. i < Len(out) /\ ~(pos[p] + 1 < out[Len(out)].line)
        BY <1>3, <2>2, <2>3, <2>4, <2>5
      <4> QED
        BY <1>1, <1>3, <1>5, <2>2, <4>1 DEF LeftOut
    <3>2. LeftOut(p, i)' = LeftOut(p, i)
      BY <3>1
    <3>3. Due(p, i)' = 0 /\ Due(p, i) = 0
      BY <1>1, <2>5 DEF Due
    <3> QED
      BY <1>5, <2>1, <3>2, <3>3 DEF Exact
  <2>6. ASSUME NEW N, N = Len(out)
        PROVE  Cardinality(LeftOut(p, N)') = Reported(N)' + Due(p, N)'
    <3>1. \A n : n \in LeftOut(p, N)' <=> n \in LeftOut(p, N) \cup {pos[p] + 1}
      <4>1. out[N].line < pos[p] + 1
        BY <1>3, <2>2, <2>4, <2>6
      <4>2. \A j \in Entries : ~(N < j)
        BY <2>3, <2>6
      <4> QED
        BY <1>1, <1>3, <1>5, <4>1, <4>2 DEF LeftOut
    <3>2. LeftOut(p, N)' = LeftOut(p, N) \cup {pos[p] + 1} /\ pos[p] + 1 \notin LeftOut(p, N)
      BY <1>3, <3>1 DEF LeftOut
    <3>3. /\ Cardinality(LeftOut(p, N)') = Cardinality(LeftOut(p, N)) + 1
          /\ Cardinality(LeftOut(p, N)) \in Nat
      BY <3>2, FewLeftOut, FS_AddElement, FS_CardinalityType
    <3>4. Due(p, N)' = repeatCount + 1 /\ Due(p, N) = repeatCount
      BY <1>1, <1>3, <2>2, <2>6 DEF Due, Reporting
    <3>5. Reported(N) = 0
      <4>1. N + 1 \notin Counted
        BY <2>3, <2>6 DEF Counted, Counts, IsSequence
      <4> QED
        BY <4>1 DEF Reported
    <3> QED
      BY <1>5, <2>1, <2>2, <2>6, <3>3, <3>4, <3>5 DEF Exact
  <2>7. \A i \in Entries' : Cardinality(LeftOut(p, i)') = Reported(i)' + Due(p, i)'
    BY <1>5, <2>5, <2>6
  <2>8. (\A i \in Counted' : i - 1 \in Entries') /\ Len(out') \in Entries'
    BY <1>1, <1>5, <2>1, <2>2 DEF Exact
  <2> QED
    BY <1>1, <1>3, <2>2, <2>7, <2>8 DEF Exact, Reporting
<1> QED
  BY <1>1, <1>3, <1>6, <1>7, <1>8 DEF Tale

\* A line is written as an entry.
LEMMA WriteEntryTells ==
  ASSUME Control, Counts, NEW p \in Pods, ~setting.json, Tale(p), WriteEntry(p)
  PROVE  Tale(p)'
<1> USE DEF At
<1> DEFINE o == [type |-> "entry", pod |-> p, line |-> pos[p] + 1,
                 header |-> MyHeader(p), body |-> body[p]]
<1>1. /\ UNCHANGED <<setting, lastHeader, lastBody, body, repeatCount>>
      /\ at[p] = "write" /\ Move(p, "scan") /\ pos' = [pos EXCEPT ![p] = @ + 1]
      /\ out' = Append(out, o)
  BY DEF WriteEntry
<1>2. /\ o.type = "entry" /\ o.type # "count" /\ o.line = pos[p] + 1
      /\ <<o.header, o.body[1]>> = Event(p, pos[p] + 1)
  <2>1. o.type = "entry" /\ o.type # "count" /\ o.line = pos[p] + 1
        /\ o.header = MyHeader(p) /\ o.body = body[p]
    OBVIOUS
  <2>2. MyHeader(p) = Event(p, pos[p] + 1)[1] /\ body[p][1] = Event(p, pos[p] + 1)[2]
    BY <1>1 DEF MyHeader, Line, Tale, InHand, Idle, Event
  <2> HIDE DEF o
  <2> QED
    BY <2>1, <2>2 DEF Event
<1> HIDE DEF o
<1>3. Names(p, pos[p] + 1)
  BY <1>1 DEF Tale, Compared
<1>4. /\ pos[p] \in Nat /\ at'[p] = "scan" /\ InHand(p)' /\ Compared(p)'
      /\ \A n : Event(p, n)' = Event(p, n)
      /\ \A n : n \in Told(p)' <=> n \in Told(p) \/ n = pos[p] + 1
      /\ \A n \in Told(p) : n \in 1 .. pos[p]
  BY <1>1, <1>3, TellsMore DEF Idle
<1>5. /\ Len(out) \in Nat /\ Len(out') = Len(out) + 1
      /\ \A i : i \in DOMAIN out <=> i \in 1 .. Len(out)
      /\ \A i : i \in DOMAIN out' <=> i \in DOMAIN out \/ i = Len(out) + 1
      /\ \A i \in DOMAIN out : out'[i] = out[i]
      /\ out'[Len(out) + 1] = o
  BY <1>1, AtTheEnd
<1>6. /\ \A i : i \in Entries' <=> i \in Entries \/ i = Len(out) + 1
      /\ \A i \in Entries : i \in 1 .. Len(out) /\ out'[i] = out[i]
      /\ \A i \in Entries : out[i].line \in Told(p) /\ out[i].line \in 1 .. pos[p]
  BY <1>2, <1>4, <1>5 DEF Entries, Tale, InOrderOfLog
<1>7. InOrderOfLog(p)'
  <2>1. ASSUME NEW i \in Entries'
        PROVE  \E n \in Told(p)' : /\ out'[i].line = n
                                  /\ <<out'[i].header, out'[i].body[1]>> = Event(p, n)
    <3>1. CASE i \in Entries
      BY <1>4, <1>6, <3>1 DEF Tale, InOrderOfLog
    <3>2. CASE i = Len(out) + 1
      <4>1. PICK n : n = pos[p] + 1
        OBVIOUS
      <4>2. out'[i] = o /\ n \in Told(p)'
        BY <1>4, <1>5, <3>2, <4>1
      <4> QED
        BY <1>2, <4>1, <4>2
    <3> QED
      BY <1>6, <3>1, <3>2
  <2>2. ASSUME NEW i \in Entries', NEW j \in Entries', i < j
        PROVE  out'[i].line < out'[j].line
    <3>1. i \in Entries
      BY <1>5, <1>6, <2>2
    <3>2. CASE j \in Entries
      BY <1>6, <2>2, <3>1, <3>2 DEF Tale, InOrderOfLog
    <3>3. CASE j = Len(out) + 1
      BY <1>2, <1>4, <1>5, <1>6, <3>1, <3>3
    <3> QED
      BY <1>6, <3>2, <3>3
  <2> QED
    BY <1>1, <1>4, <2>1, <2>2 DEF InOrderOfLog, Event, Log
<1>8. AllTold(p)'
  <2> SUFFICES ASSUME NEW n \in Told(p)'
               PROVE  \/ \E i \in Entries' : out'[i].line = n
                      \/ \E m \in Told(p)' : Repeats(p, m, n)'
    BY DEF AllTold
  <2>1. CASE n \in Told(p)
    <3>1. CASE \E i \in Entries : out[i].line = n
      BY <1>6, <3>1
    <3>2. CASE \E m \in Told(p) : Repeats(p, m, n)
      BY <1>1, <1>4, <2>1, <3>2, StillRepeats
    <3> QED
      BY <2>1, <3>1, <3>2 DEF Tale, AllTold
  <2>2. CASE n = pos[p] + 1
    BY <1>2, <1>5, <1>6, <2>2
  <2> QED
    BY <1>4, <2>1, <2>2
<1>9. ~setting.follow => Exact(p)'
  <2> SUFFICES ASSUME ~setting.follow PROVE Exact(p)'
    OBVIOUS
  <2>1. Exact(p) /\ repeatCount = 0 /\ repeatCount' = 0
    BY <1>1 DEF Tale, Exact, Reporting
  <2>2. \A i : i \in Counted' <=> i \in Counted
    BY <1>2, <1>5 DEF Counted
  <2>3. \A i : Due(p, i) = 0 /\ Due(p, i)' = 0
    BY <2>1 DEF Due
  <2>4. ASSUME NEW i \in Entries
        PROVE  Cardinality(LeftOut(p, i)') = Reported(i)' + Due(p, i)'
    <3>1. \A n : n \in LeftOut(p, i)' <=> n \in LeftOut(p, i)
      <4>1. i < Len(out) + 1 /\ out'[Len(out) + 1].line = pos[p] + 1
        BY <1>2, <1>5, <1>6
      <4>2. ~(pos[p] + 1 < pos[p] + 1) /\ \A n \in Told(p) : n < pos[p] + 1
        BY <1>4
      <4>3. \A j \in Entries' : (j \in Entries /\ out'[j].line = out[j].line) \/ j = Len(out) + 1
        BY <1>6
      <4> QED
        BY <1>4, <1>6, <4>1, <4>2, <4>3 DEF LeftOut
    <3>2. LeftOut(p, i)' = LeftOut(p, i)
      BY <3>1
    <3>3. Reported(i)' = Reported(i)
      BY <1>5, <2>2 DEF Reported, Counted
    <3> QED
      BY <2>1, <2>3, <3>2, <3>3 DEF Exact
  <2>5. ASSUME NEW N, N = Len(out) + 1
        PROVE  Cardinality(LeftOut(p, N)') = Reported(N)' + Due(p, N)'
    <3>1. \A n : n \notin LeftOut(p, N)'
      BY <1>2, <1>4, <1>5, <2>5 DEF LeftOut
    <3>2. LeftOut(p, N)' = {}
      BY <3>1
    <3>3. N + 1 \notin Counted'
      BY <1>5, <2>5 DEF Counted
    <3> QED
      BY <2>3, <3>2, <3>3, FS_EmptySet DEF Reported
  <2>6. \A i \in Entries' : Cardinality(LeftOut(p, i)') = Reported(i)' + Due(p, i)'
    BY <1>6, <2>4, <2>5
  <2>7. \A i \in Counted' : i - 1 \in Entries'
    BY <1>6, <2>1, <2>2 DEF Exact
  <2>8. out' # <<>> /\ Len(out') \in Entries'
    BY <1>5, <1>6
  <2> QED
    BY <1>4, <2>1, <2>6, <2>7, <2>8 DEF Exact, Reporting
<1> QED
  BY <1>1, <1>4, <1>7, <1>8, <1>9 DEF Tale

-----------------------------------------------------------------------------
LEMMA TalesAtFirst == StreamInit => Tales
<1> SUFFICES ASSUME StreamInit, NEW p \in Pods, Reading = {p}, ~setting.json
             PROVE  Tale(p)
  BY DEF Tales
<1>1. /\ setting \in Settings /\ pos[p] = 0 /\ lastHeader = <<>> /\ lastBody = NoBody
      /\ repeatCount = 0 /\ out = <<>> /\ p \in DOMAIN body
  BY DEF StreamInit
<1>2. at[p] = "open" /\ at[Flusher] = IF setting.follow THEN "idle" ELSE "done"
  <2>1. Flusher \notin Containers(setting) /\ p \in Containers(setting)
    BY <1>1, ReadPods, SettingsOK DEF Reading
  <2> QED
    BY <2>1, SettingsOK DEF StreamInit, Procs
<1>3. Told(p) = {}
  BY <1>1 DEF Told
<1>4. DOMAIN out = {}
  <2>1. out \in Seq({}) /\ Len(out) = 0
    BY <1>1
  <2> QED
    BY <2>1
<1>5. Entries = {} /\ Counted = {}
  BY <1>4 DEF Entries, Counted
<1> QED
  BY <1>1, <1>2, <1>3, <1>5 DEF Tale, InHand, Compared, InOrderOfLog, AllTold, Exact, Idle, Reporting

LEMMA TalesGoOn ==
  ASSUME Control, Counts, Tales, [StreamNext]_streamVars
  PROVE  Tales'
<1>1. setting' = setting
  BY DEF StreamNext, Pod, Flush, Open, Pass, CompareHeader, CompareBody, ReadCount, WriteCount,
         TestCount, Report, Reset, Clear, Replace, SetHeader, SetBody, WriteEntry, EndOfLog, Break,
         Tick, StopFlushing, Return, Exit, StreamOver, streamVars
<1> SUFFICES ASSUME NEW p \in Pods, Reading' = {p}, ~setting'.json PROVE Tale(p)'
  BY DEF Tales
<1>2. Reading = {p} /\ ~setting.json
  BY <1>1 DEF Reading
<1>3. Tale(p)
  BY <1>2 DEF Tales
<1>4. CASE Pod(p) \/ EndOfLog(p) \/ Break(p)
  BY <1>2, <1>3, <1>4, OpensTells, PassTells, ComparesTells, CountersTell, WriteCountTells,
     ReportTells, ReplacingTells, WriteEntryTells DEF Pod
<1>5. ASSUME NEW q \in Pods, Pod(q) \/ EndOfLog(q) \/ Break(q) PROVE q = p
  <2>1. at[q] # "done"
    BY <1>5 DEF Pod, Open, Pass, CompareHeader, CompareBody, ReadCount, WriteCount,
         TestCount, Report, Reset, Clear, Replace, SetHeader, SetBody, WriteEntry, EndOfLog, Break, At
  <2> QED
    BY <1>2, <2>1 DEF Control
<1>6. CASE Flush
  BY <1>2, <1>3, <1>6, FlusherTells
<1>7. CASE Return \/ Exit \/ UNCHANGED streamVars
  <2>1. UNCHANGED <<setting, at, pos, lastHeader, lastBody, repeatCount, body, bumped, out>>
    BY <1>7 DEF Return, Exit, streamVars
  <2>2. /\ Told(p)' = Told(p) /\ Log(p)' = Log(p) /\ Line(p)' = Line(p)
        /\ Event(p, pos[p] + 1)' = Event(p, pos[p] + 1)
        /\ \A n : Event(p, n)' = Event(p, n)
    BY <2>1, SameLines
  <2>3. InOrderOfLog(p)' /\ AllTold(p)'
    BY <1>3, <2>1, <2>2, StillTold DEF Tale
  <2>4. ~setting.follow /\ at[p] # "done" => Exact(p)'
    BY <1>3, <2>1, <2>2, StaysExact DEF Tale, Exact
  <2>5. \A n : (Names(p, n)' <=> Names(p, n)) /\ (IsLast(p, n)' <=> IsLast(p, n))
    BY <2>1, <2>2 DEF Names, IsLast
  <2>6. \A m, n : Alike(p, m, n)' <=> Alike(p, m, n)
    BY <2>1, <2>2 DEF Alike
  <2>7. InHand(p)' /\ Compared(p)'
    BY <1>3, <2>1, <2>2, <2>5, <2>6 DEF Tale, InHand, Compared
  <2> QED
    BY <2>1, <2>3, <2>4, <2>7 DEF Tale
<1> QED
  BY <1>4, <1>5, <1>6, <1>7 DEF StreamNext, StreamOver

\* With one container to read the entries on the terminal are lines of its log in their
\* order, and only a repetition of the line before it is in none; without a flusher the
\* counts are those of the lines left out (LogStream, LogFlush, writeRepeatedEvent).
THEOREM StoryStaysKept == StreamSpec => []StoryKept
<1>1. Tales => StoryKept
  <2> SUFFICES ASSUME Tales, NEW p \in Pods, Reading = {p}, ~setting.json, Tale(p)
               PROVE  /\ InOrderOfLog(p) /\ AllTold(p)
                      /\ at[p] = "scan" /\ ~setting.follow =>
                            /\ \A i \in Counted : i - 1 \in Entries
                            /\ \A i \in Entries : Cardinality(LeftOut(p, i))
                                 = Reported(i) + (IF i = Len(out) THEN repeatCount ELSE 0)
    BY DEF Tales, StoryKept, InOrderOfLog, AllTold
  <2>1. at[p] = "scan" => \A i : Due(p, i) = IF i = Len(out) THEN repeatCount ELSE 0
    BY DEF Due, Reporting
  <2> QED
    BY <2>1 DEF Tale, Exact
<1>2. StreamInit => Control /\ Counts /\ Tales
  BY MonitorAtFirst, TalesAtFirst
<1>3. (Control /\ Counts /\ Tales) /\ [StreamNext]_streamVars => (Control /\ Counts /\ Tales)'
  BY MonitorSteps, TalesGoOn
<1> QED
  BY <1>1, <1>2, <1>3, PTL DEF StreamSpec
=============================================================================
