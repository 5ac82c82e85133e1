--------------------------- MODULE MC_PackageDeploy ---------------------------
(***************************************************************************)
(* Instances of PackageDeploy for TLC: two keys that differ in case and one*)
(* that may hold a scalar, a list or an object; scalars say whose they are.*)
(***************************************************************************)
EXTENDS PackageDeploy, TLC

MC_Upper == ("domain" :> "DOMAIN") @@ ("Domain" :> "DOMAIN") @@ ("db" :> "DB")
            @@ ("host" :> "HOST") @@ ("port" :> "PORT")

Some(key, value) == {NoKeys, key :> value}

\* What "db" may be, with scalars marked by who says them.
Db(who) ==
  {NoKeys} \union {"db" :> v : v \in {Scalar(who), List(who), Object(NoKeys),
                                     Object("host" :> Scalar(who)),
                                     Object(("host" :> Scalar(who)) @@ ("port" :> List(who)))}}

LayersOf(who) ==
  {Layer(a @@ b @@ c) : a \in Some("domain", Scalar(who)), b \in Some("Domain", Scalar("other" \o who)),
                        c \in Db(who)}

MC_Layers == {Nil} \union LayersOf("one") \union LayersOf("two")

\* What a layer holds, and the objects in it.
MC_Maps == LET Objects(m) == {k \in DOMAIN m : m[k].kind = "object"}
               tops == {l.vars : l \in MC_Layers}
           IN tops \union UNION {{m[k].vars : k \in Objects(m)} : m \in tops}

MC_Depth == [m \in MC_Maps |-> IF \E k \in DOMAIN m : m[k].kind = "object" THEN 1 ELSE 0]

MC_Titles == {"zarf.yaml", "images/index.json", "chart"}

In(command, from, versions, selected, n, defaults, config) ==
  [command |-> command, source |-> from, versions |-> versions, selected |-> selected,
   files |-> n, defaults |-> defaults, config |-> config]

\* Every pair of layers, with a package of one file that stays as it is ...
Configured ==
  {In("deploy", "archive", 1, {"zarf.yaml"}, n, d, c) : n \in 0..MaxFiles, d \in MC_Layers, c \in MC_Layers}

\* ... and every way of loading, with a source that is replaced twice.
Loaded ==
  {i \in {In(command, from, 3, selected, n, Nil, c) :
             command \in {"deploy", "verify", "ingest"},
             from \in {"artifact", "directory", "archive", "registry"},
             selected \in (SUBSET MC_Titles) \ {{}}, n \in 0..1,
             c \in {Nil, Layer("db" :> Scalar("one"))}} :
     /\ i.source = "artifact" => i.command = "deploy"
     /\ i.command # "deploy" => i.files = 0 /\ i.config = Nil}

MC_Inputs == Configured \union Loaded
=============================================================================
