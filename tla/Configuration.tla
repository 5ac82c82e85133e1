----------------------------- MODULE Configuration -----------------------------
(***************************************************************************)
(* The variables of a deployment (internal/bundle/configuration.go,        *)
(* internal/cli/bundle/config_resolver.go): the bundle's defaults.uds.hcl  *)
(* below the user's config.uds.hcl, merged in depth, and the flat variables*)
(* handed to Zarf.                                                         *)
(*                                                                         *)
(* A value is [kind, is], a scalar or a list with what it is, or an object *)
(* [kind, vars] with a function from keys to values.  A layer that may be  *)
(* missing altogether (nil in Go) is [present, vars].                      *)
(***************************************************************************)
EXTENDS Naturals, Sequences, FiniteSets

CONSTANTS
  Upper,   \* key -> its upper-case form
  Maps,    \* the maps of variables and those within them: what DeepMerge is given
  Depth    \* how deep the objects of a map are nested: decoded HCL is finite

Scalar(x) == [kind |-> "scalar", is |-> x]
List(x) == [kind |-> "list", is |-> x]
Object(vars) == [kind |-> "object", vars |-> vars]

NoKeys == [k \in {} |-> {}]

ASSUME MapsAssumption ==
  /\ NoKeys \in Maps /\ Depth \in [Maps -> Nat]
  /\ \A m \in Maps :
       /\ DOMAIN m \subseteq DOMAIN Upper /\ m = [k \in DOMAIN m |-> m[k]]
       /\ \A k \in DOMAIN m :
            /\ m[k].kind \in {"scalar", "list", "object"}
            /\ m[k].kind = "object" => m[k].vars \in Maps /\ Depth[m[k].vars] < Depth[m]

Nil == [present |-> FALSE, vars |-> NoKeys]
Layer(vars) == [present |-> TRUE, vars |-> vars]

\* Faulty variant: an object of the overrides replaces the whole object below it.
Replace(old, new) == FALSE
\* Only two objects are merged; lists and scalars are replaced wholesale.
BothObjects(old, new) == old.kind = "object" /\ new.kind = "object"

\* Merged[src][dst]: the overrides src on top of dst.
Merged[src \in Maps] ==
  [dst \in Maps |->
     [k \in DOMAIN dst \union DOMAIN src |->
        IF k \notin DOMAIN src THEN dst[k]
        ELSE IF k \in DOMAIN dst /\ BothObjects(dst[k], src[k])
        THEN Object(Merged[src[k].vars][dst[k].vars])
        ELSE src[k]]]

DeepMerge(dst, src) == Merged[src][dst]

MergeVariables(base, overrides) ==
  [present |-> base.present \/ overrides.present,
   vars |-> DeepMerge(base.vars, overrides.vars)]

\* resolveBase takes the user's variables, applyBundleDefaults puts the defaults
\* below them once the bundle is there.
Resolve(defaults, config) == MergeVariables(defaults, MergeVariables(Nil, config))

\* Faulty variant: lists are passed on too.
IsFlat(value) == value.kind # "object"
IsScalar(value) == value.kind = "scalar"

\* What Flatten may return: of keys with one upper-case form the last in the order
\* of Go's map stays.
Flatten(vars) ==
  LET keys == {k \in DOMAIN vars : IsScalar(vars[k])}
      names == {Upper[k] : k \in keys}
  IN {out \in [names -> {vars[k].is : k \in keys}] :
        \A n \in names : \E k \in keys : Upper[k] = n /\ out[n] = vars[k].is}

----------------------------------------------------------------------------
(* Reference: the value at a path, a key or a key below a key.              *)

Missing == [kind |-> "missing", is |-> ""]

At(vars, path) ==
  IF path[1] \notin DOMAIN vars THEN Missing
  ELSE IF Len(path) = 1 THEN vars[path[1]]
  ELSE IF vars[path[1]].kind # "object" \/ path[2] \notin DOMAIN vars[path[1]].vars THEN Missing
  ELSE vars[path[1]].vars[path[2]]

\* A path below one that the overrides give another kind of value is hidden.
Effective(base, overrides, path) ==
  LET above == At(overrides, <<path[1]>>)
  IN IF At(overrides, path) # Missing THEN At(overrides, path)
     ELSE IF above.kind \in {"missing", "object"} THEN At(base, path)
     ELSE Missing
=============================================================================
