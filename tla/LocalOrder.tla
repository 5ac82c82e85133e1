------------------------------ MODULE LocalOrder ------------------------------
(***************************************************************************)
(* The locals of a bundle file (internal/bundle/expressions.go): every     *)
(* local is evaluated after the locals its expression names.               *)
(*                                                                         *)
(* An expression is what it refers to (its traversals, <<root, name>>, a   *)
(* name several times if it stands there several times), what it           *)
(* contributes itself, and whether it calls file().  The value of an       *)
(* expression is the set of the contributions that went into it.           *)
(***************************************************************************)
EXTENDS BundleGraph

\* The locals an expression names, each once.
LocalDependencies(expr) ==
  LET Add(deps, traversal) ==
        IF traversal[1] # "local" \/ traversal[2] \in ToSet(deps) THEN deps
        ELSE Append(deps, traversal[2])
  IN FoldLeft(Add, <<>>, expr.traversals)

\* The closure of topoSortLocals: refs[l] are the dependencies of l, source the order
\* in which the locals stand in the file; a local on the stack is being visited, one in order
\* has been.
Start == [stack |-> <<>>, order |-> <<>>, cycle |-> <<>>, error |-> "none"]

Visiting(name, s) == name \in ToSet(s.stack)

\* Faulty variant: a local is put in order before what it names.
Enter(name, s) == [s EXCEPT !.stack = Append(@, name), !.order = Append(@, name)]
Push(name, s) == [s EXCEPT !.stack = Append(@, name)]

Leave(name, s) ==
  [s EXCEPT !.stack = Front(@), !.order = IF name \in ToSet(@) THEN @ ELSE Append(@, name)]

\* The stack from the first visit of the local on, closed by its name.
CycleAt(name, s) ==
  SubSeq(s.stack, CHOOSE i \in DOMAIN s.stack : s.stack[i] = name, Len(s.stack)) \o <<name>>

RECURSIVE Visit(_, _, _)
Visit(name, refs, s) ==
  LET Follow(t, dep) ==
        IF t.error # "none" THEN t
        ELSE IF dep \notin DOMAIN refs THEN [t EXCEPT !.error = "undefined"]
        ELSE Visit(dep, refs, t)
      inside == FoldLeft(Follow, Push(name, s), refs[name])
  IN IF Visiting(name, s) THEN [s EXCEPT !.error = "cycle", !.cycle = CycleAt(name, s)]
     ELSE IF name \in ToSet(s.order) THEN s
     ELSE IF inside.error # "none" THEN inside
     ELSE Leave(name, inside)

TopoSortLocals(source, refs) ==
  FoldLeft(LAMBDA s, name : IF s.error # "none" THEN s ELSE Visit(name, refs, s), Start, source)

\* expr.Value: the scope holds the locals evaluated so far.
Value(expr, scope) == expr.own \union UNION {scope[l] : l \in ToSet(LocalDependencies(expr))}

\* The locals of the file, or why there are none.  The expression of a local is
\* evaluated in the context of the locals before it in the order.
ExtractLocals(source, exprs) ==
  LET sorted == TopoSortLocals(source, [l \in DOMAIN exprs |-> LocalDependencies(exprs[l])])
      Evaluate(s, l) == [contexts |-> s.contexts @@ (l :> s.locals),
                         locals   |-> s.locals @@ (l :> Value(exprs[l], s.locals))]
      none == [contexts |-> <<>>, locals |-> <<>>]
      Result(error, s) == [error |-> error, contexts |-> s.contexts, locals |-> s.locals]
  IN IF ~IsInjective(source) THEN Result("duplicate", none)
     ELSE IF sorted.error # "none" THEN Result(sorted.error, none)
     ELSE Result("none", FoldLeft(Evaluate, none, sorted.order))

\* A file is its locals and the other attributes of its blocks.  Create replaces every
\* expression that calls file() by its value: that of a local in the context it had
\* when it was evaluated, that of another attribute in the context of all locals.
Literal(value) == [traversals |-> <<>>, own |-> value, file |-> FALSE]

CallsFile(expr) == expr.file

\* Faulty variant: the call is replaced, not the expression around it.
CallOnly(expr, scope) == IF CallsFile(expr) THEN Literal(expr.own) ELSE expr
Materialized(expr, scope) == IF CallsFile(expr) THEN Literal(Value(expr, scope)) ELSE expr

MaterializeFileCalls(file, extracted) ==
  [locals     |-> [l \in DOMAIN file.locals |->
                     Materialized(file.locals[l], extracted.contexts[l])],
   attributes |-> [a \in DOMAIN file.attributes |->
                     Materialized(file.attributes[a], extracted.locals)]]

\* A bundle file read from bytes has no directory and may call no file().
RejectFileFunction(file) ==
  \/ \E l \in DOMAIN file.locals : CallsFile(file.locals[l])
  \/ \E a \in DOMAIN file.attributes : CallsFile(file.attributes[a])

----------------------------------------------------------------------------
\* The order is one in which extractLocals can evaluate: each local once, and the
\* namespace built so far holds every name the next expression needs.
Evaluates(order, refs) ==
  /\ Len(order) = Cardinality(DOMAIN refs) /\ ToSet(order) = DOMAIN refs
  /\ \A i \in DOMAIN order : ToSet(refs[order[i]]) \subseteq {order[j] : j \in 1..(i - 1)}

\* The names in a reported cycle name each other, one after the other.
IsCycle(cycle, refs) ==
  /\ Len(cycle) > 1 /\ cycle[1] = Last(cycle)
  /\ \A i \in 1..(Len(cycle) - 1) : cycle[i + 1] \in ToSet(refs[cycle[i]])

\* In whatever order the locals stand in the file: locals that can be evaluated are
\* put in an order in which they evaluate, others are refused, and what is reported as
\* a cycle is one.
SortIsRight(source, refs) ==
  LET s == TopoSortLocals(source, refs)
      named == [l \in DOMAIN refs |-> ToSet(refs[l])]
      sound == Acyclic(named) /\ \A l \in DOMAIN refs : named[l] \subseteq DOMAIN refs
  IN CASE s.error = "none" -> sound /\ Evaluates(s.order, refs)
       [] s.error = "cycle" -> ~sound /\ IsCycle(s.cycle, refs)
       [] s.error = "undefined" -> ~sound

\* A local has what it and the locals it reaches contribute; a name defined twice is
\* refused whatever the rest of the file is.
ValuesAreRight(source, exprs) ==
  LET extracted == ExtractLocals(source, exprs)
      named == [l \in DOMAIN exprs |-> ToSet(LocalDependencies(exprs[l]))]
      above == Ancestors(named)
  IN /\ extracted.error = "none" =>
          \A l \in DOMAIN exprs : extracted.locals[l] = UNION {exprs[k].own : k \in {l} \union above[l]}
     /\ \A l \in DOMAIN exprs : ExtractLocals(Append(source, l), exprs).error = "duplicate"

\* The file that create writes into the bundle needs no other file, and every local and
\* every attribute has in it the value it has in the file of the author.
MaterializedAgrees(source, file) ==
  LET extracted == ExtractLocals(source, file.locals)
      written == MaterializeFileCalls(file, extracted)
      again == ExtractLocals(source, written.locals)
  IN extracted.error = "none" =>
       /\ ~RejectFileFunction(written)
       /\ again.error = "none" /\ again.locals = extracted.locals
       /\ \A a \in DOMAIN file.attributes :
            Value(written.attributes[a], again.locals) = Value(file.attributes[a], extracted.locals)
=============================================================================
