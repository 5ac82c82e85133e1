---------------------------- MODULE MC_LegacyBundle ----------------------------
(***************************************************************************)
(* Instances of LegacyBundle for TLC.                                      *)
(***************************************************************************)
EXTENDS LegacyBundle, TLC

Names == {"init", "core", "app"}
Namespaces == {"none", "own"}
Vars == {"X", "Y"}

Entry(name, ns, init, imports, exports) ==
  [name |-> name, ns |-> ns, init |-> init, imports |-> imports, exports |-> exports]

\* Three entries with distinct names, two of which export the same variable, and
\* a third that imports it from each; the second refused by validateBundleVars.
Chain(from) ==
  <<Entry("init", "none", TRUE, <<>>, {"X", "Y"}),
    Entry("core", "none", FALSE, "Y" :> "init", {"X"}),
    Entry("app", "own", FALSE, "X" :> from @@ "Y" :> "init", {})>>

\* One package in two namespaces, and one package twice.
Namespaced ==
  <<Entry("core", "none", FALSE, <<>>, {"X"}),
    Entry("core", "own", FALSE, "X" :> "core", {}),
    Entry("app", "none", FALSE, "X" :> "core", {})>>
Twice ==
  <<Entry("core", "none", FALSE, <<>>, {"X"}),
    Entry("app", "none", FALSE, <<>>, {}),
    Entry("core", "none", FALSE, <<>>, {})>>

EveryBundle == {Chain("core"), Chain("init"), Namespaced, Twice}

Command(op, packages, resume, dev, ref, user) ==
  [op |-> op, packages |-> packages, resume |-> resume, dev |-> dev, ref |-> ref, user |-> user]

\* The whole bundle or a selection: of one package, of two, and with a typing error.
Selections == {<<>>, <<"app">>, <<"core", "app">>, <<"core", "typo">>}

EveryCommand ==
  {Command("deploy", p, r, FALSE, {}, u) : p \in Selections, r \in BOOLEAN, u \in {{}, {"X"}}}
    \union {Command("deploy", <<>>, FALSE, TRUE, {"core"}, {})}
    \union {Command("remove", p, FALSE, FALSE, {}, {}) : p \in Selections}
=============================================================================
