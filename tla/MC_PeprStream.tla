---------------------------- MODULE MC_PeprStream ----------------------------
(***************************************************************************)
(* Instances of PeprStream.  Every log of up to three lines over an allowed*)
(* event and two denials of one resource, read alone, with and without the *)
(* flusher, and patches that render in two ways or not at all; one log with*)
(* every kind of line under every stream, filter and format; and two pods  *)
(* side by side.                                                           *)
(***************************************************************************)
EXTENDS PeprStream, SequencesExt

CONSTANTS p1, p2, flusher

L(msg, verdict, ns, name, text) ==
    [msg |-> msg, verdict |-> verdict, ns |-> ns, name |-> name, text |-> text]

allowed == L("response", "allowed", "app", "web", "")
denied  == L("response", "denied", "app", "web", "root")
denied2 == L("response", "denied", "app", "web", "port")
other   == L("response", "denied", "db", "sql", "root")
mutated == L("response", "patched", "app", "web", "mixed")
patched == L("response", "patched", "app", "web", "add")
broken  == L("response", "patched", "app", "web", "")

everyKind == << L("other", "", "", "", ""), L("processing", "", "app", "web", "go"),
                L("processing", "", "app", "web", "go"), L("status", "good", "app", "web", "ready"),
                L("status", "failed", "app", "web", "bad"), L("garbled", "", "", "", ""),
                L("event", "", "db", "sql", "oops"), mutated, mutated, allowed, denied, other >>

(* No filter, one that only the namespace "app" contains, and one that all *)
(* of them contain.                                                        *)
Unfiltered == {"", "app", "db"}
Filters == {Unfiltered, {"app"}, {"app", "db"}}

S(kind, follow, json, namespaces, labels, logs) ==
    [kind |-> kind, follow |-> follow, json |-> json, namespaces |-> namespaces,
     label |-> labels, logs |-> logs]

Alone(log) == [p \in {p1} |-> log]
Both(a, b) == [p \in {p1, p2} |-> IF p = p1 THEN a ELSE b]
Label(a, b) == [p \in {p1, p2} |-> IF p = p1 THEN a ELSE b]

OnePod == {S("any", f, FALSE, Unfiltered, Alone("admission"), Alone(log)) :
              f \in BOOLEAN, log \in BoundedSeq({allowed, denied, denied2}, 3)
                                               \cup {<<mutated, mutated, mutated>>, <<patched, patched, broken, broken>>}}

EveryStream == {S(k, f, j, n, Label(l, "watcher"), Both(everyKind, <<allowed>>)) :
                  k \in Kinds, f \in {FALSE}, j \in BOOLEAN, n \in Filters,
                  l \in {"admission", "none"}}

TwoPods == {S("any", f, FALSE, Unfiltered, Label("admission", "watcher"), Both(a, b)) :
               f \in BOOLEAN,
               a \in {<<allowed, allowed>>, <<denied, denied2>>},
               b \in {<<allowed>>, <<other, other>>}}

MC_Pods == {p1, p2}
MC_Settings == OnePod \cup EveryStream \cup TwoPods
=============================================================================
