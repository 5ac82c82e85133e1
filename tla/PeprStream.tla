----------------------------- MODULE PeprStream -----------------------------
(***************************************************************************)
(* `uds monitor pepr` (pkg/legacy/engine/{stream,pepr}): one goroutine per *)
(* pod of the Pepr system reads a log, and when following a flusher prints *)
(* pending repeats every second.  All of them share one StreamReader, whose*)
(* last entry and repeat counter are written under a mutex and read        *)
(* without it, so every such read and write is a step of its own.          *)
(*                                                                         *)
(* A log line is a record: what it reports (msg, verdict), about which     *)
(* resource (ns, name), and its text.  What is written is a record too,    *)
(* either an entry or a count; colours, indents and timestamps are left    *)
(* out.                                                                    *)
(***************************************************************************)
EXTENDS Integers, Sequences, FiniteSets

CONSTANTS
    Pods,       \* the pods there may be
    Flusher,    \* the goroutine that flushes
    Settings    \* what the command is given: see SettingsOK

Kinds == {"any", "policies", "operator", "allowed", "denied", "mutated", "failed"}

\* A line that none of the four patterns matches is "other"; one that is matched
\* and is no JSON object is "garbled".
Messages == {"response", "processing", "status", "event", "garbled", "other"}

IsLine(l) == /\ DOMAIN l = {"msg", "verdict", "ns", "name", "text"}
             /\ l.msg \in Messages

ASSUME SettingsOK ==
    /\ Flusher \notin Pods /\ "free" \notin Pods \cup {Flusher}
    /\ \A s \in Settings :
          /\ s.kind \in Kinds
          /\ s.follow \in BOOLEAN /\ s.json \in BOOLEAN
          /\ s.namespaces \subseteq STRING   \* those the filter lets through
          /\ DOMAIN s.logs \subseteq Pods    \* the pods that exist
          /\ DOMAIN s.label = DOMAIN s.logs
          /\ \A p \in DOMAIN s.logs :
                /\ Len(s.logs[p]) \in Nat
                /\ \A i \in DOMAIN s.logs[p] : IsLine(s.logs[p][i])

VARIABLES
    setting,     \* the member of Settings this run is given
    at,          \* where each pod's goroutine and the flusher are
    main,        \* where Start is: "wait", "returned", "exited"
    stopping,    \* the flusher has seen stopChan closed
    pos,         \* the lines each goroutine has scanned
    lastHeader,  \* StreamReader.lastEntryHeader
    lastBody,    \* StreamReader.lastEntryBody
    repeatCount, \* StreamReader.repeatCount
    body,        \* the body a goroutine has rendered
    bumped,      \* the value a goroutine is about to store in repeatCount
    mutex,       \* the holder of StreamReader.mutex, or "free"
    out,         \* what has been written to the terminal
    suppressed   \* how many events were taken for repeats (history)

streamVars == <<setting, at, main, stopping, pos, lastHeader, lastBody, repeatCount, body, bumped,
          mutex, out, suppressed>>

Procs == Pods \cup {Flusher}

-----------------------------------------------------------------------------
(* Which pods are read, and which lines are shown.                          *)

\* PodFilter: the admission controller's log, the watcher's, or both.
WantsAdmission(kind) == kind # "operator"
WantsWatcher(kind) == kind \in {"operator", "failed", "any"}

Containers(s) == {p \in DOMAIN s.logs : \/ s.label[p] = "admission" /\ WantsAdmission(s.kind)
                                        \/ s.label[p] = "watcher" /\ WantsWatcher(s.kind)}

\* The enableLog flags of LogStream.
OperatorAny(kind)     == kind \in {"operator", "any"}
OperatorFailure(kind) == kind \in {"failed", "operator", "any"}
Mutate(kind)          == kind \in {"mutated", "policies", "any"}
Allow(kind)           == kind \in {"allowed", "policies", "any"}
Deny(kind)            == kind \in {"denied", "policies", "any", "failed"}

\* skipResource reads the namespace of the event, which a processing line, whose
\* resource is in its metadata, does not have: "" contains no filter but the empty one.
\* (The filter lets through every namespace that contains it, in whatever case.  The
\* command gives no filter for names.)
SkipResource(s, l) == (IF l.msg = "processing" THEN "" ELSE l.ns) \notin s.namespaces

\* The switch over the kinds of line: the first case that applies names the entry.
\* A patched response is an allowed one as well, if mutations are not asked for.
Category(kind, l) ==
    CASE l.msg = "processing" /\ OperatorAny(kind) -> "OPERATOR"
      [] l.msg = "status" /\ (l.verdict = "failed" \/ OperatorAny(kind)) -> "OPERATOR"
      [] l.msg = "event" /\ OperatorFailure(kind) -> "OPERATOR"
      [] l.msg = "response" /\ l.verdict = "patched" /\ Mutate(kind) -> "MUTATED"
      [] l.msg = "response" /\ Allow(kind) /\ \/ l.verdict = "allowed"
                                              \/ l.verdict = "patched" /\ ~Mutate(kind) -> "ALLOWED"
      [] l.msg = "response" /\ Deny(kind) /\ l.verdict = "denied" -> "DENIED"
      [] OTHER -> "none"

\* The rendered header, and the text of the body; an ALLOWED entry has none.
Header(kind, l) == <<Category(kind, l), l.ns, l.name>>
Text(kind, l) == IF Category(kind, l) = "ALLOWED" THEN "" ELSE l.text

\* renderMutation iterates a map of operations: a patch that adds and removes ("mixed")
\* is rendered in either order, so one event need not look like its repetition.
Bodies(kind, l) == IF Category(kind, l) = "MUTATED" /\ l.text = "mixed"
                   THEN {<<l.text, "add first">>, <<l.text, "remove first">>}
                   ELSE {<<Text(kind, l), "">>}

NoBody == <<"", "">>

Matched(l) == l.msg # "other"

\* A line for which the loop body reaches the comparison with the last entry.
Shown(s, l) == /\ Matched(l)
               /\ l.msg # "garbled"
               /\ ~SkipResource(s, l)
               /\ Category(s.kind, l) # "none"

-----------------------------------------------------------------------------
StreamInit ==
    /\ setting \in Settings
    /\ at = [x \in Procs |-> IF x \in Containers(setting) THEN "open"
                             ELSE IF x = Flusher /\ setting.follow THEN "idle"
                             ELSE "done"]
    /\ main = "wait"
    /\ stopping = FALSE
    /\ pos = [p \in Pods |-> 0]
    /\ lastHeader = <<>> /\ lastBody = NoBody
    /\ repeatCount = 0
    /\ body = [p \in Pods |-> NoBody]
    /\ bumped = [p \in Pods |-> 0]
    /\ mutex = "free"
    /\ out = <<>>
    /\ suppressed = 0

Move(x, l) == at' = [at EXCEPT ![x] = l]
Running == main # "exited"
At(x, l) == Running /\ at[x] = l

Log(p) == setting.logs[p]
Line(p) == Log(p)[pos[p] + 1]
MyHeader(p) == Header(setting.kind, Line(p))

\* GetLogs(...).Stream: a pod whose log cannot be opened is left out with a warning.
Open(p) ==
    /\ At(p, "open")
    /\ \/ Move(p, "scan")
       \/ Move(p, "done")
    /\ UNCHANGED <<setting, main, stopping, pos, lastHeader, lastBody, repeatCount, body, bumped, mutex, out, suppressed>>

\* A line that is not shown, or is passed on as it is with --json, whatever the filters.
Pass(p) ==
    /\ At(p, "scan")
    /\ pos[p] < Len(Log(p))
    /\ setting.json \/ ~Shown(setting, Line(p))
    /\ out' = IF setting.json /\ Matched(Line(p))
              THEN Append(out, [type |-> "raw", pod |-> p, line |-> Line(p)]) ELSE out
    /\ pos' = [pos EXCEPT ![p] = @ + 1]
    /\ UNCHANGED <<setting, at, main, stopping, lastHeader, lastBody, repeatCount, body, bumped, mutex, suppressed>>

\* The body is rendered, then p.lastEntryHeader == header && ...
CompareHeader(p) ==
    /\ At(p, "scan")
    /\ pos[p] < Len(Log(p))
    /\ ~setting.json /\ Shown(setting, Line(p))
    /\ \E b \in Bodies(setting.kind, Line(p)) : body' = [body EXCEPT ![p] = b]
    /\ Move(p, IF lastHeader = MyHeader(p) THEN "body" ELSE "differs")
    /\ UNCHANGED <<setting, main, stopping, pos, lastHeader, lastBody, repeatCount, bumped, mutex, out, suppressed>>

\* Faulty variant: only the headers are compared.
AnyBody(p) == TRUE
SameBody(p) == lastBody = body[p]

\* ... p.lastEntryBody == body
CompareBody(p) ==
    /\ At(p, "body")
    /\ Move(p, IF SameBody(p) THEN "repeats" ELSE "differs")
    /\ UNCHANGED <<setting, main, stopping, pos, lastHeader, lastBody, repeatCount, body, bumped, mutex, out, suppressed>>

\* The argument of updateRepeatCount(p.repeatCount + 1) ...
ReadCount(p) ==
    /\ At(p, "repeats")
    /\ bumped' = [bumped EXCEPT ![p] = repeatCount + 1]
    /\ suppressed' = suppressed + 1
    /\ Move(p, "bump")
    /\ UNCHANGED <<setting, main, stopping, pos, lastHeader, lastBody, repeatCount, body, mutex, out>>

\* ... and its body.
WriteCount(p) ==
    /\ At(p, "bump")
    /\ mutex = "free"
    /\ repeatCount' = bumped[p]
    /\ bumped' = [bumped EXCEPT ![p] = 0]
    /\ pos' = [pos EXCEPT ![p] = @ + 1]
    /\ Move(p, "scan")
    /\ UNCHANGED <<setting, main, stopping, lastHeader, lastBody, body, mutex, out, suppressed>>

\* Where a goroutine goes on after writeRepeatedEvent: a pod's to its own entry, the
\* flusher to its loop, or out of it after the deferred flush.
After(x) == IF x \in Pods THEN "replace" ELSE IF stopping THEN "done" ELSE "idle"

\* Faulty variant: a single repeat is taken for none.
PendingSeveral == repeatCount > 1
Pending == repeatCount > 0

\* writeRepeatedEvent: if p.repeatCount > 0.
TestCount(x) ==
    /\ At(x, "differs")
    /\ Move(x, IF Pending THEN "report" ELSE After(x))
    /\ UNCHANGED <<setting, main, stopping, pos, lastHeader, lastBody, repeatCount, body, bumped, mutex, out, suppressed>>

\* Faulty variant: how often the event was seen, not how often it was repeated.
Occurrences == repeatCount + 1
Printed == repeatCount

\* The counter is read once more for the message, which is written in one call.
Report(x) ==
    /\ At(x, "report")
    /\ out' = Append(out, [type |-> "count", count |-> Printed])
    /\ Move(x, "reset")
    /\ UNCHANGED <<setting, main, stopping, pos, lastHeader, lastBody, repeatCount, body, bumped, mutex, suppressed>>

\* Faulty variant: the counter is left as it is.
NotReset == repeatCount
AfterReset == 0

\* updateRepeatCount(0).
Reset(x) ==
    /\ At(x, "reset")
    /\ mutex = "free"
    /\ repeatCount' = AfterReset
    /\ Move(x, "clear")
    /\ UNCHANGED <<setting, main, stopping, pos, lastHeader, lastBody, body, bumped, mutex, out, suppressed>>

\* updateLastEntry: two assignments under the mutex, which readers do not take.
SetHeader(x, from, to, h) ==
    /\ At(x, from)
    /\ mutex = "free"
    /\ mutex' = x
    /\ lastHeader' = h
    /\ Move(x, to)
    /\ UNCHANGED <<setting, main, stopping, pos, lastBody, repeatCount, body, bumped, out, suppressed>>

SetBody(x, from, to, b) ==
    /\ At(x, from)
    /\ mutex' = "free"
    /\ lastBody' = b
    /\ Move(x, to)
    /\ UNCHANGED <<setting, main, stopping, pos, lastHeader, repeatCount, body, bumped, out, suppressed>>

Clear(x) == \/ SetHeader(x, "clear", "clearing", <<>>)
            \/ SetBody(x, "clearing", After(x), NoBody)

Replace(p) == \/ SetHeader(p, "replace", "replacing", MyHeader(p))
              \/ SetBody(p, "replacing", "write", body[p])

\* The entry is written last, after the shared last entry already names it.  The number of
\* its line is not printed.
WriteEntry(p) ==
    /\ At(p, "write")
    /\ out' = Append(out, [type |-> "entry", pod |-> p, line |-> pos[p] + 1,
                              header |-> MyHeader(p), body |-> body[p]])
    /\ pos' = [pos EXCEPT ![p] = @ + 1]
    /\ Move(p, "scan")
    /\ UNCHANGED <<setting, main, stopping, lastHeader, lastBody, repeatCount, body, bumped, mutex, suppressed>>

\* The end of the log.  When following, it comes only if the pod goes away.
EndOfLog(p) ==
    /\ At(p, "scan")
    /\ pos[p] = Len(Log(p))
    /\ Move(p, "done")
    /\ UNCHANGED <<setting, main, stopping, pos, lastHeader, lastBody, repeatCount, body, bumped, mutex, out, suppressed>>

\* The connection breaks or a line is longer than the buffer (scanner.Err), or the
\* entry cannot be written: LogStream returns an error, of which Start only warns.
Break(p) ==
    /\ At(p, "scan") \/ At(p, "write")
    /\ Move(p, "done")
    /\ UNCHANGED <<setting, main, stopping, pos, lastHeader, lastBody, repeatCount, body, bumped, mutex, out, suppressed>>

\* The flusher's select: a tick, or the end of the stream with the deferred LogFlush.
\* The context is context.TODO() and never done.
Tick ==
    /\ At(Flusher, "idle")
    /\ Move(Flusher, "differs")
    /\ UNCHANGED <<setting, main, stopping, pos, lastHeader, lastBody, repeatCount, body, bumped, mutex, out, suppressed>>

\* The deferred flush is the same routine, and the end of the goroutine.
StopFlushing ==
    /\ At(Flusher, "idle")
    /\ main = "returned"
    /\ stopping' = TRUE
    /\ Move(Flusher, "differs")
    /\ UNCHANGED <<setting, main, pos, lastHeader, lastBody, repeatCount, body, bumped, mutex, out, suppressed>>

\* Start: wg.Wait, close(stopChan), return.
Return ==
    /\ main = "wait"
    /\ \A p \in Pods : at[p] = "done"
    /\ main' = "returned"
    /\ UNCHANGED <<setting, at, stopping, pos, lastHeader, lastBody, repeatCount, body, bumped, mutex, out, suppressed>>

\* The command returns and the process ends, wherever the flusher is.
Exit ==
    /\ main = "returned"
    /\ main' = "exited"
    /\ UNCHANGED <<setting, at, stopping, pos, lastHeader, lastBody, repeatCount, body, bumped, mutex, out, suppressed>>

StreamOver == main = "exited" /\ UNCHANGED streamVars

Pod(p) ==
    \/ Open(p) \/ Pass(p)
    \/ CompareHeader(p) \/ CompareBody(p) \/ ReadCount(p) \/ WriteCount(p)
    \/ TestCount(p) \/ Report(p) \/ Reset(p) \/ Clear(p) \/ Replace(p) \/ WriteEntry(p)

Flush ==
    \/ Tick \/ StopFlushing
    \/ TestCount(Flusher) \/ Report(Flusher) \/ Reset(Flusher) \/ Clear(Flusher)

StreamNext ==
    \/ \E p \in Pods : Pod(p) \/ EndOfLog(p) \/ Break(p)
    \/ Flush
    \/ Return \/ Exit
    \/ StreamOver

\* Goroutines run, and the ticker fires.  A log that is followed need not end, and
\* connections need not break.
Fairness ==
    /\ \A p \in Pods : WF_streamVars(Pod(p))
    /\ WF_streamVars(Flush)
    /\ WF_streamVars(Return) /\ WF_streamVars(Exit)

StreamSpec == StreamInit /\ [][StreamNext]_streamVars /\ Fairness

-----------------------------------------------------------------------------
(* Properties.                                                              *)

Reading == Containers(setting)

\* The lines of a pod that have been dealt with, written or counted as repeats, and what
\* such a line tells.
Told(p) == {n \in 1 .. pos[p] : Shown(setting, Log(p)[n])}
Event(p, n) == <<Header(setting.kind, Log(p)[n]), Text(setting.kind, Log(p)[n])>>

Entries == {i \in DOMAIN out : out[i].type = "entry"}
Counted == {i \in DOMAIN out : out[i].type = "count"}

\* Line n looks like line m.  A patch that cannot be decoded is rendered as nothing, which is
\* also what a flush leaves as the last body: when it comes between the comparison of the
\* headers and that of the bodies, such a line is taken for a repetition of whatever has its
\* header.
Alike(p, m, n) ==
    \/ Event(p, n) = Event(p, m)
    \/ setting.follow /\ Event(p, n)[1] = Event(p, m)[1] /\ Event(p, n)[2] = ""

\* Line n is the repetition of the one that was shown before it, m.
Repeats(p, m, n) == m < n /\ Alike(p, m, n) /\ \A k \in Told(p) : k <= m \/ n <= k

\* The lines that were told after entry i and are in no entry, and how many of them are
\* reported.
LeftOut(p, i) == {n \in Told(p) : /\ out[i].line < n
                                 /\ \A j \in Entries : i < j => n < out[j].line}
Reported(i) == IF i + 1 \in Counted THEN out[i + 1].count ELSE 0

Types ==
    /\ setting \in Settings
    /\ main \in {"wait", "returned", "exited"} /\ stopping \in BOOLEAN
    /\ \A p \in Reading : pos[p] \in 0 .. Len(Log(p))
    /\ mutex \in Procs \cup {"free"}
    /\ repeatCount \in Nat /\ suppressed \in Nat
    /\ \A x \in Procs : (mutex = x) <=> (at[x] \in {"clearing", "replacing"})

\* The counter may lose and double repeats (LogStream, LogFlush and other pods read it
\* without the mutex), but no count, stored or printed, is larger than the number of
\* events taken for repeats so far: a value read before a reset and stored after it is
\* old, not made up.
CountsAreReal ==
    /\ Types
    /\ repeatCount <= suppressed
    /\ \A p \in Pods : bumped[p] <= suppressed
    /\ \A i \in DOMAIN out : out[i].type = "count" => out[i].count <= suppressed

\* With one container to read, flusher or not, what the terminal shows is the story the
\* log tells: its entries are lines of the log, in their order, and none is left out but the
\* repetition of the one before it (LogStream's comparison against a last entry that the
\* flusher clears).  Without a flusher the counts are exact: a count follows the entry it is
\* about, and together with the repeats still pending after the last one it is the number
\* of lines left out there (updateRepeatCount, writeRepeatedEvent).
StoryKept ==
    \A p \in Pods : Reading = {p} /\ ~setting.json =>
        /\ \A i \in Entries : /\ out[i].line \in Told(p)
                              /\ <<out[i].header, out[i].body[1]>> = Event(p, out[i].line)
                              /\ \A j \in Entries : i < j => out[i].line < out[j].line
        /\ \A n \in Told(p) : \/ \E i \in Entries : out[i].line = n
                              \/ \E m \in Told(p) : Repeats(p, m, n)
        /\ at[p] = "scan" /\ ~setting.follow =>
              /\ \A i \in Counted : i - 1 \in Entries
              /\ \A i \in Entries : Cardinality(LeftOut(p, i))
                                      = Reported(i) + (IF i = Len(out) THEN repeatCount ELSE 0)

\* When following, a repeat does not wait for the next event: it is printed, or the
\* stream is over (the flusher's tick in Start).
FlushedEventually ==
    setting.follow => (repeatCount > 0 ~> (repeatCount = 0 \/ main # "wait"))
=============================================================================
