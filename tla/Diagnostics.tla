----------------------------- MODULE Diagnostics -----------------------------
(***************************************************************************)
(* The remote diagnostic (protocol/diagnostics.go): PSP's request document *)
(* is decoded and validated by the agent, the agent collects, drops events *)
(* until the result fits, encodes it, and PSP decodes and validates that.  *)
(* Both documents go through the exact decoder (protocol/upgrade.go),      *)
(* which reads one field at a time; either may have been written by a peer *)
(* that shares no code with this one.                                      *)
(*                                                                         *)
(* A document is the sequence of its fields and what follows the object;   *)
(* Nil is null, Mistyped a value of the wrong JSON type.  An object below  *)
(* a field says of each name what it gives it, in order: nothing if the    *)
(* name is missing, several values if it comes again.  The host sample is  *)
(* an atom.  The codes of events and checks are numbers in their lexical   *)
(* order, zero for "", a summary is its length, and the size of a result   *)
(* is that of its events.                                                  *)
(***************************************************************************)
EXTENDS Integers, Sequences, FiniteSets

CONSTANTS Nil, Mistyped,
          Requests,            \* documents a peer may send as a request
          Logs,                \* sequences of events an agent may have observed
          EventCodes, CheckCodes,
          MaxDiagnosticsSections, MaxDiagnosticsEvents, MaxDiagnosticsSummaryBytes,
          Room                 \* what MaxDiagnosticsResultBytes leaves for events

VARIABLES log,                 \* events in the order the agent observed them
          what,                \* the document under way: "args" or "result"
          wire, pos, seen,     \* ... and how far its decoder is
          stage,
          args, result,        \* as the agent decoded the one and made the other
          own                  \* the result is the agent's own document

vars == <<log, what, wire, pos, seen, stage, args, result, own>>

Sections == {"host", "runtime", "state", "events"}

IsDiagnosticsSection(name) == name \in Sections

Elements(s) == {s[k] : k \in DOMAIN s}

-----------------------------------------------------------------------------
(* The fields of DiagnosticsArgs and of DiagnosticsResult, in the order of *)
(* the structs, and their zero values.                                     *)

FieldOrder ==
  [ args   |-> <<"schema_version", "sections", "max_events">>,
    result |-> <<"schema_version", "collected_at_ms", "recovered", "truncated",
                 "host", "runtime", "state", "events", "checks">> ]

Zero ==
  [ args   |-> [schema_version |-> 0, sections |-> <<>>, max_events |-> 0],
    result |-> [schema_version |-> 0, collected_at_ms |-> 0, recovered |-> FALSE,
                truncated |-> FALSE, host |-> Nil, runtime |-> Nil, state |-> Nil,
                events |-> <<>>, checks |-> <<>>] ]

(* Mutant: no field may be absent, as in every other document. *)
NothingMayBeOmitted(w) == {}

MayOmit(w) == IF w = "result" THEN Sections ELSE {}

(* The zero values of the structs below a field, by the field's key: of    *)
(* the object it holds, or of each element of the list it holds.           *)
ZeroBelow ==
  [ runtime |-> [core_state |-> "", core_config_digest |-> ""],
    state   |-> [sqlite_quick_check |-> "", outbox_pending |-> 0, tasks_queued |-> 0],
    events  |-> [code |-> 0, at |-> 0, severity |-> "", summary |-> 0],
    checks  |-> [code |-> 0, status |-> "", summary |-> 0] ]

HoldsObject(key) == key \in {"runtime", "state"}
HoldsList(key)   == key \in {"events", "checks"}

(* json.Unmarshal into a struct: the last value of a name that is not null *)
(* wins, a missing name keeps its zero value, an unknown one is ignored    *)
(* (names match in any case, and a null element is an object without any). *)
LastOf(given, zero) ==
  LET at == {k \in DOMAIN given : given[k] # Nil}
  IN  IF at = {} THEN zero ELSE given[CHOOSE k \in at : \A j \in at : j <= k]

ReadObject(zero, object) ==
  [name \in DOMAIN zero |->
     LastOf(IF name \in DOMAIN object THEN object[name] ELSE <<>>, zero[name])]

Reading(key, v) ==
  CASE HoldsObject(key) -> ReadObject(ZeroBelow[key], v)
    [] HoldsList(key)   -> [k \in DOMAIN v |-> ReadObject(ZeroBelow[key], v[k])]
    [] OTHER            -> v

(* What json.Unmarshal leaves of a document whose fields were exact.       *)
ValueIn(doc, key, zero) ==
  LET at == {k \in DOMAIN doc.fields : doc.fields[k].key = key}
  IN  IF at = {} THEN zero
      ELSE LET v == doc.fields[CHOOSE k \in at : \A j \in at : j <= k].value
           IN  IF v = Nil THEN zero ELSE Reading(key, v)

Unmarshal(w, doc) == [key \in Elements(FieldOrder[w]) |-> ValueIn(doc, key, Zero[w][key])]

(* json.Marshal of a struct: each name once.                               *)
WriteObject(r) == [name \in DOMAIN r |-> <<r[name]>>]

Written(key, v) ==
  CASE v # Nil /\ HoldsObject(key) -> WriteObject(v)
    [] v # Nil /\ HoldsList(key)   -> [k \in DOMAIN v |-> WriteObject(v[k])]
    [] OTHER                       -> v

(* json.Marshal: the section fields carry omitempty.                       *)
Marshal(r) ==
  LET Kept(key) == ~(key \in Sections /\ r[key] \in {Zero.result[key]})
      kept      == {k \in DOMAIN FieldOrder.result : Kept(FieldOrder.result[k])}
      Key(n)    == FieldOrder.result[CHOOSE k \in kept : 1 + Cardinality({j \in kept : j < k}) = n]
  IN  [ fields   |-> [n \in 1..Cardinality(kept) |-> [key |-> Key(n), value |-> Written(Key(n), r[Key(n)])]],
        trailing |-> FALSE ]

-----------------------------------------------------------------------------
(* The validators *)

ValidateDiagnosticsArgs(a) ==
  /\ a.schema_version = 1
  /\ Len(a.sections) <= MaxDiagnosticsSections
  /\ \A s \in Elements(a.sections) : IsDiagnosticsSection(s)
  /\ Cardinality(Elements(a.sections)) = Len(a.sections)
  /\ a.max_events \in 0..MaxDiagnosticsEvents

ValidEvent(e) ==
  /\ e.code \in EventCodes
  /\ e.severity \in {"info", "warning", "error"}
  /\ e.at > 0
  /\ e.summary <= MaxDiagnosticsSummaryBytes

(* The full set, once each, in order. *)
ValidateDiagnosticsChecks(checks) ==
  /\ Len(checks) = Len(CheckCodes)
  /\ \A k \in DOMAIN checks :
       /\ checks[k].code = CheckCodes[k]
       /\ checks[k].status \in {"ok", "warning", "failed", "unavailable"}
       /\ checks[k].summary <= MaxDiagnosticsSummaryBytes

ValidateDiagnosticsResult(r) ==
  /\ r.schema_version = 1
  /\ r.collected_at_ms > 0
  /\ r.runtime # Nil => r.runtime.core_state # ""
  /\ r.state # Nil => /\ r.state.sqlite_quick_check # ""
                      /\ r.state.outbox_pending >= 0 /\ r.state.tasks_queued >= 0
  /\ Len(r.events) <= MaxDiagnosticsEvents
  /\ ~(r.truncated /\ r.events = <<>>)
  /\ \A e \in Elements(r.events) : ValidEvent(e)
  /\ ValidateDiagnosticsChecks(r.checks)

-----------------------------------------------------------------------------
(* SortDiagnosticsEvents: a stable sort, oldest first, ties by code.       *)

Before(s, j, k) ==
  \/ s[j].at < s[k].at
  \/ s[j].at = s[k].at /\ (s[j].code < s[k].code \/ (s[j].code = s[k].code /\ j < k))

SortDiagnosticsEvents(s) ==
  LET Rank(k) == 1 + Cardinality({j \in DOMAIN s : Before(s, j, k)})
  IN  [n \in DOMAIN s |-> s[CHOOSE k \in DOMAIN s : Rank(k) = n]]

Newest(s, n) == IF Len(s) <= n THEN s ELSE SubSeq(s, Len(s) - n + 1, Len(s))

(* What is left when events were dropped from the front until they fit.    *)
Fitting(s) ==
  LET Sum[k \in 0..Len(s)] == IF k = 0 THEN 0 ELSE s[k].summary + Sum[k - 1]
      Fits(n) == Sum[Len(s)] - Sum[Len(s) - n] <= Room
  IN  Newest(s, CHOOSE n \in 0..Len(s) :
                  Fits(n) /\ \A m \in 0..Len(s) : Fits(m) => m <= n)

-----------------------------------------------------------------------------
Init ==
  /\ log \in Logs
  /\ wire \in Requests
  /\ what = "args" /\ pos = 0 /\ seen = {} /\ stage = "reading"
  /\ args = Zero.args /\ result = Zero.result /\ own = FALSE

TakesField(f) ==
  /\ f.key \in Elements(FieldOrder[what]) \ seen
  /\ f.value # Mistyped

ReadField ==
  /\ stage = "reading" /\ pos < Len(wire.fields)
  /\ LET f == wire.fields[pos + 1]
     IN  IF TakesField(f)
           THEN seen' = seen \cup {f.key} /\ pos' = pos + 1 /\ UNCHANGED stage
           ELSE stage' = "refused" /\ UNCHANGED <<seen, pos>>
  /\ UNCHANGED <<log, what, wire, args, result, own>>

(* The end of the object: nothing may follow, and no field be missing.     *)
EndOfDocument ==
  /\ stage = "reading" /\ pos = Len(wire.fields)
  /\ stage' = IF ~wire.trailing /\ Elements(FieldOrder[what]) \ seen \subseteq MayOmit(what)
                THEN "decoded" ELSE "refused"
  /\ UNCHANGED <<log, what, wire, pos, seen, args, result, own>>

(* The agent refuses the task, or runs it.                                 *)
ValidateArgs ==
  /\ what = "args" /\ stage = "decoded"
  /\ args' = Unmarshal("args", wire)
  /\ stage' = IF ValidateDiagnosticsArgs(args') THEN "collecting" ELSE "refused"
  /\ UNCHANGED <<log, what, wire, pos, seen, result, own>>

Asked(section) == section \in Elements(args.sections)

(* What the agent finds, as far as it can.                                 *)
Found ==
  [ host    |-> "sample",
    runtime |-> [core_state |-> "running", core_config_digest |-> "digest"],
    state   |-> [sqlite_quick_check |-> "ok", outbox_pending |-> 0, tasks_queued |-> 0] ]

(* What is asked for is collected, or cannot be; the checks always are.    *)
Collect ==
  /\ stage = "collecting"
  /\ \E host \in {Nil, Found.host}, status \in {"ok", "unavailable"}, recovered \in BOOLEAN :
       LET events == IF Asked("events")
                       THEN Newest(SortDiagnosticsEvents(log), args.max_events) ELSE <<>>
       IN  result' =
             [ schema_version |-> 1, collected_at_ms |-> 1, recovered |-> recovered,
               truncated |-> Fitting(events) # events,
               host      |-> IF Asked("host") THEN host ELSE Nil,
               runtime   |-> IF Asked("runtime") THEN Found.runtime ELSE Nil,
               state     |-> IF Asked("state") THEN Found.state ELSE Nil,
               events    |-> Fitting(events),
               checks    |-> [k \in DOMAIN CheckCodes |->
                                [code |-> CheckCodes[k], status |-> status, summary |-> 0]] ]
  /\ wire' = Marshal(result') /\ own' = TRUE
  /\ what' = "result" /\ pos' = 0 /\ seen' = {} /\ stage' = "reading"
  /\ UNCHANGED <<log, args>>

(* The same object in the hands of another peer: one name is missing, or   *)
(* comes twice, with its zero value before or after, or one is unknown.    *)
Rephrased(zero, object) ==
  LET Given(name) == {<<>>, <<zero[name]>> \o object[name], Append(object[name], zero[name])}
  IN  UNION {{[object EXCEPT ![name] = given] : given \in Given(name)} : name \in DOMAIN zero}
      \cup {[name \in DOMAIN object \cup {"other"} |->
               IF name = "other" THEN <<Nil>> ELSE object[name]]}

(* Of a list, the first element.                                           *)
RephrasedBelow(f) ==
  CASE HoldsObject(f.key) -> Rephrased(ZeroBelow[f.key], f.value)
    [] HoldsList(f.key) /\ f.value # <<>> ->
         {[f.value EXCEPT ![1] = object] : object \in Rephrased(ZeroBelow[f.key], f.value[1])}
    [] OTHER -> {}

(* The document is another peer's: one field was left out, came again with *)
(* another value, is null, of the wrong type, unknown or inexact below, or *)
(* something follows the object.                                           *)
Rewrite(d) ==
  LET fields == d.fields
  IN  {[d EXCEPT !.trailing = TRUE]}
      \cup {[d EXCEPT !.fields = SubSeq(fields, 1, k - 1) \o SubSeq(fields, k + 1, Len(fields))] :
              k \in DOMAIN fields}
      \cup UNION {{[d EXCEPT !.fields[k].value = v] :
                     v \in {Nil, Mistyped} \cup RephrasedBelow(fields[k])} : k \in DOMAIN fields}
      \cup {[d EXCEPT !.fields = Append(fields, [key |-> key, value |-> Nil])] :
              key \in Elements(FieldOrder.result) \cup {"other"}}

Replace ==
  /\ own /\ stage = "reading" /\ pos = 0
  /\ wire' \in Rewrite(wire) /\ own' = FALSE
  /\ UNCHANGED <<log, what, pos, seen, stage, args, result>>

ValidateResult ==
  /\ what = "result" /\ stage = "decoded"
  /\ stage' = IF ValidateDiagnosticsResult(Unmarshal("result", wire)) THEN "accepted" ELSE "refused"
  /\ UNCHANGED <<log, what, wire, pos, seen, args, result, own>>

Next == ReadField \/ EndOfDocument \/ ValidateArgs \/ Collect \/ Replace \/ ValidateResult

Spec == Init /\ [][Next]_vars

-----------------------------------------------------------------------------
(* Properties *)

(* The objects below a field.                                              *)
ObjectsBelow(f) ==
  CASE f.value = Nil      -> {}
    [] HoldsObject(f.key) -> {f.value}
    [] HoldsList(f.key)   -> Elements(f.value)
    [] OTHER              -> {}

(* In a document PSP accepted, every object says exactly what its type     *)
(* has, each name once: a peer that takes the first of two values, one     *)
(* that takes the last and one that has no default understand the same     *)
(* (decodeExactObjectMayOmit: "A MISSING FIELD IS STILL AN ERROR BY        *)
(* DEFAULT", "Unknown fields, duplicates and trailing values are refused   *)
(* either way").                                                           *)
ExactAtEveryDepth ==
  stage = "accepted" =>
    \A k \in DOMAIN wire.fields : \A object \in ObjectsBelow(wire.fields[k]) :
      /\ DOMAIN object = DOMAIN ZeroBelow[wire.fields[k].key]
      /\ \A name \in DOMAIN object : Len(object[name]) = 1

(* Of the events an agent observed, the ones PSP accepts from it are the   *)
(* newest, oldest first, the lower code first among equals, and the rest   *)
(* is missing only for size or number (SortDiagnosticsEvents, the drop     *)
(* order both sides rely on).                                              *)
SurvivorsAreNewest ==
  stage = "accepted" /\ own =>
    LET events     == Unmarshal("result", wire).events
        Count(s, e) == Cardinality({k \in DOMAIN s : s[k] = e})
        dropped    == {e \in Elements(log) : Count(events, e) < Count(log, e)}
    IN  /\ \A k \in DOMAIN events : k > 1 =>
             \/ events[k - 1].at < events[k].at
             \/ events[k - 1].at = events[k].at /\ events[k - 1].code <= events[k].code
        /\ \A d \in dropped, e \in Elements(events) :
             d.at < e.at \/ (d.at = e.at /\ d.code <= e.code)

(* PSP accepts what an agent made of a valid request, whichever sections   *)
(* it was asked for and could collect, except when the limit left no event *)
(* of those it was asked for (ValidateDiagnosticsResult refuses a          *)
(* truncated result without events).                                       *)
OwnResultIsAccepted ==
  own /\ stage = "refused" => result.truncated /\ result.events = <<>>

(* The panel shows what the agent found: its own result arrives, with the  *)
(* newest of its events (DiagnosticsResult, "drop order").                 *)
OwnResultArrives == OwnResultIsAccepted /\ SurvivorsAreNewest
=============================================================================
