------------------------------- MODULE Report -------------------------------
(***************************************************************************)
(* One NodeReport on its way from the agent to PSP (protocol/report.go,    *)
(* protocol/validate.go).  The agent validates it as a whole               *)
(* (ValidateNodeReport) and encodes it in one of two shapes (MarshalJSON); *)
(* PSP decodes what came, validates the control half                       *)
(* (ValidateNodeReportBase) and, apart from it, the host subtree.  A peer  *)
(* that validates nothing sends its report as it is.                       *)
(*                                                                         *)
(* Both validators are the same sequence of loops: a step is one stage     *)
(* that is no loop, or one entry of a list.  A slice is a sequence or Nil; *)
(* an encoded report is the function of the keys that are present.  Text   *)
(* is a member of a small set named for what the checks tell apart; task   *)
(* results, whose validators Outbox models, and the host subtree, which    *)
(* HostTelemetry models, are good or bad.                                  *)
(***************************************************************************)
EXTENDS Integers, Sequences, FiniteSets

CONSTANTS Reports,     \* reports an agent may build
          Nil,         \* a nil slice, or a nil pointer
          Limit        \* MaxCapabilitiesPerReport, MaxIssuesPerReport, ...

Streams == {"config", "roster", "directives"}

VARIABLES report,      \* what the agent built
          sender,      \* "checking", or "careless": one that validates nothing
          wire,        \* what is on the wire: a function of keys
          subject,     \* the report being validated
          at,          \* "agent", "psp" or "done"
          stage, i, seen,
          verdict      \* PSP's answer to the control half

vars == <<report, sender, wire, subject, at, stage, i, seen, verdict>>

Items(slice)    == IF slice = Nil THEN <<>> ELSE slice
Elements(slice) == {Items(slice)[k] : k \in DOMAIN Items(slice)}

-----------------------------------------------------------------------------
(* MarshalJSON and the decoder *)

Enumerations == {"objects", "listener_counters", "clients"}

(* The value a decoder leaves where a key is absent. *)
ZeroValue ==
  [ agent_id |-> "", protocol_version |-> 0, reported_at_ms |-> 0, agent_version |-> "",
    core_engine |-> "", core_version |-> "", core_state |-> "", capabilities |-> Nil,
    partial |-> FALSE, have |-> <<>>, objects |-> Nil, listener_counters |-> Nil,
    clients |-> Nil, subjects |-> Nil, host |-> Nil, issues |-> Nil, task_results |-> Nil ]

Slices    == {"capabilities", "subjects", "issues", "task_results"}
Scalars   == {"protocol_version", "reported_at_ms", "agent_version", "core_engine",
              "core_version", "core_state", "host"}

(* omitempty: a zero value, or a slice without an element. *)
Omitted(r, key) ==
  \/ key \in Scalars /\ r[key] = ZeroValue[key]
  \/ key \in Slices /\ Items(r[key]) = <<>>

(* Mutant: a field of the full report is forgotten in the partial one. *)
PartialKeysWithoutHost == DOMAIN ZeroValue \ (Enumerations \cup {"subjects", "host"})

(* Mutant: so is the one field no report is valid without. *)
PartialKeysWithoutHave == DOMAIN ZeroValue \ (Enumerations \cup {"subjects", "have"})

(* partialReport, the second shape: written out by hand. *)
PartialKeys ==
  { "agent_id", "protocol_version", "reported_at_ms", "agent_version", "core_engine",
    "core_version", "core_state", "capabilities", "partial", "have", "host", "issues",
    "task_results" }

(* In a full report an empty enumeration is [], never null. *)
Encoded(r, key) ==
  IF key \in Enumerations /\ ~r.partial THEN Items(r[key]) ELSE r[key]

MarshalJSON(r) ==
  [key \in {k \in IF r.partial THEN PartialKeys ELSE DOMAIN r : ~Omitted(r, k)}
     |-> Encoded(r, key)]

Decoded(w) == [key \in DOMAIN ZeroValue |-> IF key \in DOMAIN w THEN w[key] ELSE ZeroValue[key]]

-----------------------------------------------------------------------------
(* ValidateNodeReportBase: the stages that are no loop. *)

Header(r) ==
  /\ r.agent_id # ""
  /\ r.protocol_version \in 0..1
  /\ r.reported_at_ms >= 0
  /\ r.core_engine \in {"", "xray", "sing-box"}

ValidStreamState(s) ==
  \/ s.etag = "" /\ s.applied = "zero"
  \/ s.etag = "canonical" /\ s.applied = "committed"

Have(r) ==
  /\ Streams \subseteq DOMAIN r.have
  /\ \A s \in Streams : ValidStreamState(r.have[s])
  /\ DOMAIN r.have \subseteq Streams

OmitsEnumerations(r) ==
  \A e \in Enumerations \cup {"subjects"} : Items(r[e]) = <<>>

(* The loops: what an entry must be, and what makes two of them the same.  *)

HasRowID(key) == key # "malformed"

Counted(c) == HasRowID(c.key) /\ c.up >= 0 /\ c.down >= 0

LiveIPs(ips) ==
  /\ "malformed" \notin Elements(ips)
  /\ Cardinality(Elements(ips)) = Len(Items(ips))

Entry(list, e) ==
  CASE list = "capabilities"      -> e # "malformed"
    [] list = "objects"           -> /\ e.stream \in {"config", "roster"}
                                     /\ HasRowID(e.key)
                                     /\ e.shape = "good"
    [] list = "listener_counters" -> Counted(e)
    [] list = "clients"           -> /\ Counted(e)
                                     /\ e.gate \in {"unconfigured", "armed", "closed"}
                                     /\ LiveIPs(e.ips)
    [] list = "subjects"          -> HasRowID(e.key) /\ e.local >= 0 /\ e.denied >= 0
    [] list = "issues"            -> /\ e.code \notin {"", "oversized"}
                                     /\ "oversized" \notin {e.key, e.detail}
    [] list = "task_results"      -> e.shape = "good"

(* Mutant: an object is its key, whatever the stream. *)
IdentityByKey(list, e) ==
  CASE list = "capabilities" -> e
    [] list = "objects"      -> e.key
    [] list = "issues"       -> <<e.code, e.key, e.detail>>
    [] OTHER                 -> e.key

Identity(list, e) ==
  CASE list = "capabilities" -> e
    [] list = "objects"      -> <<e.stream, e.key>>
    [] list = "issues"       -> <<e.code, e.key, e.detail>>
    [] OTHER                 -> e.key

WithinLimit(list, r) ==
  list \in DOMAIN Limit => Len(Items(r[list])) <= Limit[list]

Lists == {"capabilities", "objects", "listener_counters", "clients", "subjects",
          "issues", "task_results"}

Following(s, r) ==
  CASE s = "header"            -> "capabilities"
    [] s = "capabilities"      -> "have"
    [] s = "have"              -> IF r.partial THEN "issues" ELSE "objects"
    [] s = "objects"           -> "listener_counters"
    [] s = "listener_counters" -> "clients"
    [] s = "clients"           -> "subjects"
    [] s = "subjects"          -> "issues"
    [] s = "issues"            -> "task_results"
    [] s = "task_results"      -> "accepted"

(* What the sender alone asks: a host sample needs its capability, and is  *)
(* judged with the rest.                                                   *)
HostForSender(r) ==
  r.host = Nil \/ (r.host = "good" /\ "host" \in Elements(r.capabilities))

-----------------------------------------------------------------------------
(* Behaviour *)

Init ==
  /\ report \in Reports
  /\ sender \in {"checking", "careless"}
  /\ wire = <<>> /\ subject = report /\ verdict = "none"
  /\ at = "agent" /\ stage = "header" /\ i = 0 /\ seen = {}

Ended == {"accepted", "refused"}

GoesTo(s) ==
  /\ stage' = s /\ i' = 0 /\ seen' = {}
  /\ UNCHANGED <<report, sender, wire, subject, at, verdict>>

Validating == at = "psp" \/ (at = "agent" /\ sender = "checking")

Passes(s) ==
  CASE s = "header" -> Header(subject)
    [] s = "have"   -> Have(subject) /\ (subject.partial => OmitsEnumerations(subject))

Stage ==
  /\ Validating /\ stage \in {"header", "have"}
  /\ GoesTo(IF Passes(stage) THEN Following(stage, subject) ELSE "refused")

List == Items(subject[stage])

TakesEntry(e) == Entry(stage, e) /\ Identity(stage, e) \notin seen

Iterate ==
  /\ Validating /\ stage \in Lists /\ WithinLimit(stage, subject) /\ i < Len(List)
  /\ TakesEntry(List[i + 1])
  /\ i' = i + 1
  /\ seen' = seen \cup {Identity(stage, List[i + 1])}
  /\ UNCHANGED <<report, sender, wire, subject, at, stage, verdict>>

Refuse ==
  /\ Validating /\ stage \in Lists
  /\ ~WithinLimit(stage, subject) \/ (i < Len(List) /\ ~TakesEntry(List[i + 1]))
  /\ GoesTo("refused")

EndOfList ==
  /\ Validating /\ stage \in Lists /\ WithinLimit(stage, subject) /\ i = Len(List)
  /\ GoesTo(Following(stage, subject))

(* The agent sends what ValidateNodeReport has passed; a careless one      *)
(* sends what it has.                                                      *)
MaySend == sender = "careless" \/ (stage = "accepted" /\ HostForSender(report))

Send ==
  /\ at = "agent" /\ MaySend
  /\ wire' = MarshalJSON(report)
  /\ subject' = Decoded(wire')
  /\ at' = "psp" /\ stage' = "header" /\ i' = 0 /\ seen' = {}
  /\ UNCHANGED <<report, sender, verdict>>

Withhold ==
  /\ at = "agent" /\ sender = "checking" /\ stage \in Ended /\ ~MaySend
  /\ at' = "done"
  /\ UNCHANGED <<report, sender, wire, subject, stage, i, seen, verdict>>

(* PSP answers by the control half; the host subtree has no say in it.     *)
Conclude ==
  /\ at = "psp" /\ stage \in Ended
  /\ verdict' = stage /\ at' = "done"
  /\ UNCHANGED <<report, sender, wire, subject, stage, i, seen>>

Next == Stage \/ Iterate \/ Refuse \/ EndOfList \/ Send \/ Withhold \/ Conclude

Spec == Init /\ [][Next]_vars

-----------------------------------------------------------------------------
(* Properties *)

(* A report the agent's own check lets out is never refused by PSP: what   *)
(* the encoding changes, PSP's check does not mind (ValidateNodeReport,    *)
(* MarshalJSON and ValidateNodeReportBase keep one contract).              *)
NoSurprise == sender = "checking" => verdict # "refused"

Sent == at = "psp" \/ verdict # "none"

(* PSP sees what the agent built: neither shape drops or changes anything  *)
(* of a report that passed the agent's check, a field of the second, hand- *)
(* written one included; nil and [] are not told apart (MarshalJSON).      *)
NothingIsLost ==
  Sent /\ sender = "checking" =>
    \A key \in DOMAIN report :
      report[key] # Decoded(wire)[key] =>
        /\ key \in Enumerations \cup Slices
        /\ Items(report[key]) = Items(Decoded(wire)[key])

(* A full report always carries the three enumerations, a partial one      *)
(* never does: "none" and silence cannot be confused (MarshalJSON).        *)
EnumerationsAreExplicit ==
  Sent => \A e \in Enumerations :
            IF report.partial THEN e \notin DOMAIN wire ELSE e \in DOMAIN wire /\ wire[e] # Nil

(* Both shapes say what the agent meant (MarshalJSON, partialReport).      *)
WireIsFaithful == NothingIsLost /\ EnumerationsAreExplicit

(* The control half as a whole, without order, loop or host: an entry is   *)
(* valid, and no other one says something of the same thing.               *)
Thing(list, e) ==
  CASE list = "capabilities" -> e
    [] list = "objects"      -> [stream |-> e.stream, key |-> e.key]
    [] list = "issues"       -> [code |-> e.code, key |-> e.key, detail |-> e.detail]
    [] OTHER                 -> e.key

Listed(list, r) ==
  /\ WithinLimit(list, r)
  /\ \A e \in Elements(r[list]) : Entry(list, e)
  /\ Cardinality({Thing(list, e) : e \in Elements(r[list])}) = Len(Items(r[list]))

Acceptable(r) ==
  /\ Header(r) /\ Have(r)
  /\ \A list \in Lists : Listed(list, r)
  /\ r.partial => OmitsEnumerations(r)

(* Whatever the order of the entries and whatever the host subtree is, PSP *)
(* answers what the report as a whole deserves (ValidateNodeReportBase).   *)
ReportJudgedAsAWhole ==
  verdict # "none" => ((verdict = "accepted") <=> Acceptable(Decoded(wire)))
=============================================================================
