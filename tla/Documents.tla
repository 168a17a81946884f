----------------------------- MODULE Documents -----------------------------
(***************************************************************************)
(* The documents that cross the wire, each through the validators and      *)
(* encoders it meets: the lists of Outbox, the report, the host sample,    *)
(* the entries of a membership set and the diagnostic; and the rows of a   *)
(* fleet, from which PSP computes the residual an envelope carries.  A     *)
(* behaviour takes one document, so the components share the variables;    *)
(* those its component does not have keep the value Nil (the total of a    *)
(* list: zero).                                                            *)
(***************************************************************************)
EXTENDS Outbox, FleetQuota

CONSTANTS Nil, Mistyped,
          Reports, ListLimits,                      \* see Report
          Samples, MaxInt64, MaxUnixMilli,          \* see HostTelemetry
          MaxUnavailableTokens, MaxNetworkInterfaces, MaxCongestionControls, MaxLinkSpeedMbps,
          Numerals, MaxKeyLength, MaxKeys,          \* see RowKeys
          Requests, Logs, EventCodes, CheckCodes,   \* see Diagnostics
          MaxDiagnosticsSections, MaxDiagnosticsEvents, MaxDiagnosticsSummaryBytes, Room

(* A document that was read is a sequence of fields, and what follows.     *)
IsSlice(s) == Len(s) \in Nat /\ s = [n \in 1..Len(s) |-> s[n]]

VARIABLES document,                   \* what kind of document it is
          content, peer, wire, work,  \* what was built, by whom, ...
          place, stage, answer        \* where it is, and what came of it

all == <<document, content, peer, wire, work, place, stage, answer, vars, assessVars>>

Report == INSTANCE Report WITH
  Limit <- ListLimits,
  report <- content, sender <- peer, subject <- work, at <- place, verdict <- answer

Host == INSTANCE HostTelemetry WITH
  host <- content, k <- i, outcome <- answer

Keys == INSTANCE RowKeys WITH
  MaxLength <- MaxKeyLength, MaxEntries <- MaxKeys,
  last <- answer

Diag == INSTANCE Diagnostics WITH
  log <- content, what <- place, pos <- i, args <- work, result <- answer, own <- peer

(* An agent builds its report as the struct it is.                         *)
ASSUME ReportsAssumption ==
  \A r \in Reports :
    /\ DOMAIN r = DOMAIN Report!ZeroValue
    /\ r.partial \in BOOLEAN
    /\ \A key \in Report!Enumerations \cup Report!Slices : r[key] = Nil \/ IsSlice(r[key])

ASSUME ListLimitsAssumption == \A key \in DOMAIN ListLimits : ListLimits[key] \in Nat

(* The digits of a base, of two at least, and no two the same.             *)
ASSUME NumeralsAssumption ==
  /\ IsSlice(Numerals) /\ Len(Numerals) >= 2
  /\ \A j, k \in 1..Len(Numerals) : Numerals[j] = Numerals[k] => j = k
  /\ \A k \in 1..Len(Numerals) : Numerals[k] \notin {"+", "-"}

ASSUME SamplesAssumption == MaxInt64 \in Nat /\ \A h \in Samples : Host!IsSample(h)

(* Nil is neither an empty slice nor a number, and no verdict.             *)
ASSUME NilAssumption ==
  /\ Nil # <<>> /\ Nil \notin Host!Words
  /\ Nil \notin {"ok", "refused", "done", "error"}

(* An agent observes events that PSP knows.                                *)
ObservedEvent ==
  [ code : EventCodes, severity : {"info", "warning", "error"},
    at : Nat \ {0}, summary : 0..MaxDiagnosticsSummaryBytes ]

ASSUME DiagnosticsAssumption ==
  /\ EventCodes \subseteq Int
  /\ IsSlice(CheckCodes) /\ Diag!Elements(CheckCodes) \subseteq Int
  /\ MaxDiagnosticsEvents \in Nat /\ MaxDiagnosticsSummaryBytes \in Nat /\ Room \in Nat
  /\ Logs \subseteq Seq(ObservedEvent)

(* What an agent's result says in words.                                   *)
Texts == {"sample", "running", "digest", "ok", "unavailable", "info", "warning", "error"}

(* Neither null nor a value of the wrong type is a value of a field, or of *)
(* a name below it, or an object or a list of objects as it is written.    *)
ASSUME ValuesAssumption ==
  /\ Nil # Mistyped
  /\ \A v \in {Nil, Mistyped} :
       /\ v \notin Int \cup BOOLEAN \cup Texts
       /\ v \notin {Diag!Found[section] : section \in DOMAIN Diag!Found}
       /\ v \notin {Diag!Written(section, Diag!Found[section]) : section \in DOMAIN Diag!Found}
       /\ v \notin Seq(ObservedEvent)
       /\ v \notin Seq([DOMAIN Diag!ZeroBelow.events -> Seq(Int \cup Texts)])
       /\ v \notin Seq([code : Diag!Elements(CheckCodes), status : {"ok", "unavailable"}, summary : {0}])
       /\ v \notin Seq([DOMAIN Diag!ZeroBelow.checks -> Seq(Int \cup Texts)])

-----------------------------------------------------------------------------
Unused(v) == v = Nil

(* No list under way, and no assessment. *)
NoList  == Unused(list) /\ Unused(schema) /\ total = 0 /\ Unused(verdict)
NoFleet ==
  /\ Unused(rows) /\ Unused(limit) /\ Unused(pc) /\ Unused(passed)
  /\ Unused(ceilings) /\ Unused(reported) /\ Unused(residual) /\ Unused(position)
  /\ Unused(exactCeilings) /\ Unused(exactReported)
NoTransfer ==
  /\ Unused(content) /\ Unused(peer) /\ Unused(wire) /\ Unused(work)
  /\ Unused(place) /\ Unused(stage)

AllInit ==
  \/ /\ document = "list" /\ Init
     /\ NoFleet /\ NoTransfer /\ Unused(answer)
  \/ /\ document = "report" /\ Report!Init
     /\ NoList /\ NoFleet
  \/ /\ document = "fleet" /\ AssessInit
     /\ NoList /\ NoTransfer /\ Unused(answer) /\ Unused(i) /\ Unused(seen)
  \/ /\ document = "host" /\ Host!Init
     /\ NoList /\ NoFleet /\ Unused(seen)
     /\ Unused(peer) /\ Unused(wire) /\ Unused(work) /\ Unused(place) /\ Unused(stage)
  \/ /\ document = "keys" /\ Keys!Init
     /\ NoList /\ NoFleet /\ NoTransfer /\ Unused(i)
  \/ /\ document = "diagnostic" /\ Diag!Init
     /\ NoList /\ NoFleet

AllNext ==
  /\ UNCHANGED document
  /\ \/ /\ document = "list" /\ Next
        /\ UNCHANGED <<content, peer, wire, work, place, stage, answer, assessVars>>
     \/ /\ document = "report" /\ Report!Next
        /\ UNCHANGED <<list, schema, total, verdict, assessVars>>
     \/ /\ document = "fleet" /\ AssessNext
        /\ UNCHANGED <<content, peer, wire, work, place, stage, answer, vars>>
     \/ /\ document = "host" /\ Host!Next
        /\ UNCHANGED <<list, schema, total, verdict, seen, peer, wire, work, place, stage, assessVars>>
     \/ /\ document = "keys" /\ Keys!Next
        /\ UNCHANGED <<list, schema, total, verdict, i, content, peer, wire, work, place, stage, assessVars>>
     \/ /\ document = "diagnostic" /\ Diag!Next
        /\ UNCHANGED <<list, schema, total, verdict, assessVars>>

AllSpec == AllInit /\ [][AllNext]_all

-----------------------------------------------------------------------------
(* Properties: those of the components, of their own documents.            *)

(* A report that ValidateNodeReport lets out is accepted by PSP.           *)
NoSurprise == document = "report" => Report!NoSurprise

(* Neither shape MarshalJSON writes loses or confuses anything.            *)
WireIsFaithful == document = "report" => Report!WireIsFaithful

(* ValidateNodeReportBase answers what the report as a whole deserves.     *)
ReportJudgedAsAWhole == document = "report" => Report!ReportJudgedAsAWhole

(* ValidateHostObservation follows no nil pointer.                         *)
NoNilDereference == document = "host" => Host!NoNilDereference

(* In a sample ValidateHostObservation accepts, parts are within wholes.   *)
AcceptedIsMeasurable == document = "host" => Host!AcceptedIsMeasurable

(* RowID takes exactly the spellings PSP mints.                            *)
KeysNameRows == document = "keys" => Keys!KeysNameRows

(* An agent's own diagnostic arrives, with the newest events.              *)
OwnResultArrives == document = "diagnostic" => Diag!OwnResultArrives
=============================================================================
