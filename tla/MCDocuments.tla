---------------------------- MODULE MCDocuments ----------------------------
(* The documents of MCOutbox, MCReportInputs, MCHostInputs and              *)
(* MCDiagnosticsInputs, and the fleets of MCFleetRowInputs.                 *)
EXTENDS Documents, MCOutbox, MCFleetRowInputs

ReportInputs == INSTANCE MCReportInputs
HostInputs   == INSTANCE MCHostInputs
DiagInputs   == INSTANCE MCDiagnosticsInputs

MCReports    == ReportInputs!ReportsBuilt
MCListLimits == ReportInputs!ListsAllowed

(* Machine words of three bits, so that sums wrap. *)
MCSamples == HostInputs!HostSamples

(* Three digits, integers up to 7 (21 in base three) and up to three       *)
(* characters: zeros in front, signs, letters and values out of range.     *)
MCNumerals == <<"0", "1", "2">>

MCRequests   == DiagInputs!RequestsSent
MCLogs       == DiagInputs!LogsKept
MCEventCodes == DiagInputs!Events
MCCheckCodes == DiagInputs!Checks
=============================================================================
