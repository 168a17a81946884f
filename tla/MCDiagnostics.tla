--------------------------- MODULE MCDiagnostics ---------------------------
(* The requests and logs of MCDiagnosticsInputs, through Diagnostics alone. *)
EXTENDS Diagnostics

Inputs == INSTANCE MCDiagnosticsInputs

MCRequests   == Inputs!RequestsSent
MCLogs       == Inputs!LogsKept
MCEventCodes == Inputs!Events
MCCheckCodes == Inputs!Checks
=============================================================================
