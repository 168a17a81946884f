\* The documents of MCDocuments, a peer's among them.  A document ends in a verdict.
SPECIFICATION Spec
CONSTANTS
  Nil = Nil
  Mistyped = Mistyped
  Requests <- MCRequests
  Logs <- MCLogs
  EventCodes <- MCEventCodes
  CheckCodes <- MCCheckCodes
  MaxDiagnosticsSections = 4
  MaxDiagnosticsEvents = 3
  MaxDiagnosticsSummaryBytes = 3
  Room = 2
INVARIANTS
  ExactAtEveryDepth
CHECK_DEADLOCK FALSE
