\* Lists: three entries of at most 2 bytes, 3 bytes in all.  A document ends in a verdict.
SPECIFICATION AllSpec
CONSTANTS
  Nil = Nil
  Mistyped = Mistyped
  MaxEntries = 3
  MaxBytes = 2
  MaxTotalBytes = 3
  TaskLists <- MCTaskLists
  ResultLists <- MCResultLists
  DefaultNextPollSeconds = 2
  MaxNextPollSeconds = 4
  MaxFullReportSeconds = 6
  MinHostReportSeconds = 2
  MaxHostReportSeconds = 4
  MaxInt = 7
  RowSequences <- MCRowSequences
  Limits <- MCLimits
  Reports <- MCReports
  ListLimits <- MCListLimits
  Samples <- MCSamples
  MaxInt64 = 3
  MaxUnixMilli = 8
  MaxUnavailableTokens = 2
  MaxNetworkInterfaces = 2
  MaxCongestionControls = 2
  MaxLinkSpeedMbps = 2
  Numerals <- MCNumerals
  MaxKeyLength = 3
  MaxKeys = 2
  Requests <- MCRequests
  Logs <- MCLogs
  EventCodes <- MCEventCodes
  CheckCodes <- MCCheckCodes
  MaxDiagnosticsSections = 4
  MaxDiagnosticsEvents = 3
  MaxDiagnosticsSummaryBytes = 3
  Room = 2
INVARIANTS
  BudgetNeverOverdrawn
  VerdictIsReference
  SchemasNeverMix
  NoSurprise
  WireIsFaithful
  ReportJudgedAsAWhole
  AssessmentIsExact
  OnlyOverflowIsRefused
  NoNilDereference
  AcceptedIsMeasurable
  KeysNameRows
  OwnResultArrives
CHECK_DEADLOCK FALSE
