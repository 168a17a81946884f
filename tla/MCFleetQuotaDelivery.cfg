SPECIFICATION AssessSpec
CONSTANTS
  DefaultNextPollSeconds = 2
  MaxNextPollSeconds = 4
  MaxFullReportSeconds = 6
  MinHostReportSeconds = 2
  MaxHostReportSeconds = 4
  MaxInt = 7
  RowSequences <- MCRowSequences
  Limits <- MCLimits
CHECK_DEADLOCK FALSE
INVARIANT
  ResidualIsDeliverable
