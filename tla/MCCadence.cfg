SPECIFICATION Spec
CONSTANTS
  DefaultNextPollSeconds = 3
  MaxNextPollSeconds = 4
  MaxFullReportSeconds = 7
  MinHostReportSeconds = 2
  MaxHostReportSeconds = 5
  Schedules <- MCSchedules
  Never = 18
  MaxDrops = 2
INVARIANTS
  TypeOK
  CountersNeverGoQuiet
PROPERTIES
  FullPeriodIsPredicted
  HostPeriodIsPredicted
