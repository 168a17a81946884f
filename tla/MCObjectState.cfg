SPECIFICATION Spec
CONSTANTS
  IssueCodes = {badCredentials, badPort}
  ListenerKeys = {lst1, lst2}
  NoName = NoName
  OfferedVersions <- MCOfferedVersions
  Times <- MCTimes
  Timeout = 2
INVARIANTS
  TypeOK
  StatusIsReportable
  FailureClock
  TimeoutIsExact
  NoResurrection
PROPERTIES
  VersionNeverRegresses
  ImplementsLifecycle
