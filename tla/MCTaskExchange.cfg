\* Time runs past the deadline; one crash, one restore.
SPECIFICATION FairSpec
CONSTANTS
  UpgradeKind = "agent.upgrade.v1"
  DiagnosticsKind = "diagnostics.collect.v1"
  Ids = {"t1"}
  Args = {"empty"}
  Deadlines = {1, 2}
  Builds <- MCBuilds
  Supported <- MCSupported
  MaxTime = 3
  MaxCrashes = 1
  MaxRestores = 1
INVARIANTS
  NoLateStart
  OnlyAnnouncedKinds
  AckedWasProcessed
PROPERTIES
  ImplementsContract
  EventuallyKnown
