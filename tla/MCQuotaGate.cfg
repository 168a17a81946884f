\* The node's clock may be two units ahead, and be stepped; the counter starts over once.
SPECIFICATION Spec
CONSTANTS
  Quota = 2
  PeriodEnd = 2
  Nil <- MCNil
  NextGrants <- MCNextGrants
  Skews = {0, 2}
  MaxTime = 3
  MaxBytes = 5
  MaxRestarts = 1
  MaxSteps = 2
INVARIANTS
  AccountingExact
  SilenceGrantsNothing
  QuotaHolds
PROPERTIES
  EntitledIsServed
CHECK_DEADLOCK FALSE
