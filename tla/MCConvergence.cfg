SPECIFICATION Spec
CONSTANTS
  IssueCodes <- MCIssueCodes
  ListenerKeys = {good, bad}
  BadListeners = {bad}
  Clients = {cli1}
  NoName = NoName
  NoBody = NoBody
  EscalateAfterRounds = 1
  Isolable = {}
  Revisits = FALSE
  MaxEpoch = 2
  MaxVersion = 2
  MaxFailures = 1
INVARIANTS
  AgentNeverLeads
  ReportIsAccepted
  BlockedOnItsListener
PROPERTIES
  ImplementsStream
  EventuallySettled
