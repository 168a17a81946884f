SPECIFICATION Spec
CONSTANTS
  IssueCodes <- MCIssueCodes
  ListenerKeys = {good, bad}
  BadListeners = {bad}
  Clients = {cli1}
  NoName = NoName
  NoBody = NoBody
  EscalateAfterRounds = 1
  Isolable = {"config"}
  Revisits = TRUE
  MaxEpoch = 1
  MaxVersion = 3
  MaxFailures = 0
INVARIANT
  NoFalseDefect
PROPERTY
  SkewIsSurfaced
