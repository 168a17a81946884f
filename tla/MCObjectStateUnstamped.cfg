SPECIFICATION UnstampedSpec
CONSTANTS
  IssueCodes = {badCredentials, badPort}
  ListenerKeys = {lst1, lst2}
  NoName = NoName
  OfferedVersions <- MCOfferedVersions
  Times <- MCTimes
  Timeout = 2
INVARIANT
  UnconvergedHasLength
