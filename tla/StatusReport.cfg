CONSTANTS
  WordMod = 8
  ValueMod = 4
  MaxQueries = 1
  NoReport = NoReport
SPECIFICATION FairSpec
INVARIANTS
  TypeOK
  TornScanRepeated
  HostUpToDate
  NoLostWakeup
PROPERTIES
  ImplementsMirror
  StatusConverges
  QueryAnswered
