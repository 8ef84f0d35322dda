SPECIFICATION FairSpec

CONSTANTS
  Configs <- AllConfigs
  MaxMsgs = 2
  MaxPending = 2
  MaxInbox = 2
  MaxCrashes = 1
  MaxFaults = 1

INVARIANTS
  TypeOK
  NothingSkipped
  RepeatsExcused

PROPERTIES
  DurableKeepsPlace
  Retried

CHECK_DEADLOCK FALSE
