SPECIFICATION FairSpec

CONSTANTS
  Configs <- AllConfigs
  Count = 2
  MaxEntries = 3
  MaxPresent = 3
  MaxCrashes = 1

INVARIANTS
  TypeOK
  CallsOnlyPending

PROPERTIES
  Consecutive
  AheadIsRead
  ReachIsTried

CHECK_DEADLOCK FALSE
