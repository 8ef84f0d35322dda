SPECIFICATION FairSpec

CONSTANTS
  Configs <- DefaultConfig
  Count = 2
  MaxEntries = 2
  MaxPresent = 1
  MaxCrashes = 0

PROPERTIES
  NewerThanStart

CHECK_DEADLOCK FALSE
