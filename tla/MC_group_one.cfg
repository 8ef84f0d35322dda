SPECIFICATION FairSpec

CONSTANTS
  a = a
  b = b
  Nobody = Nobody
  Consumers <- OneConsumer
  MaxEntries = 3
  ReadCount = 2
  ClaimCount = 2
  ScanLimit = 3
  ClaimerSets <- AllClaim
  HasCap = TRUE
  MaxDeliveries = 1
  HasDlq = TRUE
  MaxTimes = 4
  MaxFaults = 0
  MaxCrashes = 1
  LexRank <- StreamOrder

INVARIANTS
  CapHolds
  DeadLetterOnce

PROPERTIES
  FirstCallsInOrder
  PendingSettles
