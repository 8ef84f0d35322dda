SPECIFICATION Spec

CONSTANTS
  a = a
  b = b
  Nobody = Nobody
  Consumers <- OneConsumer
  MaxEntries = 1
  ReadCount = 2
  ClaimCount = 2
  ScanLimit = 2
  ClaimerSets <- AllClaim
  HasCap = TRUE
  MaxDeliveries = 1
  HasDlq = TRUE
  MaxTimes = 3
  MaxFaults = 0
  MaxCrashes = 0
  LexRank <- StreamOrder

INVARIANTS
  PublishedBeforeAck
