SPECIFICATION Spec

CONSTANTS
  a = a
  b = b
  Nobody = Nobody
  Consumers <- TwoConsumers
  MaxEntries = 1
  ReadCount = 2
  ClaimCount = 2
  ScanLimit = 2
  ClaimerSets <- AnyClaimers
  HasCap = TRUE
  MaxDeliveries = 2
  HasDlq = TRUE
  MaxTimes = 3
  MaxFaults = 1
  MaxCrashes = 1
  LexRank <- StreamOrder

SYMMETRY Symmetry

INVARIANTS
  TypeOK
  NoSilentLoss
  OneCallPerDelivery
  DeadLetterComplete
  DeadLetterOverCap
  SingleAttempt

PROPERTIES
  ImplementsPromise

CHECK_DEADLOCK FALSE
