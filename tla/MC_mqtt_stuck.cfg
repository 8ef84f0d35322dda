SPECIFICATION FairSpec

CONSTANTS
  s1 = s1
  s2 = s2
  Held = Held
  Gone = Gone
  Services <- OneService
  NumTopics = 1
  Capacity = 1
  MaxMessages = 2
  MaxPublish = 1
  MaxApp = 0

PROPERTIES
  SignalReturns

CHECK_DEADLOCK FALSE
