SPECIFICATION FairSpec

CONSTANTS
  s1 = s1
  s2 = s2
  Held = Held
  Gone = Gone
  Services <- TwoServices
  NumTopics = 2
  Capacity = 3
  MaxMessages = 1
  MaxPublish = 1
  MaxApp = 1

INVARIANTS
  TypeOK
  OneReader
  RequestsKept
  SubscribedFirst

PROPERTIES
  SentUnlessStopped
  ReturnsUnlessJammed
  JamLasts

CHECK_DEADLOCK FALSE
