SPECIFICATION MCSpec

CONSTANTS
  routeTopic = routeTopic
  serviceTopic = serviceTopic
  NoTopic = NoTopic
  NumRoutes = 2
  Plain <- PlainRoute
  RouteTopic <- Topic1
  Kinds <- KindsOf
  ServiceTopic = serviceTopic
  MaxMessages = 3
  MaxBroken = 1

INVARIANTS
  TypeOK
  SettledBeforeNext
  AckXorError

PROPERTIES
  ImplementsPromise
  ShutdownCompletes
  FairTurns

CHECK_DEADLOCK FALSE
