SPECIFICATION Spec

CONSTANTS
  None = None
  Routers = {r1, r2, r3}
  Kinds = {"core", "mqtt", "nats", "redis"}
  Subjects = {a, b}
  Topics = {t}
  Headers = {h}
  Levels = {1, 2}
  AtLeastOnce = 1
  Groups = {g}
  Bindings = {s1, s2}
  MaxRoutes = 2
  MaxCalls <- Calls

SYMMETRY Symmetry

INVARIANTS
  KeysAreUnique
  OwnRoutesUniform
  LayersNest
  RegisteredOnce
  SubscribedAsAsked

CHECK_DEADLOCK FALSE
