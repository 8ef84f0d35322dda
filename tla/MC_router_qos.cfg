SPECIFICATION Spec

CONSTANTS
  None = None
  Routers = {r1, r2}
  Kinds = {"mqtt"}
  Subjects = {a, b}
  Topics = {t}
  Headers = {h}
  Levels = {1, 2}
  AtLeastOnce = 1
  Groups = {g}
  Bindings = {s1, s2}
  MaxRoutes = 2
  MaxCalls <- Calls

INVARIANT
  RouterDefaultQos

CHECK_DEADLOCK FALSE
