---------------------------- MODULE MCRouterBuild ----------------------------
(***************************************************************************)
(* Instances of RouterBuild for TLC.                                       *)
(***************************************************************************)
EXTENDS RouterBuild, TLC

\* Three layers nest in a program of core routers; the QoS of two routers may
\* change in one of MQTT routers, which has more ways to register a route.
Calls == [kind \in Kinds |-> CASE kind = "core" -> 4 [] kind = "mqtt" -> 2 [] OTHER -> 3]

Symmetry == Permutations(Subjects) \cup Permutations(Bindings) \cup Permutations(Routers)

=============================================================================
