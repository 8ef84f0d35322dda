--------------------------- MODULE MCCrabbyService ---------------------------
(***************************************************************************)
(* Instances of CrabbyService for TLC: route 1 is plain, route 2 has a     *)
(* stream factory.  Route 1 has its own error topic.                       *)
(***************************************************************************)
EXTENDS CrabbyService

CONSTANTS routeTopic, serviceTopic

PlainRoute == {1}
Topic1 == [r \in Routes |-> IF r = 1 THEN routeTopic ELSE NoTopic]

\* The plain subscription carries requests that are answered, the factory's stream
\* messages with an acknowledger and a reply subject (JetStream's) but no response.
KindsOf ==
  [s \in Streams |-> {[replyTo |-> TRUE, acker |-> s # 0, response |-> s = 0]}]

\* The service with both routes has a shutdown hook, the smaller ones may have one.
MCInit == Init /\ (hook = "armed" \/ routes # Routes)
MCSpec == MCInit /\ [][Next]_vars /\ WF_vars(Goes)

=============================================================================
