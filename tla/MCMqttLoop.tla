----------------------------- MODULE MCMqttLoop -----------------------------
(***************************************************************************)
(* Instances of MqttLoop for TLC.                                          *)
(***************************************************************************)
EXTENDS MqttLoop

CONSTANTS s1, s2

OneService  == {s1}
TwoServices == {s1, s2}

=============================================================================
