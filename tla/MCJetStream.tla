---------------------------- MODULE MCJetStream ----------------------------
(***************************************************************************)
(* Instances of JetStream for TLC.                                         *)
(***************************************************************************)
EXTENDS JetStream

\* A handler of messages that no route has answers nothing.
AllConfigs == {c \in Config : c.controls => c.exact}

=============================================================================
