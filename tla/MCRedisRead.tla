----------------------------- MODULE MCRedisRead -----------------------------
(***************************************************************************)
(* Instances of RedisRead for TLC.                                         *)
(***************************************************************************)
EXTENDS RedisRead

\* Every ephemeral route that starts at "$" or at an id, with or without BLOCK,
\* and every group route that reads its history from the start or behind entry 1,
\* alone or in a group whose consumers claim entries.
AllConfigs ==
  [group : {FALSE}, start : {Dollar, 0, 1}, block : BOOLEAN, claims : {FALSE}]
    \cup [group : {TRUE}, start : {0, 1}, block : {TRUE}, claims : BOOLEAN]

\* The ephemeral route as RedisStreamRouteConfig::new makes it.
DefaultConfig == {[group |-> FALSE, start |-> Dollar, block |-> TRUE, claims |-> FALSE]}

=============================================================================
