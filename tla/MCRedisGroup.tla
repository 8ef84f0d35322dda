---------------------------- MODULE MCRedisGroup ----------------------------
(***************************************************************************)
(* Instances of RedisGroup for TLC.                                        *)
(***************************************************************************)
EXTENDS RedisGroup, TLC

CONSTANTS a, b

OneConsumer  == {a}
TwoConsumers == {a, b}

\* Consumers with a claim loop: any of them, or all.
AnyClaimers == SUBSET Consumers
AllClaim    == {Consumers}

Symmetry     == Permutations(TwoConsumers)

\* Ids of equal length: byte order is stream order.
StreamOrder == [e \in Entries |-> e]

\* Ids 1000-9, 1000-10: byte order puts the second first.
ByteOrder == [e \in Entries |-> MaxEntries - e]

=============================================================================
