-------------------------- MODULE MCDeadlockStorm --------------------------
(***************************************************************************)
(* Instances of the storm for TLC.                                         *)
(***************************************************************************)
EXTENDS DeadlockStorm

\* Consecutive resources in different shards, the first and the third in one.
MCShardIndex == [r \in ResourceId |-> (r - 1) % NumShards]

\* Two resources in either order.
MCPairs == [w \in TxnId |-> {<<1, 2>>, <<2, 1>>}]

\* Cycles of two and of three.
MCRing == <<{<<1, 2>>}, {<<2, 1>>, <<2, 3>>}, {<<3, 1>>}>>

=============================================================================
