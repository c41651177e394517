---------------------------- MODULE MCLockTable ----------------------------
(***************************************************************************)
(* Instances of the lock table for TLC.                                    *)
(***************************************************************************)
EXTENDS LockTable, TLC

\* Consecutive resources in different shards, the first and the third in one.
MCShardIndex == [r \in ResourceId |-> (r - 1) % NumShards]

MCOneShard == [r \in ResourceId |-> 0]

\* Two ranges with one key in common.
MCTwoRanges == new(0, 1) \cup new(1, 2)

\* Transactions and threads are compared for equality only.
MCSymmetry == Permutations(TxnId) \cup Permutations(Threads)

=============================================================================
