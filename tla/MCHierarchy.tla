---------------------------- MODULE MCHierarchy ----------------------------
(***************************************************************************)
(* Instances of the hierarchy for TLC.                                     *)
(***************************************************************************)
EXTENDS Hierarchy, TLC

\* Every other resource in the second shard.
MCShardIndex == [r \in ResourceId |-> (r - 1) % NumShards]

\* A table (1), a page of it (2) and a row of that page (3).
MCThreeLevels == (1 :> {}) @@ (2 :> {1}) @@ (3 :> {1, 2})

\* A row (1) in no hierarchy.
MCFlat == 1 :> {}

\* A scan of two keys and the insertion of one of them.
MCScanInsert == new(0, 1) \cup {point(1)}

\* Transactions are compared for equality only.
MCSymmetry == Permutations(TxnId)

=============================================================================
