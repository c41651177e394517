--------------------------- MODULE MCLockClients ---------------------------
(***************************************************************************)
(* Instances of the lock manager and its clients for TLC.                  *)
(***************************************************************************)
EXTENDS LockClients, TLC

\* Consecutive resources in different shards, the first and the third in one.
MCShardIndex == [r \in ResourceId |-> (r - 1) % NumShards]

\* Everybody may ask for everything.
MCAll == TxnId \X PointIds \X RequestModes

\* Two readers of resource 1, one of which upgrades and one of which goes on to
\* resource 2, and a writer of both: cycles of two and of three arise, and waits for
\* a cycle from outside it.
MCReadersWriter == {<<1, 1, "S">>, <<1, 2, "X">>,
                    <<2, 1, "S">>, <<2, 1, "X">>,
                    <<3, 2, "X">>, <<3, 1, "X">>}

=============================================================================
