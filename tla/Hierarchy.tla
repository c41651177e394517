----------------------------- MODULE Hierarchy -----------------------------
(***************************************************************************)
(* What transactions build on the lock table: multi-granularity locking of *)
(* rows (src/lib.rs, examples/hierarchy.rs), range locks on the keys they  *)
(* scan and insert (examples/range_locks.rs), and two-phase locking        *)
(* (examples/two_phase_locking.rs) - and what they get for it.             *)
(*                                                                         *)
(* A node of the hierarchy is a resource.  It is locked under intention    *)
(* locks on every coarser node, coarse to fine, and unlocked fine to       *)
(* coarse.  A transaction takes no lock once it has given one up, and ends *)
(* with release_all; its id is not used again.                             *)
(***************************************************************************)
EXTENDS LockTable

INSTANCE Cycles

CONSTANTS
  Above,          \* per node: the coarser nodes above it
  Rows            \* the nodes that hold data

ASSUME HierarchyAssumption ==
  /\ Above \in [PointIds -> SUBSET PointIds]
  /\ \A n \in PointIds : n \notin Above[n] /\ \A c \in Above[n] : Above[c] \subseteq Above[n]
  \* A node lies in one coarser node: what is above it is a chain.
  /\ \A n \in PointIds : \A c, d \in Above[n] : c = d \/ c \in Above[d] \/ d \in Above[c]
  /\ Rows \subseteq PointIds
  /\ \A n \in PointIds : Above[n] \cap Rows = {}

VARIABLES
  phase,          \* per transaction: "growing", "shrinking" or "ended"
  readers,        \* who has read, and who has written, each item so far
  writers,
  precedes        \* <<t, u>>: t has accessed an item before u did, in conflict

hierarchyVars == <<tableVars, phase, readers, writers, precedes>>

\* What is read and written: a row, or a key of a key space, present or not.
Items == {<<r>> : r \in Rows} \cup (SpaceIds \X Key)

HierarchyTypeOK ==
  /\ TypeOK
  /\ phase \in [TxnId -> {"growing", "shrinking", "ended"}]
  /\ readers \in [Items -> SUBSET TxnId]
  /\ writers \in [Items -> SUBSET TxnId]
  /\ precedes \subseteq TxnId \X TxnId

HierarchyInit ==
  /\ TableInit
  /\ phase = [t \in TxnId |-> "growing"]
  /\ readers = [x \in Items |-> {}]
  /\ writers = [x \in Items |-> {}]
  /\ precedes = {}

-----------------------------------------------------------------------------

\* LockManager::mode_held, Some as a singleton and None as the empty set.
mode_held(t, r) ==
  LET holders == entry_or_new(locks[shard_index[r]], r)
      P == Positions(holders, t)
  IN  IF P = {} THEN {} ELSE {holders[first(P)].mode}

\* The intention a lock must be announced with on the nodes above.
Intention(m) == IF WritesPart(m) THEN "IX" ELSE "IS"

\* Mutant: an intention is announced on some coarser node only.
announced_once(t, n, m) ==
  Above[n] # {} => \E c \in Above[n] : \E held \in mode_held(t, c) : covers(held, Intention(m))

announced(t, n, m) ==
  \A c \in Above[n] : \E held \in mode_held(t, c) : covers(held, Intention(m))

\* Mutant: locks are taken in both phases.
may_lock_always(t) == phase[t] # "ended"

may_lock(t) == phase[t] = "growing"

LockNode(t, n, m) ==
  /\ may_lock(t)
  /\ n \in Rows => ~is_intention(m)
  /\ announced(t, n, m)
  /\ try_acquire(t, n, m)
  /\ UNCHANGED <<phase, readers, writers, precedes>>

LockRange(t, sp, k, m) ==
  /\ may_lock(t)
  /\ ~is_intention(m)
  /\ try_acquire_range(t, sp, k, m)
  /\ UNCHANGED <<phase, readers, writers, precedes>>

UnlockNode(t, n) ==
  /\ phase[t] # "ended"
  /\ mode_held(t, n) # {}
  /\ \A d \in PointIds : n \in Above[d] => mode_held(t, d) = {}
  /\ release(t, n)
  /\ phase' = [phase EXCEPT ![t] = "shrinking"]
  /\ UNCHANGED <<readers, writers, precedes>>

UnlockRange(t, sp, k) ==
  /\ phase[t] # "ended"
  /\ RangePositions(entry_or_new(ranges[shard_index[sp]], sp), t, k) # {}
  /\ release_range(t, sp, k)
  /\ phase' = [phase EXCEPT ![t] = "shrinking"]
  /\ UNCHANGED <<readers, writers, precedes>>

End(th, t) ==
  /\ phase[t] # "ended"
  /\ ReleaseAllCall(th, t)
  /\ phase' = [phase EXCEPT ![t] = "ended"]
  /\ UNCHANGED <<readers, writers, precedes>>

-----------------------------------------------------------------------------
(* The data. *)

\* The modes in which t has an item locked: a row by a lock on itself or on any
\* node above it, a key by a range lock that contains it.
ModesOn(t, x) ==
  IF Len(x) = 1 THEN UNION {mode_held(t, n) : n \in {x[1]} \cup Above[x[1]]}
  ELSE LET holders == entry_or_new(ranges[shard_index[x[1]]], x[1])
       IN  {holders[i].mode : i \in {j \in 1 .. Len(holders) :
              holders[j].txn = t /\ contains(holders[j].range, x[2])}}

MayRead(t, x) == \E m \in ModesOn(t, x) : ReadsAll(m)

MayWrite(t, x) == \E m \in ModesOn(t, x) : WritesAll(m)

Read(t, x) ==
  /\ phase[t] # "ended"
  /\ MayRead(t, x)
  /\ readers' = [readers EXCEPT ![x] = @ \cup {t}]
  /\ precedes' = precedes \cup {<<u, t>> : u \in writers[x] \ {t}}
  /\ UNCHANGED <<tableVars, phase, writers>>

Write(t, x) ==
  /\ phase[t] # "ended"
  /\ MayWrite(t, x)
  /\ writers' = [writers EXCEPT ![x] = @ \cup {t}]
  /\ precedes' = precedes \cup {<<u, t>> : u \in (readers[x] \cup writers[x]) \ {t}}
  /\ UNCHANGED <<tableVars, phase, readers>>

HierarchyNext ==
  \/ \E t \in TxnId :
       \/ \E n \in PointIds : UnlockNode(t, n) \/ \E m \in RequestModes : LockNode(t, n, m)
       \/ \E sp \in SpaceIds, k \in RequestRanges :
            UnlockRange(t, sp, k) \/ \E m \in RequestModes : LockRange(t, sp, k, m)
       \/ \E x \in Items : Read(t, x) \/ Write(t, x)
       \/ \E th \in Threads : End(th, t)
  \/ \E th \in Threads : ReleaseAllStep(th) /\ UNCHANGED <<phase, readers, writers, precedes>>

HierarchySpec == HierarchyInit /\ [][HierarchyNext]_hierarchyVars

-----------------------------------------------------------------------------

\* What the intention modes are for: a row that one transaction may write no
\* other may read or write, although the one may be locked through the row and
\* the other through a node above, and neither looks at the other's lock.  For
\* range locks the same of every key: nobody inserts where another one scans.
\* (A transaction that has ended accesses nothing any more; its locks may go in
\* any order, coarse before fine: release_all follows the shards.)
ItemsIsolated ==
  \A x \in Items, t, u \in TxnId :
     (t # u /\ phase[t] # "ended" /\ phase[u] # "ended")
        => ~(MayWrite(t, x) /\ MayRead(u, x))

\* Two-phase transactions are serializable: there is an order in which they could
\* have run one after the other.  No row read is overwritten and read on elsewhere,
\* and no scan misses a key that was inserted meanwhile (a phantom), even if a
\* transaction unlocks one by one before its release_all.
Serializable == ~\E c \in Paths : IsCycle(precedes, c)

=============================================================================
