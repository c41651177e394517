----------------------------- MODULE LockTable -----------------------------
(***************************************************************************)
(* The sharded lock table of src/manager.rs: point locks and range locks,  *)
(* their reverse indexes by transaction, and every operation that changes  *)
(* them.                                                                   *)
(*                                                                         *)
(* A shard's mutex is held for the whole of try_acquire, release,          *)
(* try_acquire_range and release_range, so each of them is one action,     *)
(* enabled while no other thread is inside the shard.  release_all locks   *)
(* the shards one after the other and other operations run in between; it  *)
(* is a program of its own, one step per iteration of its loops, during    *)
(* which the shard it is in is closed to everyone else.                    *)
(*                                                                         *)
(* The clients are arbitrary: any transaction may call anything at any     *)
(* time, also while another thread releases its locks.                     *)
(***************************************************************************)
EXTENDS Collections, LockMode, KeyRange, FiniteSets

CONSTANTS
  TxnId,          \* transaction ids
  ResourceId,     \* resource ids; a key space of range locks is one too
  NumShards,      \* self.shards.len()
  shard_index,    \* the shard of each resource (Fibonacci hashing in the source)
  Threads,        \* the threads that may be inside release_all
  RequestModes,   \* the modes the clients ask for
  PointIds,       \* the resources the clients lock
  SpaceIds,       \* the key spaces the clients lock ranges in
  RequestRanges,  \* the ranges they lock
  MaxRangeLocks   \* bound: range locks one transaction holds in a shard

Shards == 0 .. NumShards - 1

ASSUME TableAssumption ==
  /\ NumShards \in Nat \ {0}
  /\ shard_index \in [ResourceId -> Shards]
  /\ RequestModes \subseteq LockModes
  /\ PointIds \subseteq ResourceId
  /\ SpaceIds \subseteq ResourceId
  /\ RequestRanges \subseteq KeyRanges
  /\ MaxRangeLocks \in Nat

VARIABLES
  locks,          \* per shard: HashMap<ResourceId, LockEntry>
  by_txn,         \* per shard: HashMap<TxnId, Vec<ResourceId>>
  ranges,         \* per shard: HashMap<ResourceId, RangeSpace>
  range_by_txn,   \* per shard: HashMap<TxnId, Vec<(ResourceId, KeyRange)>>
  sweep           \* per thread: the local state of its release_all

tableVars == <<locks, by_txn, ranges, range_by_txn, sweep>>

Holder == [txn : TxnId, mode : LockModes]

RangeHolder == [txn : TxnId, range : KeyRanges, mode : LockModes]

\* No release_all is running on the thread.
Idle == [pc |-> "idle"]

\* "waiting": about to lock the shard; "inside": holding it.  points and spans
\* are the vectors taken out of the two indexes and not yet walked.
Sweep ==
  [pc : {"waiting", "inside"}, txn : TxnId, shard : Shards,
   points : Seq(ResourceId), spans : Seq(ResourceId \X KeyRanges),
   released : Nat]

TypeOK ==
  /\ DOMAIN locks = Shards /\ DOMAIN by_txn = Shards
  /\ DOMAIN ranges = Shards /\ DOMAIN range_by_txn = Shards
  /\ \A s \in Shards :
       /\ IsHashMap(locks[s], ResourceId, Seq(Holder))
       /\ IsHashMap(by_txn[s], TxnId, Seq(ResourceId))
       /\ IsHashMap(ranges[s], ResourceId, Seq(RangeHolder))
       /\ IsHashMap(range_by_txn[s], TxnId, Seq(ResourceId \X KeyRanges))
  /\ sweep \in [Threads -> Sweep \cup {Idle}]

\* LockManager::with_shards.
TableInit ==
  /\ locks = [s \in Shards |-> EmptyMap]
  /\ by_txn = [s \in Shards |-> EmptyMap]
  /\ ranges = [s \in Shards |-> EmptyMap]
  /\ range_by_txn = [s \in Shards |-> EmptyMap]
  /\ sweep = [th \in Threads |-> Idle]

Inside(th, s) == sweep[th].pc = "inside" /\ sweep[th].shard = s

\* The shard's mutex can be taken.
ShardFree(s) == \A th \in Threads : ~Inside(th, s)

-----------------------------------------------------------------------------
(* Granting a point lock. *)

Positions(holders, t) == {i \in 1 .. Len(holders) : holders[i].txn = t}

Holds(holders, t) == Positions(holders, t) # {}

\* Mutant: an upgrade is not checked against the other holders.
grants_upgrade_unchecked(holders, t, m) ==
  \/ Holds(holders, t)
  \/ \A i \in 1 .. Len(holders) : compatible_with(holders[i].mode, m)

\* What try_grant_locked returns.
grants(holders, t, m) ==
  IF Holds(holders, t)
  THEN LET pos == first(Positions(holders, t))
           current == holders[pos].mode
       IN  \/ covers(current, m)
           \/ \A i \in 1 .. Len(holders) :
                i # pos => compatible_with(holders[i].mode, join(current, m))
  ELSE \A i \in 1 .. Len(holders) : compatible_with(holders[i].mode, m)

\* Mutant: an upgrade stores the requested mode rather than the join.
granted_requested(holders, t, m) ==
  IF Holds(holders, t)
  THEN [holders EXCEPT ![first(Positions(holders, t))].mode = m]
  ELSE Append(holders, [txn |-> t, mode |-> m])

\* The holders once it has granted: joined in place, or pushed.
granted(holders, t, m) ==
  IF Holds(holders, t)
  THEN [holders EXCEPT ![first(Positions(holders, t))].mode =
          IF covers(@, m) THEN @ ELSE join(@, m)]
  ELSE Append(holders, [txn |-> t, mode |-> m])

\* Mutant: every grant is recorded in the index, an upgrade too.
indexed_again(index, holders, t, r) == insert(index, t, Append(entry_or_new(index, t), r))

\* The reverse index once it has granted: only a new holder is recorded.
indexed(index, holders, t, r) ==
  IF Holds(holders, t) THEN index
  ELSE insert(index, t, Append(entry_or_new(index, t), r))

try_grant_locked(t, r, m) ==
  LET s == shard_index[r]
      holders == entry_or_new(locks[s], r)
  IN  IF grants(holders, t, m)
      THEN /\ locks' = [locks EXCEPT ![s] = insert(@, r, granted(holders, t, m))]
           /\ by_txn' = [by_txn EXCEPT ![s] = indexed(@, holders, t, r)]
      ELSE /\ locks' = [locks EXCEPT ![s] = insert(@, r, holders)]
           /\ UNCHANGED by_txn

\* Mutant: the requester's own hold counts as a blocker.
holders_blocking_self(t, r, m) ==
  LET holders == entry_or_new(locks[shard_index[r]], r)
  IN  {holders[i].txn : i \in {j \in 1 .. Len(holders) :
         ~compatible_with(holders[j].mode, m)}}

\* The other transactions whose holds on r are incompatible with m.
holders_blocking(t, r, m) ==
  LET holders == entry_or_new(locks[shard_index[r]], r)
  IN  {holders[i].txn : i \in {j \in 1 .. Len(holders) :
         holders[j].txn # t /\ ~compatible_with(holders[j].mode, m)}}

-----------------------------------------------------------------------------
(* Taking a lock out again. *)

\* Mutant: forgets every occurrence of the element.
forget_every(index, t, e) ==
  IF t \notin DOMAIN index THEN index
  ELSE LET v == SelectSeq(index[t], LAMBDA x : x # e)
       IN  IF v = <<>> THEN remove(index, t) ELSE insert(index, t, v)

\* forget_resource and forget_range, which differ in the element type only.
forget(index, t, e) ==
  IF t \notin DOMAIN index THEN index
  ELSE LET P == {i \in 1 .. Len(index[t]) : index[t][i] = e}
       IN  IF P # {} THEN drop(index, t, first(P))
           ELSE IF index[t] = <<>> THEN remove(index, t) ELSE index

RangePositions(holders, t, k) ==
  {i \in 1 .. Len(holders) : holders[i].txn = t /\ holders[i].range = k}

-----------------------------------------------------------------------------
(* The operations that are one critical section. *)

try_acquire(t, r, m) ==
  /\ ShardFree(shard_index[r])
  /\ try_grant_locked(t, r, m)
  /\ UNCHANGED <<ranges, range_by_txn, sweep>>

release(t, r) ==
  LET s == shard_index[r]
      P == Positions(entry_or_new(locks[s], r), t)
  IN  /\ ShardFree(s)
      /\ IF P = {}      \* Err(NotHeld): no entry, or no such holder in it
         THEN UNCHANGED <<locks, by_txn>>
         ELSE /\ locks' = [locks EXCEPT ![s] = drop(@, r, first(P))]
              /\ by_txn' = [by_txn EXCEPT ![s] = forget(@, t, r)]
      /\ UNCHANGED <<ranges, range_by_txn, sweep>>

range_conflict(holders, t, k, m) ==
  \E i \in 1 .. Len(holders) :
     /\ holders[i].txn # t
     /\ overlaps(holders[i].range, k)
     /\ ~compatible_with(holders[i].mode, m)

try_acquire_range(t, sp, k, m) ==
  LET s == shard_index[sp]
      holders == entry_or_new(ranges[s], sp)
      held == entry_or_new(range_by_txn[s], t)
  IN  /\ ShardFree(s)
      /\ Len(held) < MaxRangeLocks
      /\ IF range_conflict(holders, t, k, m)
         THEN /\ ranges' = [ranges EXCEPT ![s] = insert(@, sp, holders)]
              /\ UNCHANGED range_by_txn
         ELSE /\ ranges' = [ranges EXCEPT ![s] =
                   insert(@, sp, Append(holders, [txn |-> t, range |-> k, mode |-> m]))]
              /\ range_by_txn' = [range_by_txn EXCEPT ![s] =
                   insert(@, t, Append(held, <<sp, k>>))]
      /\ UNCHANGED <<locks, by_txn, sweep>>

release_range(t, sp, k) ==
  LET s == shard_index[sp]
      P == RangePositions(entry_or_new(ranges[s], sp), t, k)
  IN  /\ ShardFree(s)
      /\ IF P = {}      \* Err(NotHeld)
         THEN UNCHANGED <<ranges, range_by_txn>>
         ELSE /\ ranges' = [ranges EXCEPT ![s] = drop(@, sp, first(P))]
              /\ range_by_txn' = [range_by_txn EXCEPT ![s] = forget(@, t, <<sp, k>>)]
      /\ UNCHANGED <<locks, by_txn, sweep>>

-----------------------------------------------------------------------------
(* release_all(t) on thread th. *)

\* The call: before the first shard.
ReleaseAllCall(th, t) ==
  /\ sweep[th] = Idle
  /\ sweep' = [sweep EXCEPT ![th] =
       [pc |-> "waiting", txn |-> t, shard |-> 0,
        points |-> <<>>, spans |-> <<>>, released |-> 0]]
  /\ UNCHANGED <<locks, by_txn, ranges, range_by_txn>>

\* Mutant: the point index is read and not taken out of the map.
index_taken_not(index, t) == index

index_taken(index, t) == remove(index, t)

\* Lock the shard; take the transaction's two index vectors.  (The source takes
\* the second after it has walked the first, still inside the same section.)
ReleaseAllLock(th) ==
  LET t == sweep[th].txn
      s == sweep[th].shard
  IN  /\ sweep[th].pc = "waiting"
      /\ ShardFree(s)
      /\ sweep' = [sweep EXCEPT ![th].pc = "inside",
                                ![th].points = entry_or_new(by_txn[s], t),
                                ![th].spans = entry_or_new(range_by_txn[s], t)]
      /\ by_txn' = [by_txn EXCEPT ![s] = index_taken(@, t)]
      /\ range_by_txn' = [range_by_txn EXCEPT ![s] = index_taken(@, t)]
      /\ UNCHANGED <<locks, ranges>>

\* One iteration of `for res in resources`.
ReleaseAllPoint(th) ==
  LET t == sweep[th].txn
      s == sweep[th].shard
      r == Head(sweep[th].points)
      P == Positions(entry_or_new(locks[s], r), t)
  IN  /\ sweep[th].pc = "inside"
      /\ sweep[th].points # <<>>
      /\ IF P = {}
         THEN /\ sweep' = [sweep EXCEPT ![th].points = Tail(@)]
              /\ UNCHANGED locks
         ELSE /\ sweep' = [sweep EXCEPT ![th].points = Tail(@),
                                        ![th].released = @ + 1]
              /\ locks' = [locks EXCEPT ![s] = drop(@, r, first(P))]
      /\ UNCHANGED <<by_txn, ranges, range_by_txn>>

\* One iteration of `for (space, range) in spaces`.
ReleaseAllSpan(th) ==
  LET t == sweep[th].txn
      s == sweep[th].shard
      sp == Head(sweep[th].spans)[1]
      k == Head(sweep[th].spans)[2]
      P == RangePositions(entry_or_new(ranges[s], sp), t, k)
  IN  /\ sweep[th].pc = "inside"
      /\ sweep[th].points = <<>>
      /\ sweep[th].spans # <<>>
      /\ IF P = {}
         THEN /\ sweep' = [sweep EXCEPT ![th].spans = Tail(@)]
              /\ UNCHANGED ranges
         ELSE /\ sweep' = [sweep EXCEPT ![th].spans = Tail(@),
                                        ![th].released = @ + 1]
              /\ ranges' = [ranges EXCEPT ![s] = drop(@, sp, first(P))]
      /\ UNCHANGED <<locks, by_txn, range_by_txn>>

\* Mutant: the range locks of the shard are left behind.
ShardSwept_points_only(th) ==
  /\ sweep[th].pc = "inside"
  /\ sweep[th].points = <<>>

\* Both loops of the shard are done.
ShardSwept(th) ==
  /\ sweep[th].pc = "inside"
  /\ sweep[th].points = <<>>
  /\ sweep[th].spans = <<>>

\* Mutant: the loop over the shards runs once too often.
after_shard_too_far(sw) == [sw EXCEPT !.pc = "waiting", !.shard = @ + 1]

\* What follows the last statement of a shard: the next one, or the return.
after_shard(sw) ==
  IF sw.shard + 1 \in Shards
  THEN [sw EXCEPT !.pc = "waiting", !.shard = @ + 1]
  ELSE Idle

\* Unlock the shard.
ReleaseAllUnlock(th) ==
  /\ ShardSwept(th)
  /\ sweep' = [sweep EXCEPT ![th] = after_shard(@)]
  /\ UNCHANGED <<locks, by_txn, ranges, range_by_txn>>

ReleaseAllStep(th) ==
  \/ ReleaseAllLock(th)
  \/ ReleaseAllPoint(th)
  \/ ReleaseAllSpan(th)
  \/ ReleaseAllUnlock(th)

-----------------------------------------------------------------------------
(* The specification. *)

TableNext ==
  \/ \E t \in TxnId, r \in PointIds :
       \/ \E m \in RequestModes : try_acquire(t, r, m)
       \/ release(t, r)
  \/ \E t \in TxnId, sp \in SpaceIds, k \in RequestRanges :
       \/ \E m \in RequestModes : try_acquire_range(t, sp, k, m)
       \/ release_range(t, sp, k)
  \/ \E th \in Threads, t \in TxnId : ReleaseAllCall(th, t)
  \/ \E th \in Threads : ReleaseAllStep(th)

TableSpec == TableInit /\ [][TableNext]_tableVars

-----------------------------------------------------------------------------
(* What the table promises. *)

\* No transaction is listed twice, and any two holders have compatible modes.
CompatibleHolders(holders) ==
  \A i, j \in 1 .. Len(holders) :
     i # j => /\ holders[i].txn # holders[j].txn
              /\ compatible_with(holders[i].mode, holders[j].mode)

\* An incompatible grant is never issued, however grants, in-place upgrades,
\* swap-removes and sweeps interleave (try_grant_locked, release, release_all).
HoldersCompatible ==
  \A s \in Shards : \A r \in DOMAIN locks[s] : CompatibleHolders(locks[s][r])

CompatibleRanges(holders) ==
  \A i, j \in 1 .. Len(holders) : \A key \in Key :
     /\ holders[i].txn # holders[j].txn
     /\ contains(holders[i].range, key)
     /\ contains(holders[j].range, key)
     => compatible_with(holders[i].mode, holders[j].mode)

\* No two transactions hold incompatible range locks over a common key
\* (try_acquire_range): stated key by key, not through overlaps.
RangeKeysCompatible ==
  \A s \in Shards : \A sp \in DOMAIN ranges[s] : CompatibleRanges(ranges[s][sp])

\* The maps hold no empty vector, so a table whose locks are all released is
\* empty again: a refused request leaves no entry behind, and the last release
\* takes the entry away (or_insert_with and the is_empty tests); and an entry is
\* only ever in the shard its resource hashes to.
NoResidue ==
  \A s \in Shards :
     /\ \A r \in DOMAIN locks[s] : locks[s][r] # <<>> /\ shard_index[r] = s
     /\ \A r \in DOMAIN ranges[s] : ranges[s][r] # <<>> /\ shard_index[r] = s
     /\ \A t \in DOMAIN by_txn[s] : by_txn[s][t] # <<>>
     /\ \A t \in DOMAIN range_by_txn[s] : range_by_txn[s][t] # <<>>

\* A request is refused exactly when holders_blocking names somebody: the grant
\* path tests the join of the held and the requested mode, or stops at covers,
\* while the wait-for graph is built from the requested mode alone.  Were the
\* two to differ, a refused waiter could be without an edge and its deadlock
\* never be seen.
RefusedIffBlocked ==
  \A t \in TxnId, r \in PointIds, m \in RequestModes :
     grants(entry_or_new(locks[shard_index[r]], r), t, m)
       <=> holders_blocking(t, r, m) = {}

\* The threads that are releasing t's locks in shard s.
Sweepers(s, t) == {th \in Threads : Inside(th, s) /\ sweep[th].txn = t}

\* t's reverse index of a shard: the stored vector, or what is left of it.
PointIndex(s, t) ==
  IF Sweepers(s, t) = {} THEN entry_or_new(by_txn[s], t)
  ELSE sweep[CHOOSE th \in Sweepers(s, t) : TRUE].points

SpanIndex(s, t) ==
  IF Sweepers(s, t) = {} THEN entry_or_new(range_by_txn[s], t)
  ELSE sweep[CHOOSE th \in Sweepers(s, t) : TRUE].spans

\* The reverse index lists exactly the resources the transaction holds, each
\* once; release_all, which walks only the index, can miss no point lock
\* (by_txn, forget_resource, and the upgrade path that must not index again).
IndexExact ==
  \A s \in Shards, t \in TxnId :
     LET v == PointIndex(s, t)
     IN  /\ \A i, j \in 1 .. Len(v) : i # j => v[i] # v[j]
         /\ Elems(v) = {r \in DOMAIN locks[s] : Holds(locks[s][r], t)}
         /\ Sweepers(s, t) # {} => t \notin DOMAIN by_txn[s]

\* A transaction may hold one range several times; its index lists the range
\* that many times (range_by_txn, forget_range).
RangeIndexExact ==
  \A s \in Shards, t \in TxnId :
     LET v == SpanIndex(s, t)
     IN  /\ \A sp \in SpaceIds, k \in RequestRanges :
              Cardinality({i \in 1 .. Len(v) : v[i] = <<sp, k>>})
                = Cardinality(RangePositions(entry_or_new(ranges[s], sp), t, k))
         /\ Sweepers(s, t) # {} => t \notin DOMAIN range_by_txn[s]

\* When release_all leaves a shard, its transaction holds nothing in it, point
\* or range, and both indexes have forgotten it.
SweptClean ==
  \A th \in Threads : ShardSwept(th) =>
     LET t == sweep[th].txn
         s == sweep[th].shard
     IN  /\ \A r \in DOMAIN locks[s] : ~Holds(locks[s][r], t)
         /\ \A sp \in DOMAIN ranges[s] :
              \A i \in 1 .. Len(ranges[s][sp]) : ranges[s][sp][i].txn # t
         /\ t \notin DOMAIN by_txn[s] /\ t \notin DOMAIN range_by_txn[s]

-----------------------------------------------------------------------------
(* The table implements AbstractLocks. *)

\* Each holder of r with its mode, whatever the order of the vector.
AbstractHeld(r) ==
  LET holders == entry_or_new(locks[shard_index[r]], r)
  IN  [t \in {holders[i].txn : i \in 1 .. Len(holders)} |->
         holders[first(Positions(holders, t))].mode]

\* How often t holds the range p[2] of space p[1] in mode m.
AbstractSpans(t, p, m) ==
  LET holders == entry_or_new(ranges[shard_index[p[1]]], p[1])
  IN  Cardinality({i \in RangePositions(holders, t, p[2]) : holders[i].mode = m})

Abstract == INSTANCE AbstractLocks WITH
  Resources <- PointIds,
  Ranges <- SpaceIds \X RequestRanges,
  Modes <- RequestModes,
  held <- [r \in PointIds |-> AbstractHeld(r)],
  spans <- [x \in TxnId \X (SpaceIds \X RequestRanges) \X RequestModes |->
              AbstractSpans(x[1], x[2], x[3])]

\* Every operation of the table, and every single step of release_all, changes
\* at most one lock of one transaction, in the way AbstractLocks allows: a grant
\* joins modes and is compatible with every other holder, a swap_remove takes
\* away no one else's lock, an index update takes away none.
ImplementsAbstract == Abstract!Spec

=============================================================================
