-------------------------- MODULE LockTableProofs --------------------------
(***************************************************************************)
(* The lock table is type correct and never issues an incompatible grant;  *)
(* its reverse indexes are exact, its maps hold nothing that is not        *)
(* locked, release_all misses nothing, and the table implements            *)
(* AbstractLocks: for every number of transactions, resources, shards,     *)
(* threads, keys and range locks.                                          *)
(***************************************************************************)
EXTENDS LockTable, DataProofs, FiniteSetTheorems

-----------------------------------------------------------------------------
(* Operations on one vector of holders. *)

\* iter().position finds a holder of t whenever there is one.
LEMMA PositionFound ==
  ASSUME NEW h \in Seq(Holder), NEW t, Holds(h, t)
  PROVE  LET pos == first(Positions(h, t))
         IN  pos \in 1 .. Len(h) /\ h[pos].txn = t
<1>1. Positions(h, t) \in SUBSET Nat
  BY DEF Positions
<1>2. first(Positions(h, t)) \in Positions(h, t)
  BY <1>1, FirstIsLeast DEF Holds
<1> QED
  BY <1>2 DEF Positions

\* A grant leaves a vector of holders (try_grant_locked).
LEMMA GrantedType ==
  ASSUME NEW h \in Seq(Holder), NEW t \in TxnId, NEW m \in LockModes
  PROVE  granted(h, t, m) \in Seq(Holder)
<1>1. CASE Holds(h, t)
  <2> DEFINE pos == first(Positions(h, t))
             target == IF covers(h[pos].mode, m) THEN h[pos].mode ELSE join(h[pos].mode, m)
  <2>1. pos \in 1 .. Len(h) /\ h[pos] \in Holder
    BY <1>1, PositionFound
  <2>2. target \in LockModes
    BY <2>1, JoinType DEF Holder
  <2>3. granted(h, t, m) = [h EXCEPT ![pos].mode = target]
    BY <1>1 DEF granted
  <2>4. [h[pos] EXCEPT !.mode = target] \in Holder
    BY <2>1, <2>2 DEF Holder
  <2> HIDE DEF pos, target
  <2> QED
    BY <2>1, <2>3, <2>4
<1>2. CASE ~Holds(h, t)
  BY <1>2 DEF granted, Holder
<1> QED
  BY <1>1, <1>2

\* The heart of the safety argument: what try_grant_locked leaves behind after
\* it has granted is compatible if it was before.  An upgrade is tested against
\* all other holders, a covered request changes nothing.
LEMMA GrantedCompatible ==
  ASSUME NEW h \in Seq(Holder), NEW t \in TxnId, NEW m \in LockModes,
         CompatibleHolders(h), grants(h, t, m)
  PROVE  CompatibleHolders(granted(h, t, m))
<1>1. \A i \in 1 .. Len(h) : h[i] \in Holder /\ h[i].txn \in TxnId /\ h[i].mode \in LockModes
  <2>1. \A i \in 1 .. Len(h) : h[i] \in Holder
    OBVIOUS
  <2> QED
    BY <2>1 DEF Holder
<1>2. CASE Holds(h, t)
  <2> DEFINE pos == first(Positions(h, t))
             current == h[pos].mode
             target == IF covers(current, m) THEN current ELSE join(current, m)
             g == granted(h, t, m)
  <2>1. pos \in 1 .. Len(h) /\ h[pos].txn = t /\ current \in LockModes
    BY <1>1, <1>2, PositionFound
  <2>2. g = [h EXCEPT ![pos].mode = target]
    BY <1>2 DEF granted
  <2>3. target \in LockModes
    BY <2>1, JoinType
  <2>4. \A i \in 1 .. Len(h) : i # pos => compatible_with(h[i].mode, target)
    <3>1. CASE covers(current, m)
      BY <2>1, <3>1 DEF CompatibleHolders
    <3>2. CASE ~covers(current, m)
      BY <1>2, <3>2 DEF grants
    <3> QED
      BY <3>1, <3>2
  <2>5. Len(g) = Len(h)
    BY <2>1, <2>2
  <2>6. g[pos] = [h[pos] EXCEPT !.mode = target]
    BY <2>1, <2>2
  <2>7. g[pos].txn = t /\ g[pos].mode = target
    BY <1>1, <2>1, <2>6 DEF Holder
  <2>8. \A i \in 1 .. Len(h) : i # pos => g[i] = h[i]
    BY <2>1, <2>2
  <2> HIDE DEF pos, current, target, g
  <2>9. SUFFICES ASSUME NEW i \in 1 .. Len(h), NEW j \in 1 .. Len(h), i # j
                 PROVE  /\ g[i].txn # g[j].txn
                        /\ compatible_with(g[i].mode, g[j].mode)
    BY <2>5 DEF CompatibleHolders, g
  <2>10. CASE i = pos
    <3>1. h[j].txn # t
      BY <2>1, <2>9, <2>10 DEF CompatibleHolders
    <3>2. compatible_with(h[j].mode, target)
      BY <2>4, <2>9, <2>10
    <3>3. compatible_with(target, h[j].mode)
      BY <1>1, <2>3, <3>2, CompatibleSymmetric
    <3> QED
      BY <2>7, <2>8, <2>9, <2>10, <3>1, <3>3
  <2>11. CASE j = pos
    <3>1. h[i].txn # t
      BY <2>1, <2>9, <2>11 DEF CompatibleHolders
    <3> QED
      BY <2>4, <2>7, <2>8, <2>9, <2>11, <3>1
  <2>12. CASE i # pos /\ j # pos
    BY <2>8, <2>9, <2>12 DEF CompatibleHolders
  <2> QED
    BY <2>10, <2>11, <2>12
<1>3. CASE ~Holds(h, t)
  <2> DEFINE added == [txn |-> t, mode |-> m]
             g == Append(h, added)
  <2>1. granted(h, t, m) = g
    BY <1>3 DEF granted
  <2>2. \A i \in 1 .. Len(h) : h[i].txn # t
    BY <1>3 DEF Holds, Positions
  <2>3. \A i \in 1 .. Len(h) : compatible_with(h[i].mode, m)
    BY <1>3 DEF grants
  <2>4. \A i \in 1 .. Len(h) : compatible_with(m, h[i].mode)
    BY <1>1, <2>3, CompatibleSymmetric
  <2>5. Len(g) = Len(h) + 1 /\ g[Len(h) + 1] = added /\ \A i \in 1 .. Len(h) : g[i] = h[i]
    BY DEF Holder
  <2> HIDE DEF g
  <2>6. SUFFICES ASSUME NEW i \in 1 .. Len(h) + 1, NEW j \in 1 .. Len(h) + 1, i # j
                 PROVE  /\ g[i].txn # g[j].txn
                        /\ compatible_with(g[i].mode, g[j].mode)
    BY <2>1, <2>5 DEF CompatibleHolders
  <2>7. CASE i = Len(h) + 1
    <3>1. j \in 1 .. Len(h)
      BY <2>6, <2>7
    <3> QED
      BY <2>2, <2>4, <2>5, <2>7, <3>1
  <2>8. CASE j = Len(h) + 1
    <3>1. i \in 1 .. Len(h)
      BY <2>6, <2>8
    <3> QED
      BY <2>2, <2>3, <2>5, <2>8, <3>1
  <2>9. CASE i # Len(h) + 1 /\ j # Len(h) + 1
    <3>1. i \in 1 .. Len(h) /\ j \in 1 .. Len(h)
      BY <2>9
    <3> QED
      BY <2>5, <2>6, <3>1 DEF CompatibleHolders
  <2> QED
    BY <2>7, <2>8, <2>9
<1> QED
  BY <1>2, <1>3

\* Taking a holder out, in whatever order that leaves the rest, keeps the others
\* compatible.
LEMMA SwapRemoveCompatible ==
  ASSUME NEW h \in Seq(Holder), NEW i \in 1 .. Len(h), CompatibleHolders(h)
  PROVE  CompatibleHolders(swap_remove(h, i))
<1> DEFINE w == swap_remove(h, i)
           old(k) == IF k = i THEN Len(h) ELSE k
<1>1. /\ Len(w) = Len(h) - 1
      /\ \A k \in 1 .. Len(h) - 1 : w[k] = h[old(k)]
  BY SwapRemoveType
<1>2. \A k \in 1 .. Len(h) - 1 : old(k) \in 1 .. Len(h)
  OBVIOUS
<1>3. \A k, l \in 1 .. Len(h) - 1 : k # l => old(k) # old(l)
  OBVIOUS
<1> HIDE DEF w, old
<1>4. SUFFICES ASSUME NEW k \in 1 .. Len(h) - 1, NEW l \in 1 .. Len(h) - 1, k # l
               PROVE  /\ w[k].txn # w[l].txn
                      /\ compatible_with(w[k].mode, w[l].mode)
  BY <1>1 DEF CompatibleHolders, w
<1> QED
  BY <1>1, <1>2, <1>3, <1>4 DEF CompatibleHolders

-----------------------------------------------------------------------------
(* Operations on the maps of one shard. *)

\* by_txn stays a map to vectors of resources when a grant is recorded.
LEMMA IndexedType ==
  ASSUME NEW index, IsHashMap(index, TxnId, Seq(ResourceId)), NEW h,
         NEW t \in TxnId, NEW r \in ResourceId
  PROVE  IsHashMap(indexed(index, h, t, r), TxnId, Seq(ResourceId))
<1>1. entry_or_new(index, t) \in Seq(ResourceId)
  BY EntryType
<1>2. Append(entry_or_new(index, t), r) \in Seq(ResourceId)
  BY <1>1
<1>3. IsHashMap(insert(index, t, Append(entry_or_new(index, t), r)), TxnId, Seq(ResourceId))
  BY <1>2, InsertType
<1> QED
  BY <1>3 DEF indexed

\* forget_resource and forget_range keep the type of their index.
LEMMA ForgetType ==
  ASSUME NEW E, NEW index, IsHashMap(index, TxnId, Seq(E)), NEW t, NEW e
  PROVE  IsHashMap(forget(index, t, e), TxnId, Seq(E))
<1>1. CASE t \notin DOMAIN index
  BY <1>1 DEF forget
<1>2. CASE t \in DOMAIN index
  <2> DEFINE P == {i \in 1 .. Len(index[t]) : index[t][i] = e}
  <2>1. index[t] \in Seq(E)
    BY <1>2 DEF IsHashMap
  <2>2. P \in SUBSET Nat
    OBVIOUS
  <2>3. CASE P # {}
    <3>1. first(P) \in P
      BY <2>2, <2>3, FirstIsLeast
    <3>2. IsHashMap(drop(index, t, first(P)), TxnId, Seq(E))
      BY <1>2, <3>1, DropType
    <3> QED
      BY <1>2, <2>3, <3>2 DEF forget
  <2>4. CASE P = {}
    <3>1. IsHashMap(remove(index, t), TxnId, Seq(E))
      BY RemoveType
    <3> QED
      BY <1>2, <2>4, <3>1 DEF forget
  <2> QED
    BY <2>3, <2>4
<1> QED
  BY <1>1, <1>2

\* The point locks of one shard, well formed.
GoodLocks(m) ==
  /\ IsHashMap(m, ResourceId, Seq(Holder))
  /\ \A r \in DOMAIN m : CompatibleHolders(m[r])

\* The holders of a resource, none if it has no entry, are compatible.
LEMMA EntryGood ==
  ASSUME NEW m, GoodLocks(m), NEW r
  PROVE  entry_or_new(m, r) \in Seq(Holder) /\ CompatibleHolders(entry_or_new(m, r))
<1>1. entry_or_new(m, r) \in Seq(Holder)
  BY EntryType DEF GoodLocks
<1>2. CompatibleHolders(<<>>)
  BY DEF CompatibleHolders
<1> QED
  BY <1>1, <1>2 DEF entry_or_new, GoodLocks

\* Storing compatible holders keeps the map good (try_grant_locked).
LEMMA InsertGood ==
  ASSUME NEW m, GoodLocks(m), NEW r \in ResourceId,
         NEW h \in Seq(Holder), CompatibleHolders(h)
  PROVE  GoodLocks(insert(m, r, h))
<1>1. IsHashMap(insert(m, r, h), ResourceId, Seq(Holder))
  BY InsertType DEF GoodLocks
<1>2. /\ DOMAIN insert(m, r, h) = DOMAIN m \cup {r}
      /\ \A x \in DOMAIN m \cup {r} : insert(m, r, h)[x] = IF x = r THEN h ELSE m[x]
  BY DEF insert
<1>3. \A x \in DOMAIN insert(m, r, h) : CompatibleHolders(insert(m, r, h)[x])
  BY <1>2 DEF GoodLocks
<1> QED
  BY <1>1, <1>3 DEF GoodLocks

\* Taking one holder out keeps the map good (release, release_all).
LEMMA DropGood ==
  ASSUME NEW m, GoodLocks(m), NEW r, NEW t, Positions(entry_or_new(m, r), t) # {}
  PROVE  GoodLocks(drop(m, r, first(Positions(entry_or_new(m, r), t))))
<1> DEFINE h == entry_or_new(m, r)
           pos == first(Positions(h, t))
<1>1. h \in Seq(Holder) /\ CompatibleHolders(h)
  BY EntryGood
<1>2. pos \in 1 .. Len(h)
  BY <1>1, PositionFound DEF Holds
<1>3. r \in DOMAIN m /\ h = m[r]
  BY <1>2 DEF entry_or_new
<1>4. CompatibleHolders(swap_remove(m[r], pos))
  BY <1>1, <1>2, <1>3, SwapRemoveCompatible
<1> HIDE DEF pos, h
<1>5. IsHashMap(drop(m, r, pos), ResourceId, Seq(Holder))
  BY <1>2, <1>3, DropType DEF GoodLocks
<1> QED
  BY <1>3, <1>4, <1>5, DropValue DEF GoodLocks, pos, h

-----------------------------------------------------------------------------
(* The range locks of one shard, in the same way. *)

GoodRanges(m) ==
  /\ IsHashMap(m, ResourceId, Seq(RangeHolder))
  /\ \A sp \in DOMAIN m : CompatibleRanges(m[sp])

\* position(..) finds a holder of the range whenever there is one (release_range).
LEMMA RangePositionFound ==
  ASSUME NEW h \in Seq(RangeHolder), NEW t, NEW k, RangePositions(h, t, k) # {}
  PROVE  first(RangePositions(h, t, k)) \in 1 .. Len(h)
<1>1. RangePositions(h, t, k) \in SUBSET Nat
  BY DEF RangePositions
<1>2. first(RangePositions(h, t, k)) \in RangePositions(h, t, k)
  BY <1>1, FirstIsLeast
<1> QED
  BY <1>2 DEF RangePositions

\* A range lock granted is compatible, key by key, with those of the others.
LEMMA RangeGrantedCompatible ==
  ASSUME NEW h \in Seq(RangeHolder), NEW t \in TxnId, NEW k \in KeyRanges,
         NEW m \in LockModes, CompatibleRanges(h), ~range_conflict(h, t, k, m)
  PROVE  CompatibleRanges(Append(h, [txn |-> t, range |-> k, mode |-> m]))
<1> DEFINE added == [txn |-> t, range |-> k, mode |-> m]
           g == Append(h, added)
<1>1. \A i \in 1 .. Len(h) : h[i] \in RangeHolder
  OBVIOUS
<1>2. \A i \in 1 .. Len(h) : h[i].range \in KeyRanges /\ h[i].mode \in LockModes
  BY <1>1 DEF RangeHolder
<1>3. \A i \in 1 .. Len(h) :
         h[i].txn # t /\ overlaps(h[i].range, k) => compatible_with(h[i].mode, m)
  BY DEF range_conflict
<1>4. \A i \in 1 .. Len(h), key \in Key :
         h[i].txn # t /\ contains(h[i].range, key) /\ contains(k, key)
           => compatible_with(h[i].mode, m) /\ compatible_with(m, h[i].mode)
  <2> TAKE i \in 1 .. Len(h), key \in Key
  <2> HAVE h[i].txn # t /\ contains(h[i].range, key) /\ contains(k, key)
  <2>1. overlaps(h[i].range, k)
    BY <1>2, OverlapsIffCommonKey
  <2>2. compatible_with(h[i].mode, m)
    BY <1>3, <2>1
  <2> QED
    BY <1>2, <2>2, CompatibleSymmetric
<1>5. added \in RangeHolder
  BY DEF RangeHolder
<1>6. Len(g) = Len(h) + 1 /\ g[Len(h) + 1] = added /\ \A i \in 1 .. Len(h) : g[i] = h[i]
  BY <1>5
<1> HIDE DEF g
<1>7. SUFFICES ASSUME NEW i \in 1 .. Len(h) + 1, NEW j \in 1 .. Len(h) + 1, NEW key \in Key,
                      g[i].txn # g[j].txn, contains(g[i].range, key), contains(g[j].range, key)
               PROVE  compatible_with(g[i].mode, g[j].mode)
  BY <1>6 DEF CompatibleRanges, g
<1>8. CASE i = Len(h) + 1
  <2>1. j \in 1 .. Len(h)
    BY <1>7, <1>8
  <2> QED
    BY <1>4, <1>6, <1>7, <1>8, <2>1
<1>9. CASE j = Len(h) + 1
  <2>1. i \in 1 .. Len(h)
    BY <1>7, <1>9
  <2> QED
    BY <1>4, <1>6, <1>7, <1>9, <2>1
<1>10. CASE i # Len(h) + 1 /\ j # Len(h) + 1
  <2>1. i \in 1 .. Len(h) /\ j \in 1 .. Len(h)
    BY <1>10
  <2> QED
    BY <1>6, <1>7, <2>1 DEF CompatibleRanges
<1> QED
  BY <1>8, <1>9, <1>10

\* The holders left by a swap_remove are still compatible (release_range).
LEMMA RangeSwapRemoveCompatible ==
  ASSUME NEW h \in Seq(RangeHolder), NEW i \in 1 .. Len(h), CompatibleRanges(h)
  PROVE  CompatibleRanges(swap_remove(h, i))
<1> DEFINE w == swap_remove(h, i)
           old(k) == IF k = i THEN Len(h) ELSE k
<1>1. /\ Len(w) = Len(h) - 1
      /\ \A k \in 1 .. Len(h) - 1 : w[k] = h[old(k)]
  BY SwapRemoveType
<1>2. \A k \in 1 .. Len(h) - 1 : old(k) \in 1 .. Len(h)
  OBVIOUS
<1> HIDE DEF w, old
<1>3. SUFFICES ASSUME NEW k \in 1 .. Len(h) - 1, NEW l \in 1 .. Len(h) - 1, NEW key \in Key,
                      w[k].txn # w[l].txn, contains(w[k].range, key), contains(w[l].range, key)
               PROVE  compatible_with(w[k].mode, w[l].mode)
  BY <1>1 DEF CompatibleRanges, w
<1> QED
  BY <1>1, <1>2, <1>3 DEF CompatibleRanges

\* The range holders of a space, none if it has no entry, are compatible.
LEMMA RangeEntryGood ==
  ASSUME NEW m, GoodRanges(m), NEW sp
  PROVE  entry_or_new(m, sp) \in Seq(RangeHolder) /\ CompatibleRanges(entry_or_new(m, sp))
<1>1. entry_or_new(m, sp) \in Seq(RangeHolder)
  BY EntryType DEF GoodRanges
<1>2. CompatibleRanges(<<>>)
  BY DEF CompatibleRanges
<1> QED
  BY <1>1, <1>2 DEF entry_or_new, GoodRanges

\* Storing compatible range holders keeps the map good (try_acquire_range).
LEMMA RangeInsertGood ==
  ASSUME NEW m, GoodRanges(m), NEW sp \in ResourceId,
         NEW h \in Seq(RangeHolder), CompatibleRanges(h)
  PROVE  GoodRanges(insert(m, sp, h))
<1>1. IsHashMap(insert(m, sp, h), ResourceId, Seq(RangeHolder))
  BY InsertType DEF GoodRanges
<1>2. /\ DOMAIN insert(m, sp, h) = DOMAIN m \cup {sp}
      /\ \A x \in DOMAIN m \cup {sp} : insert(m, sp, h)[x] = IF x = sp THEN h ELSE m[x]
  BY DEF insert
<1>3. \A x \in DOMAIN insert(m, sp, h) : CompatibleRanges(insert(m, sp, h)[x])
  BY <1>2 DEF GoodRanges
<1> QED
  BY <1>1, <1>3 DEF GoodRanges

\* Taking one range holder out keeps the map good (release_range, release_all).
LEMMA RangeDropGood ==
  ASSUME NEW m, GoodRanges(m), NEW sp, NEW t, NEW k,
         RangePositions(entry_or_new(m, sp), t, k) # {}
  PROVE  GoodRanges(drop(m, sp, first(RangePositions(entry_or_new(m, sp), t, k))))
<1> DEFINE h == entry_or_new(m, sp)
           pos == first(RangePositions(h, t, k))
<1>1. h \in Seq(RangeHolder) /\ CompatibleRanges(h)
  BY RangeEntryGood
<1>2. pos \in 1 .. Len(h)
  BY <1>1, RangePositionFound
<1>3. sp \in DOMAIN m /\ h = m[sp]
  BY <1>2 DEF entry_or_new
<1>4. CompatibleRanges(swap_remove(m[sp], pos))
  BY <1>1, <1>2, <1>3, RangeSwapRemoveCompatible
<1> HIDE DEF pos, h
<1>5. IsHashMap(drop(m, sp, pos), ResourceId, Seq(RangeHolder))
  BY <1>2, <1>3, DropType DEF GoodRanges
<1> QED
  BY <1>3, <1>4, <1>5, DropValue DEF GoodRanges, pos, h

-----------------------------------------------------------------------------
(* The inductive invariant: TypeOK, HoldersCompatible and                   *)
(* RangeKeysCompatible, regrouped by variable and stated shard by shard.    *)

LocksInv == DOMAIN locks = Shards /\ \A s \in Shards : GoodLocks(locks[s])

IndexInv ==
  DOMAIN by_txn = Shards /\ \A s \in Shards : IsHashMap(by_txn[s], TxnId, Seq(ResourceId))

RangesInv == DOMAIN ranges = Shards /\ \A s \in Shards : GoodRanges(ranges[s])

RangeIndexInv ==
  /\ DOMAIN range_by_txn = Shards
  /\ \A s \in Shards : IsHashMap(range_by_txn[s], TxnId, Seq(ResourceId \X KeyRanges))

SweepInv == sweep \in [Threads -> Sweep \cup {Idle}]

IInv == LocksInv /\ IndexInv /\ RangesInv /\ RangeIndexInv /\ SweepInv

\* A new manager satisfies the invariant (with_shards).
LEMMA InitIInv == TableInit => IInv
<1> SUFFICES ASSUME TableInit PROVE IInv
  OBVIOUS
<1>1. LocksInv
  <2>1. IsHashMap(EmptyMap, ResourceId, Seq(Holder)) /\ DOMAIN EmptyMap = {}
    BY EmptyMapType
  <2> QED
    BY <2>1 DEF TableInit, LocksInv, GoodLocks
<1>2. IndexInv
  <2>1. IsHashMap(EmptyMap, TxnId, Seq(ResourceId))
    BY EmptyMapType
  <2> QED
    BY <2>1 DEF TableInit, IndexInv
<1>3. RangesInv
  <2>1. IsHashMap(EmptyMap, ResourceId, Seq(RangeHolder)) /\ DOMAIN EmptyMap = {}
    BY EmptyMapType
  <2> QED
    BY <2>1 DEF TableInit, RangesInv, GoodRanges
<1>4. RangeIndexInv
  <2>1. IsHashMap(EmptyMap, TxnId, Seq(ResourceId \X KeyRanges))
    BY EmptyMapType
  <2> QED
    BY <2>1 DEF TableInit, RangeIndexInv
<1>5. SweepInv
  BY DEF TableInit, SweepInv
<1> QED
  BY <1>1, <1>2, <1>3, <1>4, <1>5 DEF IInv

\* The arguments of the clients' calls.
LEMMA Arguments ==
  /\ \A r \in PointIds \cup SpaceIds : r \in ResourceId /\ shard_index[r] \in Shards
  /\ \A m \in RequestModes : m \in LockModes
  /\ \A k \in RequestRanges : k \in KeyRanges
BY TableAssumption

\* try_acquire preserves it: a granted mode is compatible with all other holders.
LEMMA TryAcquireIInv ==
  ASSUME IInv, NEW t \in TxnId, NEW r \in PointIds, NEW m \in RequestModes,
         try_acquire(t, r, m)
  PROVE  IInv'
<1> DEFINE s == shard_index[r]
           h == entry_or_new(locks[s], r)
<1>1. r \in ResourceId /\ s \in Shards /\ m \in LockModes
  BY Arguments
<1>2. GoodLocks(locks[s]) /\ h \in Seq(Holder) /\ CompatibleHolders(h)
  BY <1>1, EntryGood DEF IInv, LocksInv
<1>3. LocksInv' /\ IndexInv'
  <2>1. CASE grants(h, t, m)
    <3>1. GoodLocks(insert(locks[s], r, granted(h, t, m)))
      <4>1. granted(h, t, m) \in Seq(Holder)
        BY <1>1, <1>2, GrantedType
      <4>2. CompatibleHolders(granted(h, t, m))
        BY <1>1, <1>2, <2>1, GrantedCompatible
      <4> QED
        BY <1>1, <1>2, <4>1, <4>2, InsertGood
    <3>2. IsHashMap(indexed(by_txn[s], h, t, r), TxnId, Seq(ResourceId))
      BY <1>1, IndexedType DEF IInv, IndexInv
    <3>3. /\ locks' = [locks EXCEPT ![s] = insert(locks[s], r, granted(h, t, m))]
          /\ by_txn' = [by_txn EXCEPT ![s] = indexed(by_txn[s], h, t, r)]
      BY <2>1 DEF try_acquire, try_grant_locked
    <3>4. LocksInv'
      BY <1>1, <3>1, <3>3 DEF IInv, LocksInv
    <3>5. IndexInv'
      BY <1>1, <3>2, <3>3 DEF IInv, IndexInv
    <3> QED
      BY <3>4, <3>5
  <2>2. CASE ~grants(h, t, m)
    <3>1. GoodLocks(insert(locks[s], r, h))
      BY <1>1, <1>2, InsertGood
    <3>2. locks' = [locks EXCEPT ![s] = insert(locks[s], r, h)] /\ by_txn' = by_txn
      BY <2>2 DEF try_acquire, try_grant_locked
    <3>3. LocksInv'
      BY <1>1, <3>1, <3>2 DEF IInv, LocksInv
    <3>4. IndexInv'
      BY <3>2 DEF IInv, IndexInv
    <3> QED
      BY <3>3, <3>4
  <2> QED
    BY <2>1, <2>2
<1>4. RangesInv' /\ RangeIndexInv' /\ SweepInv'
  BY DEF try_acquire, IInv, RangesInv, RangeIndexInv, SweepInv
<1> QED
  BY <1>3, <1>4 DEF IInv

\* release preserves it.
LEMMA ReleaseIInv ==
  ASSUME IInv, NEW t \in TxnId, NEW r \in PointIds, release(t, r)
  PROVE  IInv'
<1> DEFINE s == shard_index[r]
           P == Positions(entry_or_new(locks[s], r), t)
<1>1. s \in Shards
  BY Arguments
<1>2. LocksInv' /\ IndexInv'
  <2>1. CASE P = {}
    BY <2>1 DEF release, IInv, LocksInv, IndexInv
  <2>2. CASE P # {}
    <3>1. GoodLocks(drop(locks[s], r, first(P)))
      BY <1>1, <2>2, DropGood DEF IInv, LocksInv
    <3>2. IsHashMap(forget(by_txn[s], t, r), TxnId, Seq(ResourceId))
      BY <1>1, ForgetType DEF IInv, IndexInv
    <3>3. /\ locks' = [locks EXCEPT ![s] = drop(locks[s], r, first(P))]
          /\ by_txn' = [by_txn EXCEPT ![s] = forget(by_txn[s], t, r)]
      BY <2>2 DEF release
    <3>4. LocksInv'
      BY <1>1, <3>1, <3>3 DEF IInv, LocksInv
    <3>5. IndexInv'
      BY <1>1, <3>2, <3>3 DEF IInv, IndexInv
    <3> QED
      BY <3>4, <3>5
  <2> QED
    BY <2>1, <2>2
<1>3. RangesInv' /\ RangeIndexInv' /\ SweepInv'
  BY DEF release, IInv, RangesInv, RangeIndexInv, SweepInv
<1> QED
  BY <1>2, <1>3 DEF IInv

\* try_acquire_range preserves it: overlapping locks of others are compatible.
LEMMA TryAcquireRangeIInv ==
  ASSUME IInv, NEW t \in TxnId, NEW sp \in SpaceIds, NEW k \in RequestRanges,
         NEW m \in RequestModes, try_acquire_range(t, sp, k, m)
  PROVE  IInv'
<1> DEFINE s == shard_index[sp]
           h == entry_or_new(ranges[s], sp)
           held == entry_or_new(range_by_txn[s], t)
           added == [txn |-> t, range |-> k, mode |-> m]
<1>1. sp \in ResourceId /\ s \in Shards /\ m \in LockModes /\ k \in KeyRanges
  BY Arguments
<1>2. GoodRanges(ranges[s]) /\ h \in Seq(RangeHolder) /\ CompatibleRanges(h)
  BY <1>1, RangeEntryGood DEF IInv, RangesInv
<1>3. RangesInv' /\ RangeIndexInv'
  <2>1. CASE range_conflict(h, t, k, m)
    <3>1. GoodRanges(insert(ranges[s], sp, h))
      BY <1>1, <1>2, RangeInsertGood
    <3>2. /\ ranges' = [ranges EXCEPT ![s] = insert(ranges[s], sp, h)]
          /\ range_by_txn' = range_by_txn
      BY <2>1 DEF try_acquire_range
    <3>3. RangesInv'
      BY <1>1, <3>1, <3>2 DEF IInv, RangesInv
    <3>4. RangeIndexInv'
      BY <3>2 DEF IInv, RangeIndexInv
    <3> QED
      BY <3>3, <3>4
  <2>2. CASE ~range_conflict(h, t, k, m)
    <3>1. GoodRanges(insert(ranges[s], sp, Append(h, added)))
      <4>1. added \in RangeHolder
        BY <1>1 DEF RangeHolder
      <4>2. Append(h, added) \in Seq(RangeHolder)
        BY <1>2, <4>1
      <4>3. CompatibleRanges(Append(h, added))
        BY <1>1, <1>2, <2>2, RangeGrantedCompatible
      <4> QED
        BY <1>1, <1>2, <4>2, <4>3, RangeInsertGood
    <3>2. IsHashMap(insert(range_by_txn[s], t, Append(held, <<sp, k>>)),
                    TxnId, Seq(ResourceId \X KeyRanges))
      <4>1. IsHashMap(range_by_txn[s], TxnId, Seq(ResourceId \X KeyRanges))
        BY <1>1 DEF IInv, RangeIndexInv
      <4>2. held \in Seq(ResourceId \X KeyRanges)
        BY <4>1, EntryType
      <4>3. Append(held, <<sp, k>>) \in Seq(ResourceId \X KeyRanges)
        BY <1>1, <4>2
      <4> QED
        BY <4>1, <4>3, InsertType
    <3>3. /\ ranges' = [ranges EXCEPT ![s] = insert(ranges[s], sp, Append(h, added))]
          /\ range_by_txn' = [range_by_txn EXCEPT ![s] =
                insert(range_by_txn[s], t, Append(held, <<sp, k>>))]
      BY <2>2 DEF try_acquire_range
    <3>4. RangesInv'
      BY <1>1, <3>1, <3>3 DEF IInv, RangesInv
    <3>5. RangeIndexInv'
      BY <1>1, <3>2, <3>3 DEF IInv, RangeIndexInv
    <3> QED
      BY <3>4, <3>5
  <2> QED
    BY <2>1, <2>2
<1>4. LocksInv' /\ IndexInv' /\ SweepInv'
  BY DEF try_acquire_range, IInv, LocksInv, IndexInv, SweepInv
<1> QED
  BY <1>3, <1>4 DEF IInv

\* release_range preserves it.
LEMMA ReleaseRangeIInv ==
  ASSUME IInv, NEW t \in TxnId, NEW sp \in SpaceIds, NEW k \in RequestRanges,
         release_range(t, sp, k)
  PROVE  IInv'
<1> DEFINE s == shard_index[sp]
           P == RangePositions(entry_or_new(ranges[s], sp), t, k)
<1>1. s \in Shards
  BY Arguments
<1>2. RangesInv' /\ RangeIndexInv'
  <2>1. CASE P = {}
    BY <2>1 DEF release_range, IInv, RangesInv, RangeIndexInv
  <2>2. CASE P # {}
    <3>1. GoodRanges(drop(ranges[s], sp, first(P)))
      BY <1>1, <2>2, RangeDropGood DEF IInv, RangesInv
    <3>2. IsHashMap(forget(range_by_txn[s], t, <<sp, k>>), TxnId, Seq(ResourceId \X KeyRanges))
      BY <1>1, ForgetType DEF IInv, RangeIndexInv
    <3>3. /\ ranges' = [ranges EXCEPT ![s] = drop(ranges[s], sp, first(P))]
          /\ range_by_txn' = [range_by_txn EXCEPT ![s] = forget(range_by_txn[s], t, <<sp, k>>)]
      BY <2>2 DEF release_range
    <3>4. RangesInv'
      BY <1>1, <3>1, <3>3 DEF IInv, RangesInv
    <3>5. RangeIndexInv'
      BY <1>1, <3>2, <3>3 DEF IInv, RangeIndexInv
    <3> QED
      BY <3>4, <3>5
  <2> QED
    BY <2>1, <2>2
<1>3. LocksInv' /\ IndexInv' /\ SweepInv'
  BY DEF release_range, IInv, LocksInv, IndexInv, SweepInv
<1> QED
  BY <1>2, <1>3 DEF IInv

-----------------------------------------------------------------------------
(* The steps of release_all. *)

\* A thread inside release_all has all the local variables of one.
LEMMA SweepFields ==
  ASSUME SweepInv, NEW th \in Threads, sweep[th].pc # "idle"
  PROVE  /\ sweep[th] \in Sweep
         /\ sweep[th].txn \in TxnId
         /\ sweep[th].shard \in Shards
         /\ sweep[th].points \in Seq(ResourceId)
         /\ sweep[th].spans \in Seq(ResourceId \X KeyRanges)
         /\ sweep[th].released \in Nat
<1>1. sweep[th] \in Sweep
  BY DEF SweepInv, Idle
<1> QED
  BY <1>1 DEF Sweep

\* Calling release_all preserves it: no shard is touched yet.
LEMMA ReleaseAllCallIInv ==
  ASSUME IInv, NEW th \in Threads, NEW t \in TxnId, ReleaseAllCall(th, t)
  PROVE  IInv'
<1> DEFINE sw == [pc |-> "waiting", txn |-> t, shard |-> 0,
                  points |-> <<>>, spans |-> <<>>, released |-> 0]
<1>1. 0 \in Shards
  BY TableAssumption DEF Shards
<1>2. sw \in Sweep
  BY <1>1 DEF Sweep
<1>3. sweep' = [sweep EXCEPT ![th] = sw]
  BY DEF ReleaseAllCall
<1> HIDE DEF sw
<1>4. SweepInv'
  BY <1>2, <1>3 DEF IInv, SweepInv
<1>5. LocksInv' /\ IndexInv' /\ RangesInv' /\ RangeIndexInv'
  BY DEF ReleaseAllCall, IInv, LocksInv, IndexInv, RangesInv, RangeIndexInv
<1> QED
  BY <1>4, <1>5 DEF IInv

\* Taking the two vectors out of the indexes of a shard preserves it (release_all).
LEMMA ReleaseAllLockIInv ==
  ASSUME IInv, NEW th \in Threads, ReleaseAllLock(th)
  PROVE  IInv'
<1> DEFINE t == sweep[th].txn
           s == sweep[th].shard
           points == entry_or_new(by_txn[s], t)
           spans == entry_or_new(range_by_txn[s], t)
           sw == [sweep[th] EXCEPT !.pc = "inside", !.points = points, !.spans = spans]
<1>1. sweep[th] \in Sweep /\ s \in Shards
  BY SweepFields DEF ReleaseAllLock, IInv
<1>2. IsHashMap(by_txn[s], TxnId, Seq(ResourceId))
  BY <1>1 DEF IInv, IndexInv
<1>3. IsHashMap(range_by_txn[s], TxnId, Seq(ResourceId \X KeyRanges))
  BY <1>1 DEF IInv, RangeIndexInv
<1>4. points \in Seq(ResourceId) /\ spans \in Seq(ResourceId \X KeyRanges)
  BY <1>2, <1>3, EntryType
<1>5. sweep' = [sweep EXCEPT ![th] = sw]
  BY DEF ReleaseAllLock
<1>6. sw \in Sweep
  <2> HIDE DEF points, spans
  <2> QED
    BY <1>1, <1>4 DEF Sweep
<1>7. SweepInv'
  <2> HIDE DEF sw
  <2> QED
    BY <1>5, <1>6 DEF IInv, SweepInv
<1>8. IndexInv'
  <2>1. IsHashMap(index_taken(by_txn[s], t), TxnId, Seq(ResourceId))
    BY <1>2, RemoveType DEF index_taken
  <2>2. by_txn' = [by_txn EXCEPT ![s] = index_taken(by_txn[s], t)]
    BY DEF ReleaseAllLock
  <2> QED
    BY <1>1, <2>1, <2>2 DEF IInv, IndexInv
<1>9. RangeIndexInv'
  <2>1. IsHashMap(index_taken(range_by_txn[s], t), TxnId, Seq(ResourceId \X KeyRanges))
    BY <1>3, RemoveType DEF index_taken
  <2>2. range_by_txn' = [range_by_txn EXCEPT ![s] = index_taken(range_by_txn[s], t)]
    BY DEF ReleaseAllLock
  <2> QED
    BY <1>1, <2>1, <2>2 DEF IInv, RangeIndexInv
<1>10. LocksInv' /\ RangesInv'
  BY DEF ReleaseAllLock, IInv, LocksInv, RangesInv
<1> QED
  BY <1>7, <1>8, <1>9, <1>10 DEF IInv

\* Releasing one point lock of the vector preserves it (release_all).
LEMMA ReleaseAllPointIInv ==
  ASSUME IInv, NEW th \in Threads, ReleaseAllPoint(th)
  PROVE  IInv'
<1> DEFINE t == sweep[th].txn
           s == sweep[th].shard
           r == Head(sweep[th].points)
           P == Positions(entry_or_new(locks[s], r), t)
           hit == [sweep[th] EXCEPT !.points = Tail(sweep[th].points),
                                    !.released = sweep[th].released + 1]
           miss == [sweep[th] EXCEPT !.points = Tail(sweep[th].points)]
<1>1. /\ sweep[th] \in Sweep /\ s \in Shards
      /\ sweep[th].points \in Seq(ResourceId)
      /\ sweep[th].released \in Nat
  BY SweepFields DEF ReleaseAllPoint, IInv
<1>2. Tail(sweep[th].points) \in Seq(ResourceId)
  BY <1>1 DEF ReleaseAllPoint
<1>3. hit \in Sweep /\ miss \in Sweep
  <2>1. sweep[th].released + 1 \in Nat
    BY <1>1
  <2>2. hit \in Sweep
    BY <1>1, <1>2, <2>1 DEF Sweep
  <2>3. miss \in Sweep
    BY <1>1, <1>2 DEF Sweep
  <2> QED
    BY <2>2, <2>3
<1>4. SweepInv' /\ LocksInv'
  <2>1. CASE P = {}
    <3>1. sweep' = [sweep EXCEPT ![th] = miss]
      BY <2>1 DEF ReleaseAllPoint
    <3>2. SweepInv'
      <4> HIDE DEF miss
      <4> QED
        BY <1>3, <3>1 DEF IInv, SweepInv
    <3>3. LocksInv'
      BY <2>1 DEF ReleaseAllPoint, IInv, LocksInv
    <3> QED
      BY <3>2, <3>3
  <2>2. CASE P # {}
    <3>1. sweep' = [sweep EXCEPT ![th] = hit]
      BY <2>2 DEF ReleaseAllPoint
    <3>2. SweepInv'
      <4> HIDE DEF hit
      <4> QED
        BY <1>3, <3>1 DEF IInv, SweepInv
    <3>3. GoodLocks(drop(locks[s], r, first(P)))
      BY <1>1, <2>2, DropGood DEF IInv, LocksInv
    <3>4. locks' = [locks EXCEPT ![s] = drop(locks[s], r, first(P))]
      BY <2>2 DEF ReleaseAllPoint
    <3>5. LocksInv'
      BY <1>1, <3>3, <3>4 DEF IInv, LocksInv
    <3> QED
      BY <3>2, <3>5
  <2> QED
    BY <2>1, <2>2
<1>5. IndexInv' /\ RangesInv' /\ RangeIndexInv'
  BY DEF ReleaseAllPoint, IInv, IndexInv, RangesInv, RangeIndexInv
<1> QED
  BY <1>4, <1>5 DEF IInv

\* Releasing one range lock of the vector preserves it (release_all).
LEMMA ReleaseAllSpanIInv ==
  ASSUME IInv, NEW th \in Threads, ReleaseAllSpan(th)
  PROVE  IInv'
<1> DEFINE t == sweep[th].txn
           s == sweep[th].shard
           sp == Head(sweep[th].spans)[1]
           k == Head(sweep[th].spans)[2]
           P == RangePositions(entry_or_new(ranges[s], sp), t, k)
           hit == [sweep[th] EXCEPT !.spans = Tail(sweep[th].spans),
                                    !.released = sweep[th].released + 1]
           miss == [sweep[th] EXCEPT !.spans = Tail(sweep[th].spans)]
<1>1. /\ sweep[th] \in Sweep /\ s \in Shards
      /\ sweep[th].spans \in Seq(ResourceId \X KeyRanges)
      /\ sweep[th].released \in Nat
  BY SweepFields DEF ReleaseAllSpan, IInv
<1>2. Tail(sweep[th].spans) \in Seq(ResourceId \X KeyRanges)
  BY <1>1 DEF ReleaseAllSpan
<1>3. hit \in Sweep /\ miss \in Sweep
  <2>1. sweep[th].released + 1 \in Nat
    BY <1>1
  <2>2. hit \in Sweep
    BY <1>1, <1>2, <2>1 DEF Sweep
  <2>3. miss \in Sweep
    BY <1>1, <1>2 DEF Sweep
  <2> QED
    BY <2>2, <2>3
<1>4. SweepInv' /\ RangesInv'
  <2>1. CASE P = {}
    <3>1. sweep' = [sweep EXCEPT ![th] = miss]
      BY <2>1 DEF ReleaseAllSpan
    <3>2. SweepInv'
      <4> HIDE DEF miss
      <4> QED
        BY <1>3, <3>1 DEF IInv, SweepInv
    <3>3. RangesInv'
      BY <2>1 DEF ReleaseAllSpan, IInv, RangesInv
    <3> QED
      BY <3>2, <3>3
  <2>2. CASE P # {}
    <3>1. sweep' = [sweep EXCEPT ![th] = hit]
      BY <2>2 DEF ReleaseAllSpan
    <3>2. SweepInv'
      <4> HIDE DEF hit
      <4> QED
        BY <1>3, <3>1 DEF IInv, SweepInv
    <3>3. GoodRanges(drop(ranges[s], sp, first(P)))
      BY <1>1, <2>2, RangeDropGood DEF IInv, RangesInv
    <3>4. ranges' = [ranges EXCEPT ![s] = drop(ranges[s], sp, first(P))]
      BY <2>2 DEF ReleaseAllSpan
    <3>5. RangesInv'
      BY <1>1, <3>3, <3>4 DEF IInv, RangesInv
    <3> QED
      BY <3>2, <3>5
  <2> QED
    BY <2>1, <2>2
<1>5. LocksInv' /\ IndexInv' /\ RangeIndexInv'
  BY DEF ReleaseAllSpan, IInv, LocksInv, IndexInv, RangeIndexInv
<1> QED
  BY <1>4, <1>5 DEF IInv

\* Going to the next shard, or returning, preserves it (release_all).
LEMMA ReleaseAllUnlockIInv ==
  ASSUME IInv, NEW th \in Threads, ReleaseAllUnlock(th)
  PROVE  IInv'
<1>1. sweep[th] \in Sweep
  BY SweepFields DEF ReleaseAllUnlock, ShardSwept, IInv
<1>2. after_shard(sweep[th]) \in Sweep \cup {Idle}
  <2>1. CASE sweep[th].shard + 1 \in Shards
    BY <1>1, <2>1 DEF after_shard, Sweep
  <2>2. CASE sweep[th].shard + 1 \notin Shards
    BY <2>2 DEF after_shard
  <2> QED
    BY <2>1, <2>2
<1>3. sweep' = [sweep EXCEPT ![th] = after_shard(sweep[th])]
  BY DEF ReleaseAllUnlock
<1>4. SweepInv'
  BY <1>2, <1>3 DEF IInv, SweepInv
<1>5. LocksInv' /\ IndexInv' /\ RangesInv' /\ RangeIndexInv'
  BY DEF ReleaseAllUnlock, IInv, LocksInv, IndexInv, RangesInv, RangeIndexInv
<1> QED
  BY <1>4, <1>5 DEF IInv

-----------------------------------------------------------------------------
(* The theorems. *)

\* Every step of the table preserves the invariant.
LEMMA NextIInv == IInv /\ [TableNext]_tableVars => IInv'
<1> SUFFICES ASSUME IInv, [TableNext]_tableVars PROVE IInv'
  OBVIOUS
<1>1. ASSUME NEW t \in TxnId, NEW r \in PointIds, NEW m \in RequestModes, try_acquire(t, r, m)
      PROVE  IInv'
  BY <1>1, TryAcquireIInv
<1>2. ASSUME NEW t \in TxnId, NEW r \in PointIds, release(t, r)
      PROVE  IInv'
  BY <1>2, ReleaseIInv
<1>3. ASSUME NEW t \in TxnId, NEW sp \in SpaceIds, NEW k \in RequestRanges,
             NEW m \in RequestModes, try_acquire_range(t, sp, k, m)
      PROVE  IInv'
  BY <1>3, TryAcquireRangeIInv
<1>4. ASSUME NEW t \in TxnId, NEW sp \in SpaceIds, NEW k \in RequestRanges,
             release_range(t, sp, k)
      PROVE  IInv'
  BY <1>4, ReleaseRangeIInv
<1>5. ASSUME NEW th \in Threads, NEW t \in TxnId, ReleaseAllCall(th, t)
      PROVE  IInv'
  BY <1>5, ReleaseAllCallIInv
<1>6. ASSUME NEW th \in Threads, ReleaseAllStep(th)
      PROVE  IInv'
  BY <1>6, ReleaseAllLockIInv, ReleaseAllPointIInv, ReleaseAllSpanIInv, ReleaseAllUnlockIInv
     DEF ReleaseAllStep
<1>7. CASE UNCHANGED tableVars
  BY <1>7 DEF tableVars, IInv, LocksInv, IndexInv, RangesInv, RangeIndexInv, SweepInv
<1> QED
  BY <1>1, <1>2, <1>3, <1>4, <1>5, <1>6, <1>7 DEF TableNext

\* The inductive invariant holds throughout, for every instance of the lock table
\* and every interleaving of its operations with the steps of release_all.
THEOREM TableInvariant == TableSpec => []IInv
<1>1. TableInit => IInv
  BY InitIInv
<1>2. IInv /\ [TableNext]_tableVars => IInv'
  BY NextIInv
<1> QED
  BY <1>1, <1>2, PTL DEF TableSpec

\* The invariant says in particular what the types are.
LEMMA TypedTable == IInv => TypeOK
BY DEF IInv, LocksInv, IndexInv, RangesInv, RangeIndexInv, SweepInv, GoodLocks,
       GoodRanges, TypeOK

\* The state of the table has the types of the source's structs, throughout.
THEOREM TypeCorrect == TableSpec => []TypeOK
BY TypedTable, TableInvariant, PTL

\* An incompatible point lock is never granted, whatever the clients call and
\* however release_all interleaves with them.
THEOREM PointSafety == TableSpec => []HoldersCompatible
<1>1. IInv => HoldersCompatible
  BY DEF IInv, LocksInv, GoodLocks, HoldersCompatible
<1> QED
  BY <1>1, TableInvariant, PTL

\* No two transactions hold incompatible range locks over a common key.
THEOREM RangeSafety == TableSpec => []RangeKeysCompatible
<1>1. IInv => RangeKeysCompatible
  BY DEF IInv, RangesInv, GoodRanges, RangeKeysCompatible
<1> QED
  BY <1>1, TableInvariant, PTL

\* The decision of try_grant_locked, made on the join or cut short by covers, is
\* the one made on the requested mode alone against the other transactions.
LEMMA GrantsIffNoBlocker ==
  ASSUME NEW h \in Seq(Holder), CompatibleHolders(h), NEW t \in TxnId, NEW m \in LockModes
  PROVE  grants(h, t, m) <=>
           \A i \in 1 .. Len(h) : h[i].txn # t => compatible_with(h[i].mode, m)
<1>1. \A i \in 1 .. Len(h) : h[i].mode \in LockModes
  <2>1. \A i \in 1 .. Len(h) : h[i] \in Holder
    OBVIOUS
  <2> QED
    BY <2>1 DEF Holder
<1>2. CASE ~Holds(h, t)
  BY <1>2 DEF grants, Holds, Positions
<1>3. CASE Holds(h, t)
  <2> DEFINE pos == first(Positions(h, t))
             current == h[pos].mode
  <2>1. pos \in 1 .. Len(h) /\ h[pos].txn = t /\ current \in LockModes
    BY <1>1, <1>3, PositionFound
  <2>2. grants(h, t, m) <=>
          \/ covers(current, m)
          \/ \A i \in 1 .. Len(h) : i # pos => compatible_with(h[i].mode, join(current, m))
    BY <1>3 DEF grants
  <2> HIDE DEF pos
  <2>3. \A i \in 1 .. Len(h) : i # pos <=> h[i].txn # t
    BY <2>1 DEF CompatibleHolders
  <2>4. \A i \in 1 .. Len(h) : i # pos => compatible_with(h[i].mode, current)
    BY <2>1 DEF CompatibleHolders
  <2>5. \A i \in 1 .. Len(h) : i # pos =>
           (compatible_with(h[i].mode, join(current, m)) <=> compatible_with(h[i].mode, m))
    <3> TAKE i \in 1 .. Len(h)
    <3> HAVE i # pos
    <3>1. compatible_with(h[i].mode, current)
      BY <2>4
    <3> HIDE DEF current
    <3> QED
      BY <1>1, <2>1, <3>1, JoinCompatible
  <2>6. covers(current, m) =>
          \A i \in 1 .. Len(h) : i # pos => compatible_with(h[i].mode, join(current, m))
    BY <2>4 DEF covers
  <2> HIDE DEF current
  <2> QED
    BY <2>2, <2>3, <2>5, <2>6
<1> QED
  BY <1>2, <1>3

\* A request is refused exactly when holders_blocking names somebody, so that a
\* refused waiter always has an edge in the wait-for graph, and only then.
THEOREM RefusalSound == TableSpec => []RefusedIffBlocked
<1>1. IInv => RefusedIffBlocked
  <2> SUFFICES ASSUME IInv, NEW t \in TxnId, NEW r \in PointIds, NEW m \in RequestModes
               PROVE  grants(entry_or_new(locks[shard_index[r]], r), t, m)
                        <=> holders_blocking(t, r, m) = {}
    BY DEF RefusedIffBlocked
  <2> DEFINE h == entry_or_new(locks[shard_index[r]], r)
  <2>1. shard_index[r] \in Shards /\ m \in LockModes
    BY Arguments
  <2>2. h \in Seq(Holder) /\ CompatibleHolders(h)
    BY <2>1, EntryGood DEF IInv, LocksInv
  <2>3. holders_blocking(t, r, m) =
          {h[i].txn : i \in {j \in 1 .. Len(h) :
             h[j].txn # t /\ ~compatible_with(h[j].mode, m)}}
    BY DEF holders_blocking
  <2> HIDE DEF h
  <2>4. holders_blocking(t, r, m) = {} <=>
          \A i \in 1 .. Len(h) : h[i].txn # t => compatible_with(h[i].mode, m)
    BY <2>3
  <2>5. grants(h, t, m) <=> holders_blocking(t, r, m) = {}
    BY <2>1, <2>2, <2>4, GrantsIffNoBlocker
  <2> QED
    BY <2>5 DEF h
<1> QED
  BY <1>1, TableInvariant, PTL

-----------------------------------------------------------------------------
(* Who holds what: an operation for t changes nothing of the other          *)
(* transactions' locks, in whatever order it leaves the vectors.            *)

\* The modes in which t is listed as a holder of r in one shard's map.
ModesIn(m, r, t) ==
  LET h == entry_or_new(m, r) IN {h[i].mode : i \in Positions(h, t)}

ModesOf(t, r) == ModesIn(locks[shard_index[r]], r, t)

ModesOfVector(h, t) == {h[i].mode : i \in Positions(h, t)}

\* A grant changes the requester's own mode only (try_grant_locked).
LEMMA GrantedModes ==
  ASSUME NEW h \in Seq(Holder), CompatibleHolders(h), NEW t \in TxnId, NEW m \in LockModes
  PROVE  /\ \A u : u # t => ModesOfVector(granted(h, t, m), u) = ModesOfVector(h, u)
         /\ ModesOfVector(granted(h, t, m), t) =
              IF Holds(h, t)
              THEN {IF covers(c, m) THEN c ELSE join(c, m) : c \in ModesOfVector(h, t)}
              ELSE {m}
<1>1. \A i \in 1 .. Len(h) : h[i] \in Holder
  OBVIOUS
<1>2. CASE Holds(h, t)
  <2> DEFINE pos == first(Positions(h, t))
             current == h[pos].mode
             target == IF covers(current, m) THEN current ELSE join(current, m)
             g == granted(h, t, m)
  <2>1. pos \in 1 .. Len(h) /\ h[pos].txn = t
    BY <1>2, PositionFound
  <2>2. g = [h EXCEPT ![pos].mode = target]
    BY <1>2 DEF granted
  <2>3. Len(g) = Len(h) /\ \A i \in 1 .. Len(h) : i # pos => g[i] = h[i]
    BY <2>1, <2>2
  <2>4. g[pos].txn = t /\ g[pos].mode = target
    BY <1>1, <2>1, <2>2 DEF Holder
  <2>5. \A i \in 1 .. Len(h) : h[i].txn = t => i = pos
    BY <2>1 DEF CompatibleHolders
  <2>6. \A u : u # t => Positions(g, u) = Positions(h, u) /\ pos \notin Positions(h, u)
    <3> HIDE DEF g, pos
    <3> QED
      BY <2>1, <2>3, <2>4 DEF Positions
  <2>7. \A u : u # t => ModesOfVector(g, u) = ModesOfVector(h, u)
    <3> TAKE u
    <3> HAVE u # t
    <3> HIDE DEF g, pos
    <3>1. \A i \in Positions(h, u) : i \in 1 .. Len(h) /\ i # pos
      BY <2>6 DEF Positions
    <3>2. \A i \in Positions(h, u) : g[i] = h[i]
      BY <2>3, <3>1
    <3> QED
      BY <2>6, <3>2 DEF ModesOfVector
  <2>8. Positions(g, t) = {pos} /\ Positions(h, t) = {pos}
    <3> HIDE DEF g, pos
    <3> QED
      BY <2>1, <2>3, <2>4, <2>5 DEF Positions
  <2>9. ModesOfVector(g, t) = {target} /\ ModesOfVector(h, t) = {current}
    <3> HIDE DEF g, pos, target
    <3> QED
      BY <2>4, <2>8 DEF ModesOfVector, current
  <2> HIDE DEF g, pos, current
  <2> QED
    BY <1>2, <2>7, <2>9 DEF g
<1>3. CASE ~Holds(h, t)
  <2> DEFINE g == granted(h, t, m)
  <2>1. g = Append(h, [txn |-> t, mode |-> m])
    BY <1>3 DEF granted
  <2>2. Len(g) = Len(h) + 1 /\ \A i \in 1 .. Len(h) : g[i] = h[i]
    BY <2>1
  <2>3. g[Len(h) + 1].txn = t /\ g[Len(h) + 1].mode = m
    BY <2>1
  <2> HIDE DEF g
  <2>4. \A u : u # t => Positions(g, u) = Positions(h, u)
    BY <2>2, <2>3 DEF Positions
  <2>5. \A u : u # t => ModesOfVector(g, u) = ModesOfVector(h, u)
    BY <2>2, <2>4 DEF ModesOfVector, Positions
  <2>6. Positions(g, t) = {Len(h) + 1}
    BY <1>3, <2>2, <2>3 DEF Holds, Positions
  <2>7. ModesOfVector(g, t) = {m}
    BY <2>3, <2>6 DEF ModesOfVector
  <2> QED
    BY <1>3, <2>5, <2>7 DEF g
<1> QED
  BY <1>2, <1>3

\* A release takes out the holder it names and nobody else, although the last one
\* of the vector moves to its place (swap_remove).
LEMMA SwapRemoveModes ==
  ASSUME NEW h \in Seq(Holder), CompatibleHolders(h), NEW t, Holds(h, t)
  PROVE  LET g == swap_remove(h, first(Positions(h, t)))
         IN  /\ \A u : u # t => ModesOfVector(g, u) = ModesOfVector(h, u)
             /\ ModesOfVector(g, t) = {}
<1> DEFINE pos == first(Positions(h, t))
           g == swap_remove(h, pos)
           last == Len(h)
<1>1. pos \in 1 .. Len(h) /\ h[pos].txn = t
  BY PositionFound
<1>2. Len(g) = Len(h) - 1 /\ \A k \in 1 .. Len(h) - 1 : g[k] = h[IF k = pos THEN last ELSE k]
  BY <1>1, SwapRemoveType
<1>3. \A i \in 1 .. Len(h) : h[i].txn = t => i = pos
  BY <1>1 DEF CompatibleHolders
<1> HIDE DEF g, pos
<1>4. Positions(g, t) = {}
  BY <1>1, <1>2, <1>3 DEF Positions
<1>5. ASSUME NEW u, u # t
      PROVE  ModesOfVector(g, u) = ModesOfVector(h, u)
  <2>1. \A k \in Positions(g, u) : \E i \in Positions(h, u) : g[k].mode = h[i].mode
    <3> TAKE k \in Positions(g, u)
    <3> DEFINE i == IF k = pos THEN last ELSE k
    <3>1. k \in 1 .. Len(h) - 1 /\ g[k].txn = u
      BY <1>2 DEF Positions
    <3>2. i \in 1 .. Len(h) /\ g[k] = h[i]
      BY <1>1, <1>2, <3>1
    <3> HIDE DEF i
    <3>3. i \in Positions(h, u)
      BY <3>1, <3>2 DEF Positions
    <3> QED
      BY <3>2, <3>3
  <2>2. \A i \in Positions(h, u) : \E k \in Positions(g, u) : g[k].mode = h[i].mode
    <3> TAKE i \in Positions(h, u)
    <3> DEFINE k == IF i = last THEN pos ELSE i
    <3>1. i \in 1 .. Len(h) /\ h[i].txn = u /\ i # pos
      BY <1>1, <1>5 DEF Positions
    <3>2. k \in 1 .. Len(h) - 1 /\ g[k] = h[i]
      <4>1. CASE i = last
        BY <1>1, <1>2, <3>1, <4>1
      <4>2. CASE i # last
        BY <1>1, <1>2, <3>1, <4>2
      <4> QED
        BY <4>1, <4>2
    <3> HIDE DEF k
    <3>3. k \in Positions(g, u)
      BY <1>2, <3>1, <3>2 DEF Positions
    <3> QED
      BY <3>2, <3>3
  <2> QED
    BY <2>1, <2>2 DEF ModesOfVector
<1> QED
  BY <1>4, <1>5 DEF ModesOfVector, g, pos

\* Storing a vector concerns its own key only.
LEMMA InsertModes ==
  ASSUME NEW m, NEW r, NEW h, NEW x, NEW u
  PROVE  ModesIn(insert(m, r, h), x, u) =
           IF x = r THEN ModesOfVector(h, u) ELSE ModesIn(m, x, u)
<1>1. CASE x = r
  BY <1>1 DEF ModesIn, ModesOfVector, insert, entry_or_new
<1>2. CASE x # r
  <2>1. entry_or_new(insert(m, r, h), x) = entry_or_new(m, x)
    BY <1>2 DEF insert, entry_or_new
  <2> QED
    BY <1>2, <2>1 DEF ModesIn
<1> QED
  BY <1>1, <1>2

\* Taking t out of the holders of r, in one shard's map, concerns nobody else and
\* no other resource.
LEMMA DropModes ==
  ASSUME NEW m, GoodLocks(m), NEW r, NEW t, Positions(entry_or_new(m, r), t) # {},
         NEW x, NEW u
  PROVE  ModesIn(drop(m, r, first(Positions(entry_or_new(m, r), t))), x, u) =
           IF x = r /\ u = t THEN {} ELSE ModesIn(m, x, u)
<1> DEFINE h == entry_or_new(m, r)
           pos == first(Positions(h, t))
           g == swap_remove(h, pos)
<1>1. h \in Seq(Holder) /\ CompatibleHolders(h)
  BY EntryGood
<1>2. pos \in 1 .. Len(h)
  BY <1>1, PositionFound DEF Holds
<1>3. r \in DOMAIN m /\ h = m[r]
  BY <1>2 DEF entry_or_new
<1>4. ModesOfVector(g, u) = IF u = t THEN {} ELSE ModesOfVector(h, u)
  BY <1>1, SwapRemoveModes DEF Holds
<1>5. entry_or_new(drop(m, r, pos), x) = IF x = r THEN g ELSE entry_or_new(m, x)
  <2> HIDE DEF pos, h
  <2>1. CASE g = <<>>
    BY <1>3, <2>1 DEF drop, remove, entry_or_new
  <2>2. CASE g # <<>>
    BY <1>3, <2>2 DEF drop, insert, entry_or_new
  <2> QED
    BY <2>1, <2>2
<1>6. CASE x = r
  <2>1. ModesIn(drop(m, r, pos), x, u) = ModesOfVector(g, u)
    BY <1>5, <1>6 DEF ModesIn, ModesOfVector
  <2>2. ModesIn(m, x, u) = ModesOfVector(h, u)
    BY <1>6 DEF ModesIn, ModesOfVector
  <2> QED
    BY <1>4, <1>6, <2>1, <2>2
<1>7. CASE x # r
  BY <1>5, <1>7 DEF ModesIn
<1> QED
  BY <1>6, <1>7

\* try_acquire changes the requester's mode on the resource, if it is granted, and
\* nothing else anybody holds.
LEMMA TryAcquireModes ==
  ASSUME IInv, NEW t \in TxnId, NEW r \in PointIds, NEW m \in RequestModes,
         try_acquire(t, r, m)
  PROVE  /\ \A u, x : x \in ResourceId /\ (u # t \/ x # r) => ModesOf(u, x)' = ModesOf(u, x)
         /\ ModesOf(t, r)' =
              IF ~grants(entry_or_new(locks[shard_index[r]], r), t, m) THEN ModesOf(t, r)
              ELSE IF ModesOf(t, r) = {} THEN {m}
              ELSE {IF covers(c, m) THEN c ELSE join(c, m) : c \in ModesOf(t, r)}
<1> DEFINE s == shard_index[r]
           h == entry_or_new(locks[s], r)
           g == IF grants(h, t, m) THEN granted(h, t, m) ELSE h
<1>1. r \in ResourceId /\ s \in Shards /\ m \in LockModes
  BY Arguments
<1>2. h \in Seq(Holder) /\ CompatibleHolders(h)
  BY <1>1, EntryGood DEF IInv, LocksInv
<1>3. locks' = [locks EXCEPT ![s] = insert(locks[s], r, g)]
  BY DEF try_acquire, try_grant_locked
<1>4. DOMAIN locks = Shards
  BY DEF IInv, LocksInv
<1>5. /\ \A u : u # t => ModesOfVector(granted(h, t, m), u) = ModesOfVector(h, u)
      /\ ModesOfVector(granted(h, t, m), t) =
           IF Holds(h, t)
           THEN {IF covers(c, m) THEN c ELSE join(c, m) : c \in ModesOfVector(h, t)}
           ELSE {m}
  BY <1>1, <1>2, GrantedModes
<1>6. \A u : ModesOf(u, r) = ModesOfVector(h, u)
  BY DEF ModesOf, ModesIn, ModesOfVector
<1>7. Holds(h, t) <=> ModesOfVector(h, t) # {}
  BY DEF Holds, ModesOfVector
<1> HIDE DEF h
<1>8. \A u, x : x \in ResourceId =>
         ModesOf(u, x)' = IF x = r THEN ModesOfVector(g, u) ELSE ModesOf(u, x)
  <2> TAKE u, x
  <2> HAVE x \in ResourceId
  <2> HIDE DEF g
  <2>1. shard_index[x] \in Shards
    BY TableAssumption
  <2>2. ModesOf(u, x)' = ModesIn(locks'[shard_index[x]], x, u)
    BY DEF ModesOf
  <2>3. CASE shard_index[x] = s
    BY <1>1, <1>3, <1>4, <2>2, <2>3, InsertModes DEF ModesOf
  <2>4. CASE shard_index[x] # s
    BY <1>1, <1>3, <1>4, <2>1, <2>2, <2>4 DEF ModesOf
  <2> QED
    BY <2>3, <2>4
<1>9. \A u : u # t => ModesOfVector(g, u) = ModesOfVector(h, u)
  BY <1>5
<1>10. ModesOfVector(g, t) =
         IF ~grants(h, t, m) THEN ModesOf(t, r)
         ELSE IF ModesOf(t, r) = {} THEN {m}
         ELSE {IF covers(c, m) THEN c ELSE join(c, m) : c \in ModesOf(t, r)}
  BY <1>5, <1>6, <1>7
<1> HIDE DEF g
<1> QED
  BY <1>1, <1>6, <1>8, <1>9, <1>10 DEF h

\* A step takes t's lock on r out of shard s.
DropsLock(s, r, t) ==
  LET P == Positions(entry_or_new(locks[s], r), t)
  IN  P # {} /\ locks' = [locks EXCEPT ![s] = drop(locks[s], r, first(P))]

\* The same of whichever shard the holder is taken out of.
LEMMA ShardDropModes ==
  ASSUME IInv, NEW s \in Shards, NEW r, NEW t, DropsLock(s, r, t),
         NEW u, NEW x \in ResourceId
  PROVE  ModesOf(u, x)' = IF x = r /\ u = t /\ shard_index[x] = s THEN {} ELSE ModesOf(u, x)
<1> DEFINE d == drop(locks[s], r, first(Positions(entry_or_new(locks[s], r), t)))
<1>1. shard_index[x] \in Shards
  BY TableAssumption
<1>2. GoodLocks(locks[s]) /\ DOMAIN locks = Shards
  BY DEF IInv, LocksInv
<1>3. ModesIn(d, x, u) = IF x = r /\ u = t THEN {} ELSE ModesIn(locks[s], x, u)
  BY <1>2, DropModes DEF DropsLock
<1>4. ModesOf(u, x)' = ModesIn(locks'[shard_index[x]], x, u)
  BY DEF ModesOf
<1>5. locks' = [locks EXCEPT ![s] = d]
  BY DEF DropsLock
<1> HIDE DEF d
<1>6. CASE shard_index[x] = s
  BY <1>2, <1>3, <1>4, <1>5, <1>6 DEF ModesOf
<1>7. CASE shard_index[x] # s
  BY <1>1, <1>2, <1>4, <1>5, <1>7 DEF ModesOf
<1> QED
  BY <1>6, <1>7

\* release takes away the one lock it is for.
LEMMA ReleaseModes ==
  ASSUME IInv, NEW t \in TxnId, NEW r \in PointIds, release(t, r),
         NEW u, NEW x \in ResourceId
  PROVE  ModesOf(u, x)' = IF x = r /\ u = t THEN {} ELSE ModesOf(u, x)
<1> DEFINE s == shard_index[r]
           P == Positions(entry_or_new(locks[s], r), t)
<1>1. s \in Shards
  BY Arguments
<1>2. CASE P = {}
  <2>1. locks' = locks
    BY <1>2 DEF release
  <2>2. ModesOf(u, x)' = ModesOf(u, x)
    BY <2>1 DEF ModesOf
  <2>3. ModesOf(t, r) = {}
    BY <1>2 DEF ModesOf, ModesIn
  <2> QED
    BY <2>2, <2>3
<1>3. CASE P # {}
  <2>1. DropsLock(s, r, t)
    BY <1>3 DEF release, DropsLock
  <2>2. ModesOf(u, x)' = IF x = r /\ u = t /\ shard_index[x] = s THEN {} ELSE ModesOf(u, x)
    BY <1>1, <2>1, ShardDropModes DEF ModesOf
  <2> QED
    BY <2>2
<1> QED
  BY <1>2, <1>3

\* A step of release_all takes locks from its own transaction only.
LEMMA ReleaseAllModes ==
  ASSUME IInv, NEW th \in Threads, ReleaseAllStep(th), NEW u, NEW x \in ResourceId
  PROVE  /\ u # sweep[th].txn => ModesOf(u, x)' = ModesOf(u, x)
         /\ ModesOf(u, x)' \subseteq ModesOf(u, x)
<1>1. CASE ReleaseAllPoint(th)
  <2>1. /\ sweep[th].txn \in TxnId /\ sweep[th].shard \in Shards
        /\ sweep[th].points \in Seq(ResourceId) /\ sweep[th].points # <<>>
    BY <1>1, SweepFields DEF ReleaseAllPoint, IInv
  <2>2. PICK t \in TxnId, s \in Shards, r \in ResourceId :
             t = sweep[th].txn /\ s = sweep[th].shard /\ r = Head(sweep[th].points)
    BY <2>1
  <2>3. locks' = locks \/ DropsLock(s, r, t)
    BY <1>1, <2>2 DEF ReleaseAllPoint, DropsLock
  <2>4. CASE locks' = locks
    BY <2>4 DEF ModesOf
  <2>5. CASE DropsLock(s, r, t)
    <3>1. ModesOf(u, x)' = IF x = r /\ u = t /\ shard_index[x] = s THEN {} ELSE ModesOf(u, x)
      BY <2>5, ShardDropModes DEF ModesOf
    <3> QED
      BY <2>2, <3>1
  <2> QED
    BY <2>3, <2>4, <2>5
<1>2. CASE locks' = locks
  BY <1>2 DEF ModesOf
<1> QED
  BY <1>1, <1>2
     DEF ReleaseAllStep, ReleaseAllLock, ReleaseAllSpan, ReleaseAllUnlock

\* Two different transactions hold compatible modes, and a transaction one mode.
LEMMA ModesCompatible ==
  ASSUME IInv, NEW x \in ResourceId, NEW t, NEW u,
         NEW a \in ModesOf(t, x), NEW b \in ModesOf(u, x)
  PROVE  /\ a \in LockModes /\ b \in LockModes
         /\ t # u => compatible_with(a, b)
         /\ t = u => a = b
<1> DEFINE h == entry_or_new(locks[shard_index[x]], x)
<1>1. h \in Seq(Holder) /\ CompatibleHolders(h)
  BY EntryGood, TableAssumption DEF IInv, LocksInv
<1>2. PICK i \in Positions(h, t) : a = h[i].mode
  BY DEF ModesOf, ModesIn
<1>3. PICK j \in Positions(h, u) : b = h[j].mode
  BY DEF ModesOf, ModesIn
<1> HIDE DEF h
<1>4. i \in 1 .. Len(h) /\ h[i].txn = t /\ j \in 1 .. Len(h) /\ h[j].txn = u
  BY DEF Positions
<1>5. h[i] \in Holder /\ h[j] \in Holder
  BY <1>1, <1>4
<1>6. a \in LockModes /\ b \in LockModes
  BY <1>2, <1>3, <1>5 DEF Holder
<1> QED
  BY <1>1, <1>2, <1>3, <1>4, <1>6 DEF CompatibleHolders

\* While it is in release_all a thread works for one transaction, and no other
\* thread's release_all is touched.
LEMMA SweepStep ==
  ASSUME IInv, NEW th \in Threads, ReleaseAllStep(th)
  PROVE  /\ sweep[th] # Idle /\ sweep[th].txn \in TxnId
         /\ \A o \in Threads : o # th => sweep'[o] = sweep[o]
         /\ sweep'[th] # Idle => sweep'[th].txn = sweep[th].txn
<1>1. sweep[th].pc # "idle"
  BY DEF ReleaseAllStep, ReleaseAllLock, ReleaseAllPoint, ReleaseAllSpan, ReleaseAllUnlock,
         ShardSwept
<1>2. sweep[th] \in Sweep /\ sweep[th].txn \in TxnId
  BY <1>1, SweepFields DEF IInv
<1>3. sweep[th] # Idle
  BY <1>1 DEF Idle
<1>4. sweep \in [Threads -> Sweep \cup {Idle}]
  BY DEF IInv, SweepInv
<1>5. \E new_state : /\ sweep' = [sweep EXCEPT ![th] = new_state]
                     /\ new_state # Idle => new_state.txn = sweep[th].txn
  <2>1. CASE ReleaseAllLock(th)
    <3> DEFINE n == [sweep[th] EXCEPT !.pc = "inside",
                       !.points = entry_or_new(by_txn[sweep[th].shard], sweep[th].txn),
                       !.spans = entry_or_new(range_by_txn[sweep[th].shard], sweep[th].txn)]
    <3>1. sweep' = [sweep EXCEPT ![th] = n]
      BY <2>1 DEF ReleaseAllLock
    <3>2. n.txn = sweep[th].txn
      BY <1>2 DEF Sweep
    <3> QED
      BY <3>1, <3>2
  <2>2. CASE ReleaseAllPoint(th)
    <3> DEFINE miss == [sweep[th] EXCEPT !.points = Tail(sweep[th].points)]
               hit == [sweep[th] EXCEPT !.points = Tail(sweep[th].points),
                                        !.released = sweep[th].released + 1]
    <3>1. sweep' = [sweep EXCEPT ![th] = miss] \/ sweep' = [sweep EXCEPT ![th] = hit]
      BY <2>2 DEF ReleaseAllPoint
    <3>2. miss.txn = sweep[th].txn /\ hit.txn = sweep[th].txn
      BY <1>2 DEF Sweep
    <3> QED
      BY <3>1, <3>2
  <2>3. CASE ReleaseAllSpan(th)
    <3> DEFINE miss == [sweep[th] EXCEPT !.spans = Tail(sweep[th].spans)]
               hit == [sweep[th] EXCEPT !.spans = Tail(sweep[th].spans),
                                        !.released = sweep[th].released + 1]
    <3>1. sweep' = [sweep EXCEPT ![th] = miss] \/ sweep' = [sweep EXCEPT ![th] = hit]
      BY <2>3 DEF ReleaseAllSpan
    <3>2. miss.txn = sweep[th].txn /\ hit.txn = sweep[th].txn
      BY <1>2 DEF Sweep
    <3> QED
      BY <3>1, <3>2
  <2>4. CASE ReleaseAllUnlock(th)
    <3>1. sweep' = [sweep EXCEPT ![th] = after_shard(sweep[th])]
      BY <2>4 DEF ReleaseAllUnlock
    <3>2. after_shard(sweep[th]) # Idle => after_shard(sweep[th]).txn = sweep[th].txn
      BY <1>2 DEF after_shard, Sweep
    <3> QED
      BY <3>1, <3>2
  <2> QED
    BY <2>1, <2>2, <2>3, <2>4 DEF ReleaseAllStep
<1> QED
  BY <1>2, <1>3, <1>4, <1>5

\* release_all starts on a thread that is not in one.
LEMMA SweepCall ==
  ASSUME IInv, NEW th \in Threads, NEW t \in TxnId, ReleaseAllCall(th, t)
  PROVE  /\ sweep[th] = Idle
         /\ sweep'[th] # Idle /\ sweep'[th].txn = t
         /\ \A o \in Threads : o # th => sweep'[o] = sweep[o]
         /\ locks' = locks
BY DEF IInv, SweepInv, ReleaseAllCall, Idle

-----------------------------------------------------------------------------
(* Counting in a vector.                                                    *)

\* The positions of v that hold a member of S, and how many there are.
Places(v, S) == {i \in 1 .. Len(v) : v[i] \in S}

Tally(v, S) == Cardinality(Places(v, S))

\* A vector is finite, and so are the positions that match.
LEMMA PlacesFinite ==
  ASSUME NEW V, NEW v \in Seq(V), NEW S
  PROVE  IsFiniteSet(Places(v, S)) /\ Tally(v, S) \in Nat
<1>1. IsFiniteSet(1 .. Len(v))
  BY FS_Interval
<1>2. Places(v, S) \subseteq 1 .. Len(v)
  BY DEF Places
<1>3. IsFiniteSet(Places(v, S))
  BY <1>1, <1>2, FS_Subset
<1> QED
  BY <1>3, FS_CardinalityType DEF Tally

\* Nothing is counted exactly if nothing matches.
LEMMA TallyZero ==
  ASSUME NEW V, NEW v \in Seq(V), NEW S
  PROVE  Tally(v, S) = 0 <=> \A i \in 1 .. Len(v) : v[i] \notin S
<1>1. Tally(v, S) = 0 <=> Places(v, S) = {}
  BY PlacesFinite, FS_EmptySet DEF Tally
<1> QED
  BY <1>1 DEF Places

\* Vec::push counts one more if what it adds matches.
LEMMA TallyAppend ==
  ASSUME NEW V, NEW v \in Seq(V), NEW e \in V, NEW S
  PROVE  Tally(Append(v, e), S) = Tally(v, S) + (IF e \in S THEN 1 ELSE 0)
<1> DEFINE w == Append(v, e)
<1>1. Len(w) = Len(v) + 1 /\ w[Len(v) + 1] = e /\ \A i \in 1 .. Len(v) : w[i] = v[i]
  OBVIOUS
<1>2. Len(v) \in Nat
  OBVIOUS
<1> HIDE DEF w
<1>3. Places(w, S) = IF e \in S THEN Places(v, S) \cup {Len(v) + 1} ELSE Places(v, S)
  BY <1>1, <1>2 DEF Places
<1>4. Len(v) + 1 \notin Places(v, S)
  BY <1>2 DEF Places
<1>5. IsFiniteSet(Places(v, S)) /\ Tally(v, S) \in Nat
  BY PlacesFinite
<1>6. Cardinality(Places(v, S) \cup {Len(v) + 1}) = Tally(v, S) + 1
  BY <1>4, <1>5, FS_AddElement DEF Tally
<1> QED
  BY <1>3, <1>5, <1>6 DEF Tally, w

\* Vec::swap_remove counts one less if what it takes out matches; that the last
\* element changes its place does not count.
LEMMA TallySwapRemove ==
  ASSUME NEW V, NEW v \in Seq(V), NEW i \in 1 .. Len(v), NEW S
  PROVE  Tally(swap_remove(v, i), S) = Tally(v, S) - (IF v[i] \in S THEN 1 ELSE 0)
<1> DEFINE w == swap_remove(v, i)
           last == Len(v)
           P == Places(v, S)
<1>1. last \in Nat /\ Len(w) = last - 1
      /\ \A k \in 1 .. last - 1 : w[k] = v[IF k = i THEN last ELSE k]
  BY SwapRemoveType
<1>2. IsFiniteSet(P) /\ Cardinality(P) \in Nat
  BY PlacesFinite DEF Tally
<1> HIDE DEF w, last
<1>3. \A k : k \in P <=> k \in 1 .. last /\ v[k] \in S
  BY DEF Places, last
<1>4. \A k : k \in Places(w, S) <=>
         k \in 1 .. last - 1 /\ v[IF k = i THEN last ELSE k] \in S
  BY <1>1 DEF Places
<1>5. i \in 1 .. last
  BY DEF last
<1> HIDE DEF P
<1>6. CASE v[i] \in S
  <2>1. i \in P
    BY <1>3, <1>5, <1>6
  <2>2. CASE v[last] \in S
    <3>1. last \in P
      BY <1>1, <1>3, <1>5, <2>2
    <3>2. \A k : k \in Places(w, S) <=> k \in P /\ k # last
      BY <1>1, <1>3, <1>4, <1>5, <1>6, <2>2
    <3>3. Places(w, S) = P \ {last}
      BY <3>2
    <3> QED
      BY <1>2, <1>6, <3>1, <3>3, FS_RemoveElement DEF Tally, w, P
  <2>3. CASE v[last] \notin S
    <3>1. \A k : k \in Places(w, S) <=> k \in P /\ k # i
      BY <1>1, <1>3, <1>4, <1>5, <1>6, <2>3
    <3>2. Places(w, S) = P \ {i}
      BY <3>1
    <3> QED
      BY <1>2, <1>6, <2>1, <3>2, FS_RemoveElement DEF Tally, w, P
  <2> QED
    BY <2>2, <2>3
<1>7. CASE v[i] \notin S
  <2>1. CASE v[last] \in S
    <3>1. last \in P /\ i # last
      BY <1>1, <1>3, <1>5, <1>7, <2>1
    <3>2. \A k : k \in Places(w, S) <=> (k \in P /\ k # last) \/ k = i
      BY <1>1, <1>3, <1>4, <1>5, <1>7, <2>1, <3>1
    <3>3. Places(w, S) = (P \ {last}) \cup {i}
      BY <3>2
    <3>4. IsFiniteSet(P \ {last}) /\ Cardinality(P \ {last}) = Cardinality(P) - 1
      BY <1>2, <3>1, FS_RemoveElement
    <3>5. i \notin P \ {last}
      BY <1>3, <1>7
    <3>6. Cardinality((P \ {last}) \cup {i}) = Cardinality(P \ {last}) + 1
      BY <3>4, <3>5, FS_AddElement
    <3> QED
      BY <1>2, <1>7, <3>3, <3>4, <3>6 DEF Tally, w, P
  <2>2. CASE v[last] \notin S
    <3>1. \A k : k \in Places(w, S) <=> k \in P
      BY <1>1, <1>3, <1>4, <1>5, <1>7, <2>2
    <3>2. Places(w, S) = P
      BY <3>1
    <3> QED
      BY <1>2, <1>7, <3>2 DEF Tally, w, P
  <2> QED
    BY <2>1, <2>2
<1> QED
  BY <1>6, <1>7

\* What is left of a vector that is walked from the front.
LEMMA TallyTail ==
  ASSUME NEW V, NEW v \in Seq(V), v # <<>>, NEW S
  PROVE  Tally(Tail(v), S) = Tally(v, S) - (IF Head(v) \in S THEN 1 ELSE 0)
<1> DEFINE w == Tail(v)
           P == Places(v, S)
           Q == Places(w, S)
           f == [k \in Q |-> k + 1]
<1>1. /\ Len(v) \in Nat \ {0} /\ w \in Seq(V) /\ Len(w) = Len(v) - 1
      /\ \A k \in 1 .. Len(w) : w[k] = v[k + 1]
      /\ Head(v) = v[1]
  OBVIOUS
<1>2. /\ \A k : k \in P <=> k \in 1 .. Len(v) /\ v[k] \in S
      /\ \A k : k \in Q <=> k \in 1 .. Len(w) /\ w[k] \in S
  BY DEF Places
<1>3. IsFiniteSet(P) /\ Cardinality(P) \in Nat /\ IsFiniteSet(Q)
  BY <1>1, PlacesFinite DEF Tally
<1> HIDE DEF w, P, Q
<1>4. ExistsBijection(Q, P \ {1})
  <2>1. f \in [Q -> P \ {1}]
    BY <1>1, <1>2
  <2>2. \A a, b \in Q : f[a] = f[b] => a = b
    BY <1>2
  <2>3. \A p \in P \ {1} : \E k \in Q : f[k] = p
    <3> TAKE p \in P \ {1}
    <3>1. p - 1 \in Q /\ (p - 1) + 1 = p
      BY <1>1, <1>2
    <3> QED
      BY <3>1
  <2> QED
    BY <2>1, <2>2, <2>3 DEF ExistsBijection, Bijection, Injection, Surjection, IsInjective
<1>5. Cardinality(P \ {1}) = Cardinality(Q)
  BY <1>3, <1>4, FS_Bijection
<1>6. Cardinality(P \ {1}) = IF Head(v) \in S THEN Cardinality(P) - 1 ELSE Cardinality(P)
  <2>1. 1 \in P <=> Head(v) \in S
    BY <1>1, <1>2
  <2>2. Cardinality(P \ {1}) = IF 1 \in P THEN Cardinality(P) - 1 ELSE Cardinality(P)
    BY <1>3, FS_RemoveElement
  <2> QED
    BY <2>1, <2>2
<1> QED
  BY <1>3, <1>5, <1>6 DEF Tally, w, P, Q

\* What is counted once is at one place.
LEMMA TallyOne ==
  ASSUME NEW V, NEW v \in Seq(V), NEW S, Tally(v, S) <= 1,
         NEW i \in Places(v, S), NEW j \in Places(v, S)
  PROVE  i = j
<1>1. IsFiniteSet(Places(v, S)) /\ Tally(v, S) \in Nat
  BY PlacesFinite
<1>2. Tally(v, S) = 1
  BY <1>1, FS_EmptySet DEF Tally
<1>3. PICK x : Places(v, S) = {x}
  BY <1>1, <1>2, FS_Singleton DEF Tally
<1> QED
  BY <1>3

-----------------------------------------------------------------------------
(* What a transaction holds, counted.                                       *)

HeldBy(t) == {x \in Holder : x.txn = t}

RangeHeldBy(t, k) == {x \in RangeHolder : x.txn = t /\ x.range = k}

\* The positions release looks for are those of t's holds.
LEMMA PositionsTallied ==
  ASSUME NEW h \in Seq(Holder), NEW t
  PROVE  Positions(h, t) = Places(h, HeldBy(t))
<1>1. \A i \in 1 .. Len(h) : h[i] \in Holder
  OBVIOUS
<1> QED
  BY <1>1 DEF Positions, Places, HeldBy

\* The positions release_range looks for are those of t's locks on the range.
LEMMA RangePositionsTallied ==
  ASSUME NEW h \in Seq(RangeHolder), NEW t, NEW k
  PROVE  RangePositions(h, t, k) = Places(h, RangeHeldBy(t, k))
<1>1. \A i \in 1 .. Len(h) : h[i] \in RangeHolder
  OBVIOUS
<1> QED
  BY <1>1 DEF RangePositions, Places, RangeHeldBy

\* A grant adds a holder, or changes a mode in place: only a new holder counts,
\* as only a new holder is indexed (try_grant_locked).
LEMMA GrantedTally ==
  ASSUME NEW h \in Seq(Holder), NEW t \in TxnId, NEW m \in LockModes, NEW u
  PROVE  Tally(granted(h, t, m), HeldBy(u)) =
           Tally(h, HeldBy(u)) + (IF u = t /\ ~Holds(h, t) THEN 1 ELSE 0)
<1>1. CASE Holds(h, t)
  <2> DEFINE pos == first(Positions(h, t))
             target == IF covers(h[pos].mode, m) THEN h[pos].mode ELSE join(h[pos].mode, m)
             g == granted(h, t, m)
  <2>1. pos \in 1 .. Len(h) /\ h[pos] \in Holder /\ h[pos].txn = t
    BY <1>1, PositionFound
  <2>2. g = [h EXCEPT ![pos].mode = target]
    BY <1>1 DEF granted
  <2>3. Len(g) = Len(h) /\ g[pos] = [h[pos] EXCEPT !.mode = target]
    BY <2>1, <2>2
  <2>4. g[pos].txn = h[pos].txn
    BY <2>1, <2>3 DEF Holder
  <2>5. \A i \in 1 .. Len(h) : i # pos => g[i] = h[i]
    BY <2>1, <2>2
  <2>6. g \in Seq(Holder)
    BY GrantedType
  <2> HIDE DEF pos, target, g
  <2>7. \A i \in 1 .. Len(h) : g[i].txn = h[i].txn
    BY <2>1, <2>4, <2>5
  <2>8. Positions(g, u) = Positions(h, u)
    BY <2>3, <2>7 DEF Positions
  <2>9. Tally(g, HeldBy(u)) = Tally(h, HeldBy(u))
    BY <2>6, <2>8, PositionsTallied DEF Tally
  <2>10. Tally(h, HeldBy(u)) \in Nat
    BY PlacesFinite
  <2> QED
    BY <1>1, <2>9, <2>10 DEF g
<1>2. CASE ~Holds(h, t)
  <2> DEFINE e == [txn |-> t, mode |-> m]
  <2>1. e \in Holder /\ (e \in HeldBy(u) <=> u = t)
    BY DEF Holder, HeldBy
  <2>2. granted(h, t, m) = Append(h, e)
    BY <1>2 DEF granted
  <2> HIDE DEF e
  <2>3. Tally(Append(h, e), HeldBy(u)) = Tally(h, HeldBy(u)) + (IF e \in HeldBy(u) THEN 1 ELSE 0)
    BY <2>1, TallyAppend
  <2> QED
    BY <1>2, <2>1, <2>2, <2>3
<1> QED
  BY <1>1, <1>2

\* A transaction is listed once among the holders of a resource.
LEMMA HeldOnce ==
  ASSUME NEW h \in Seq(Holder), CompatibleHolders(h), NEW t
  PROVE  Tally(h, HeldBy(t)) = IF Holds(h, t) THEN 1 ELSE 0
<1>1. Positions(h, t) = Places(h, HeldBy(t))
  BY PositionsTallied
<1>2. CASE Holds(h, t)
  <2>1. PICK pos : pos \in Positions(h, t)
    BY <1>2 DEF Holds
  <2>2. Positions(h, t) = {pos}
    BY <2>1 DEF Positions, CompatibleHolders
  <2> QED
    BY <1>1, <1>2, <2>2, FS_Singleton DEF Tally
<1>3. CASE ~Holds(h, t)
  BY <1>1, <1>3, FS_EmptySet DEF Holds, Tally
<1> QED
  BY <1>2, <1>3

\* Taking position i out of the vector of k changes the counts of that vector only.
LEMMA DropTally ==
  ASSUME NEW K, NEW V, NEW m, IsHashMap(m, K, Seq(V)), NEW k \in DOMAIN m,
         NEW i \in 1 .. Len(m[k]), NEW x, NEW S
  PROVE  Tally(entry_or_new(drop(m, k, i), x), S) =
           Tally(entry_or_new(m, x), S) - (IF x = k /\ m[k][i] \in S THEN 1 ELSE 0)
<1>1. m[k] \in Seq(V) /\ entry_or_new(m, x) \in Seq(V)
  BY EntryType DEF IsHashMap
<1>2. Tally(entry_or_new(m, x), S) \in Nat
  BY <1>1, PlacesFinite
<1>3. CASE x = k
  <2>1. entry_or_new(drop(m, k, i), x) = swap_remove(m[k], i) /\ entry_or_new(m, x) = m[k]
    BY <1>3, EntryDrop DEF entry_or_new
  <2>2. Tally(swap_remove(m[k], i), S) = Tally(m[k], S) - (IF m[k][i] \in S THEN 1 ELSE 0)
    BY <1>1, TallySwapRemove
  <2> QED
    BY <1>3, <2>1, <2>2
<1>4. CASE x # k
  BY <1>2, <1>4, EntryDrop
<1> QED
  BY <1>3, <1>4

\* Forgetting an element that is listed takes one occurrence of it out of the
\* transaction's vector (forget_resource, forget_range).
LEMMA ForgetTally ==
  ASSUME NEW E, NEW index, IsHashMap(index, TxnId, Seq(E)), NEW t, NEW e,
         Tally(entry_or_new(index, t), {e}) # 0, NEW u, NEW S
  PROVE  Tally(entry_or_new(forget(index, t, e), u), S) =
           Tally(entry_or_new(index, u), S) - (IF u = t /\ e \in S THEN 1 ELSE 0)
<1> DEFINE v == entry_or_new(index, t)
           P == {i \in 1 .. Len(index[t]) : index[t][i] = e}
<1>1. v \in Seq(E)
  BY EntryType
<1>2. PICK i \in 1 .. Len(v) : v[i] = e
  BY <1>1, TallyZero
<1>3. t \in DOMAIN index /\ v = index[t]
  BY <1>2 DEF entry_or_new
<1>4. P # {} /\ P \in SUBSET Nat
  BY <1>2, <1>3
<1>5. first(P) \in P
  BY <1>4, FirstIsLeast
<1>6. forget(index, t, e) = drop(index, t, first(P))
  BY <1>3, <1>4 DEF forget
<1>7. first(P) \in 1 .. Len(index[t]) /\ index[t][first(P)] = e
  BY <1>5
<1> HIDE DEF P, v
<1> QED
  BY <1>3, <1>6, <1>7, DropTally

\* t's vector of the point index lists each resource as often as t holds it in m.
PointsTallied(v, m, t) ==
  \A r \in ResourceId : Tally(v, {r}) = Tally(entry_or_new(m, r), HeldBy(t))

\* t's vector of the range index lists each range as often as t holds it in m.
SpansTallied(v, m, t) ==
  \A sp \in ResourceId, k \in KeyRanges :
     Tally(v, {<<sp, k>>}) = Tally(entry_or_new(m, sp), RangeHeldBy(t, k))

\* A grant and its entry in the index go together (try_grant_locked).
LEMMA GrantTallied ==
  ASSUME NEW m, GoodLocks(m), NEW index, IsHashMap(index, TxnId, Seq(ResourceId)),
         NEW t \in TxnId, NEW r \in ResourceId, NEW md \in LockModes, NEW u \in TxnId,
         PointsTallied(entry_or_new(index, u), m, u)
  PROVE  LET h == entry_or_new(m, r)
         IN  PointsTallied(entry_or_new(indexed(index, h, t, r), u),
                           insert(m, r, granted(h, t, md)), u)
<1> DEFINE h == entry_or_new(m, r)
           v == entry_or_new(index, u)
           w == entry_or_new(indexed(index, h, t, r), u)
           n == insert(m, r, granted(h, t, md))
<1>1. h \in Seq(Holder) /\ v \in Seq(ResourceId)
  BY EntryGood, EntryType
<1>2. \A x \in ResourceId : Tally(v, {x}) = Tally(entry_or_new(m, x), HeldBy(u))
  BY DEF PointsTallied
<1>3. \A x \in ResourceId : Tally(v, {x}) \in Nat
  BY <1>1, PlacesFinite
<1>4. \A x : entry_or_new(n, x) = IF x = r THEN granted(h, t, md) ELSE entry_or_new(m, x)
  BY EntryInsert
<1>5. Tally(granted(h, t, md), HeldBy(u)) =
        Tally(h, HeldBy(u)) + (IF u = t /\ ~Holds(h, t) THEN 1 ELSE 0)
  BY <1>1, GrantedTally
<1>6. w = IF u = t /\ ~Holds(h, t) THEN Append(v, r) ELSE v
  BY EntryInsert DEF indexed
<1> HIDE DEF n, w, h, v
<1>7. \A x \in ResourceId :
         Tally(w, {x}) = Tally(v, {x}) + (IF x = r /\ u = t /\ ~Holds(h, t) THEN 1 ELSE 0)
  <2> TAKE x \in ResourceId
  <2>1. CASE u = t /\ ~Holds(h, t)
    <3>1. Tally(Append(v, r), {x}) = Tally(v, {x}) + (IF r \in {x} THEN 1 ELSE 0)
      BY <1>1, TallyAppend
    <3> QED
      BY <1>6, <2>1, <3>1
  <2>2. CASE ~(u = t /\ ~Holds(h, t))
    BY <1>3, <1>6, <2>2
  <2> QED
    BY <2>1, <2>2
<1>8. ASSUME NEW x \in ResourceId
      PROVE  Tally(w, {x}) = Tally(entry_or_new(n, x), HeldBy(u))
  <2>1. CASE x = r
    BY <1>2, <1>4, <1>5, <1>7, <2>1 DEF h
  <2>2. CASE x # r
    BY <1>2, <1>3, <1>4, <1>7, <2>2
  <2> QED
    BY <2>1, <2>2
<1> QED
  BY <1>8 DEF PointsTallied, n, w, h

\* When t's hold of r is taken out, every vector that loses r with t, or nothing
\* with the other transactions, still lists what its transaction holds.
LEMMA PointDropped ==
  ASSUME NEW m, GoodLocks(m), NEW r \in ResourceId, NEW t,
         Positions(entry_or_new(m, r), t) # {},
         NEW u, NEW v, NEW w, PointsTallied(v, m, u),
         \A x \in ResourceId : Tally(w, {x}) = Tally(v, {x}) - (IF u = t /\ x = r THEN 1 ELSE 0)
  PROVE  PointsTallied(w, drop(m, r, first(Positions(entry_or_new(m, r), t))), u)
<1> DEFINE h == entry_or_new(m, r)
           pos == first(Positions(h, t))
<1>1. h \in Seq(Holder)
  BY EntryGood
<1>2. pos \in 1 .. Len(h) /\ h[pos].txn = t
  BY <1>1, PositionFound DEF Holds
<1>3. r \in DOMAIN m /\ h = m[r]
  BY <1>2 DEF entry_or_new
<1>4. h[pos] \in Holder
  BY <1>1, <1>2
<1> HIDE DEF pos, h
<1>5. ASSUME NEW x \in ResourceId
      PROVE  Tally(w, {x}) = Tally(entry_or_new(drop(m, r, pos), x), HeldBy(u))
  <2>1. Tally(entry_or_new(drop(m, r, pos), x), HeldBy(u)) =
          Tally(entry_or_new(m, x), HeldBy(u))
            - (IF x = r /\ m[r][pos] \in HeldBy(u) THEN 1 ELSE 0)
    BY <1>2, <1>3, DropTally DEF GoodLocks
  <2>2. m[r][pos] \in HeldBy(u) <=> u = t
    BY <1>2, <1>3, <1>4 DEF HeldBy
  <2>3. Tally(v, {x}) = Tally(entry_or_new(m, x), HeldBy(u))
    BY DEF PointsTallied
  <2> QED
    BY <2>1, <2>2, <2>3
<1> QED
  BY <1>5 DEF PointsTallied, pos, h

\* What is listed is held, and what is held is listed.
LEMMA ListedIffHeld ==
  ASSUME NEW m, GoodLocks(m), NEW t, NEW v \in Seq(ResourceId), PointsTallied(v, m, t),
         NEW r \in ResourceId
  PROVE  /\ Tally(v, {r}) # 0 <=> Holds(entry_or_new(m, r), t)
         /\ r \in Elems(v) <=> Holds(entry_or_new(m, r), t)
<1>1. entry_or_new(m, r) \in Seq(Holder) /\ CompatibleHolders(entry_or_new(m, r))
  BY EntryGood
<1>2. Tally(v, {r}) = IF Holds(entry_or_new(m, r), t) THEN 1 ELSE 0
  BY <1>1, HeldOnce DEF PointsTallied
<1>3. Tally(v, {r}) # 0 <=> r \in Elems(v)
  BY TallyZero DEF Elems
<1> QED
  BY <1>2, <1>3

\* A release and its removal from the index go together (release).
LEMMA ReleaseTallied ==
  ASSUME NEW m, GoodLocks(m), NEW index, IsHashMap(index, TxnId, Seq(ResourceId)),
         NEW t \in TxnId, NEW r \in ResourceId, Positions(entry_or_new(m, r), t) # {},
         PointsTallied(entry_or_new(index, t), m, t),
         NEW u, PointsTallied(entry_or_new(index, u), m, u)
  PROVE  PointsTallied(entry_or_new(forget(index, t, r), u),
                       drop(m, r, first(Positions(entry_or_new(m, r), t))), u)
<1>1. entry_or_new(index, t) \in Seq(ResourceId)
  BY EntryType
<1>2. Tally(entry_or_new(index, t), {r}) # 0
  BY <1>1, ListedIffHeld DEF Holds
<1>3. \A x \in ResourceId :
         Tally(entry_or_new(forget(index, t, r), u), {x}) =
           Tally(entry_or_new(index, u), {x}) - (IF u = t /\ x = r THEN 1 ELSE 0)
  <2> TAKE x \in ResourceId
  <2>1. Tally(entry_or_new(forget(index, t, r), u), {x}) =
          Tally(entry_or_new(index, u), {x}) - (IF u = t /\ r \in {x} THEN 1 ELSE 0)
    BY <1>2, ForgetTally
  <2> QED
    BY <2>1
<1> QED
  BY <1>3, PointDropped

\* One iteration of release_all's first loop: the resource at the front is held,
\* and the rest of the vector lists what remains.
LEMMA PointWalked ==
  ASSUME NEW m, GoodLocks(m), NEW t, NEW v \in Seq(ResourceId), v # <<>>,
         PointsTallied(v, m, t)
  PROVE  /\ Positions(entry_or_new(m, Head(v)), t) # {}
         /\ PointsTallied(Tail(v),
              drop(m, Head(v), first(Positions(entry_or_new(m, Head(v)), t))), t)
<1>1. Head(v) \in ResourceId /\ Head(v) \in Elems(v)
  BY DEF Elems
<1>2. Positions(entry_or_new(m, Head(v)), t) # {}
  BY <1>1, ListedIffHeld DEF Holds
<1>3. \A x \in ResourceId :
         Tally(Tail(v), {x}) = Tally(v, {x}) - (IF t = t /\ x = Head(v) THEN 1 ELSE 0)
  <2> TAKE x \in ResourceId
  <2>1. Tally(Tail(v), {x}) = Tally(v, {x}) - (IF Head(v) \in {x} THEN 1 ELSE 0)
    BY TallyTail
  <2> QED
    BY <2>1
<1> QED
  BY <1>1, <1>2, <1>3, PointDropped

\* The other transactions' vectors are not concerned.
LEMMA PointWalkedOther ==
  ASSUME NEW m, GoodLocks(m), NEW r \in ResourceId, NEW t,
         Positions(entry_or_new(m, r), t) # {},
         NEW u, u # t, NEW v \in Seq(ResourceId), PointsTallied(v, m, u)
  PROVE  PointsTallied(v, drop(m, r, first(Positions(entry_or_new(m, r), t))), u)
<1>1. \A x \in ResourceId : Tally(v, {x}) = Tally(v, {x}) - (IF u = t /\ x = r THEN 1 ELSE 0)
  BY PlacesFinite
<1> QED
  BY <1>1, PointDropped

-----------------------------------------------------------------------------
(* The same of the range locks, which a transaction may hold several times. *)

\* A range lock and its entry in the index go together (try_acquire_range).
LEMMA RangeGrantTallied ==
  ASSUME NEW m, GoodRanges(m), NEW index, IsHashMap(index, TxnId, Seq(ResourceId \X KeyRanges)),
         NEW t \in TxnId, NEW sp \in ResourceId, NEW k \in KeyRanges, NEW md \in LockModes,
         NEW u, SpansTallied(entry_or_new(index, u), m, u)
  PROVE  LET h == entry_or_new(m, sp)
             new_index == insert(index, t, Append(entry_or_new(index, t), <<sp, k>>))
         IN  SpansTallied(entry_or_new(new_index, u),
               insert(m, sp, Append(h, [txn |-> t, range |-> k, mode |-> md])), u)
<1> DEFINE h == entry_or_new(m, sp)
           e == [txn |-> t, range |-> k, mode |-> md]
           v == entry_or_new(index, u)
           longer == Append(entry_or_new(index, t), <<sp, k>>)
           more_holders == Append(h, e)
           w == entry_or_new(insert(index, t, longer), u)
           n == insert(m, sp, more_holders)
<1>1. h \in Seq(RangeHolder) /\ v \in Seq(ResourceId \X KeyRanges)
  BY RangeEntryGood, EntryType
<1>2. e \in RangeHolder /\ \A l : e \in RangeHeldBy(u, l) <=> u = t /\ l = k
  BY DEF RangeHolder, RangeHeldBy
<1>3. w = IF u = t THEN Append(v, <<sp, k>>) ELSE v
  <2>1. w = IF u = t THEN longer ELSE v
    <3> HIDE DEF longer
    <3> QED
      BY EntryInsert
  <2> QED
    BY <2>1
<1>4. \A x : entry_or_new(n, x) = IF x = sp THEN Append(h, e) ELSE entry_or_new(m, x)
  <2>1. \A x : entry_or_new(n, x) = IF x = sp THEN more_holders ELSE entry_or_new(m, x)
    <3> HIDE DEF more_holders
    <3> QED
      BY EntryInsert
  <2> QED
    BY <2>1
<1> HIDE DEF n, w, v, e, h, longer, more_holders
<1>5. ASSUME NEW x \in ResourceId, NEW l \in KeyRanges
      PROVE  Tally(w, {<<x, l>>}) = Tally(entry_or_new(n, x), RangeHeldBy(u, l))
  <2>1. Tally(v, {<<x, l>>}) = Tally(entry_or_new(m, x), RangeHeldBy(u, l))
    BY DEF SpansTallied, v
  <2>2. Tally(v, {<<x, l>>}) \in Nat
    BY <1>1, PlacesFinite
  <2>3. Tally(Append(v, <<sp, k>>), {<<x, l>>}) =
          Tally(v, {<<x, l>>}) + (IF <<sp, k>> \in {<<x, l>>} THEN 1 ELSE 0)
    BY <1>1, TallyAppend
  <2>4. Tally(w, {<<x, l>>}) =
          Tally(v, {<<x, l>>}) + (IF u = t /\ x = sp /\ l = k THEN 1 ELSE 0)
    BY <1>3, <2>2, <2>3
  <2>5. Tally(Append(h, e), RangeHeldBy(u, l)) =
          Tally(h, RangeHeldBy(u, l)) + (IF e \in RangeHeldBy(u, l) THEN 1 ELSE 0)
    BY <1>1, <1>2, TallyAppend
  <2>6. Tally(entry_or_new(n, x), RangeHeldBy(u, l)) =
          Tally(entry_or_new(m, x), RangeHeldBy(u, l))
            + (IF u = t /\ x = sp /\ l = k THEN 1 ELSE 0)
    <3>1. CASE x = sp
      BY <1>2, <1>4, <2>5, <3>1 DEF h
    <3>2. CASE x # sp
      BY <1>4, <2>1, <2>2, <3>2
    <3> QED
      BY <3>1, <3>2
  <2> QED
    BY <2>1, <2>4, <2>6
<1> QED
  BY <1>5 DEF SpansTallied, n, w, e, h, longer, more_holders

\* When one of t's locks on the range is taken out, every vector that loses it
\* with t, or nothing with the others, still lists what its transaction holds.
LEMMA SpanDropped ==
  ASSUME NEW m, GoodRanges(m), NEW sp \in ResourceId, NEW k \in KeyRanges, NEW t,
         RangePositions(entry_or_new(m, sp), t, k) # {},
         NEW u, NEW v, NEW w, SpansTallied(v, m, u),
         \A x \in ResourceId, l \in KeyRanges :
            Tally(w, {<<x, l>>}) =
              Tally(v, {<<x, l>>}) - (IF u = t /\ x = sp /\ l = k THEN 1 ELSE 0)
  PROVE  SpansTallied(w, drop(m, sp, first(RangePositions(entry_or_new(m, sp), t, k))), u)
<1> DEFINE h == entry_or_new(m, sp)
           pos == first(RangePositions(h, t, k))
<1>1. h \in Seq(RangeHolder)
  BY RangeEntryGood
<1>2. RangePositions(h, t, k) \in SUBSET Nat
  BY DEF RangePositions
<1>3. pos \in RangePositions(h, t, k)
  BY <1>2, FirstIsLeast
<1>4. pos \in 1 .. Len(h) /\ h[pos].txn = t /\ h[pos].range = k
  BY <1>3 DEF RangePositions
<1>5. sp \in DOMAIN m /\ h = m[sp]
  BY <1>4 DEF entry_or_new
<1>6. h[pos] \in RangeHolder
  BY <1>1, <1>4
<1> HIDE DEF pos, h
<1>7. ASSUME NEW x \in ResourceId, NEW l \in KeyRanges
      PROVE  Tally(w, {<<x, l>>}) = Tally(entry_or_new(drop(m, sp, pos), x), RangeHeldBy(u, l))
  <2>1. Tally(entry_or_new(drop(m, sp, pos), x), RangeHeldBy(u, l)) =
          Tally(entry_or_new(m, x), RangeHeldBy(u, l))
            - (IF x = sp /\ m[sp][pos] \in RangeHeldBy(u, l) THEN 1 ELSE 0)
    BY <1>4, <1>5, DropTally DEF GoodRanges
  <2>2. m[sp][pos] \in RangeHeldBy(u, l) <=> u = t /\ l = k
    BY <1>4, <1>5, <1>6 DEF RangeHeldBy
  <2>3. Tally(v, {<<x, l>>}) = Tally(entry_or_new(m, x), RangeHeldBy(u, l))
    BY DEF SpansTallied
  <2> QED
    BY <2>1, <2>2, <2>3
<1> QED
  BY <1>7 DEF SpansTallied, pos, h

\* A range is listed exactly if the transaction has a lock on it.
LEMMA SpanListedIffHeld ==
  ASSUME NEW m, GoodRanges(m), NEW t, NEW v, SpansTallied(v, m, t),
         NEW sp \in ResourceId, NEW k \in KeyRanges
  PROVE  Tally(v, {<<sp, k>>}) # 0 <=> RangePositions(entry_or_new(m, sp), t, k) # {}
<1>1. entry_or_new(m, sp) \in Seq(RangeHolder)
  BY RangeEntryGood
<1>2. RangePositions(entry_or_new(m, sp), t, k) = Places(entry_or_new(m, sp), RangeHeldBy(t, k))
  BY <1>1, RangePositionsTallied
<1>3. Tally(entry_or_new(m, sp), RangeHeldBy(t, k)) = 0
        <=> Places(entry_or_new(m, sp), RangeHeldBy(t, k)) = {}
  BY <1>1, PlacesFinite, FS_EmptySet DEF Tally
<1> QED
  BY <1>2, <1>3 DEF SpansTallied

\* A range release and its removal from the index go together (release_range).
LEMMA RangeReleaseTallied ==
  ASSUME NEW m, GoodRanges(m), NEW index, IsHashMap(index, TxnId, Seq(ResourceId \X KeyRanges)),
         NEW t \in TxnId, NEW sp \in ResourceId, NEW k \in KeyRanges,
         RangePositions(entry_or_new(m, sp), t, k) # {},
         SpansTallied(entry_or_new(index, t), m, t),
         NEW u, SpansTallied(entry_or_new(index, u), m, u)
  PROVE  SpansTallied(entry_or_new(forget(index, t, <<sp, k>>), u),
                      drop(m, sp, first(RangePositions(entry_or_new(m, sp), t, k))), u)
<1>1. Tally(entry_or_new(index, t), {<<sp, k>>}) # 0
  BY SpanListedIffHeld
<1>2. \A x \in ResourceId, l \in KeyRanges :
         Tally(entry_or_new(forget(index, t, <<sp, k>>), u), {<<x, l>>}) =
           Tally(entry_or_new(index, u), {<<x, l>>})
             - (IF u = t /\ x = sp /\ l = k THEN 1 ELSE 0)
  <2> TAKE x \in ResourceId, l \in KeyRanges
  <2>1. Tally(entry_or_new(forget(index, t, <<sp, k>>), u), {<<x, l>>}) =
          Tally(entry_or_new(index, u), {<<x, l>>})
            - (IF u = t /\ <<sp, k>> \in {<<x, l>>} THEN 1 ELSE 0)
    BY <1>1, ForgetTally
  <2> QED
    BY <2>1
<1> QED
  BY <1>2, SpanDropped

\* One iteration of release_all's second loop: the range at the front is held,
\* and the rest of the vector lists what remains.
LEMMA SpanWalked ==
  ASSUME NEW m, GoodRanges(m), NEW t, NEW v \in Seq(ResourceId \X KeyRanges), v # <<>>,
         SpansTallied(v, m, t), NEW sp \in ResourceId, NEW k \in KeyRanges, Head(v) = <<sp, k>>
  PROVE  /\ RangePositions(entry_or_new(m, sp), t, k) # {}
         /\ SpansTallied(Tail(v),
              drop(m, sp, first(RangePositions(entry_or_new(m, sp), t, k))), t)
<1>1. Tally(v, {<<sp, k>>}) # 0
  <2>1. 1 \in 1 .. Len(v) /\ v[1] = <<sp, k>>
    OBVIOUS
  <2> QED
    BY <2>1, TallyZero
<1>2. RangePositions(entry_or_new(m, sp), t, k) # {}
  BY <1>1, SpanListedIffHeld
<1>3. \A x \in ResourceId, l \in KeyRanges :
         Tally(Tail(v), {<<x, l>>}) =
           Tally(v, {<<x, l>>}) - (IF t = t /\ x = sp /\ l = k THEN 1 ELSE 0)
  <2> TAKE x \in ResourceId, l \in KeyRanges
  <2>1. Tally(Tail(v), {<<x, l>>}) =
          Tally(v, {<<x, l>>}) - (IF Head(v) \in {<<x, l>>} THEN 1 ELSE 0)
    BY TallyTail
  <2> QED
    BY <2>1
<1> QED
  BY <1>2, <1>3, SpanDropped

\* The other transactions' vectors are not concerned.
LEMMA SpanWalkedOther ==
  ASSUME NEW m, GoodRanges(m), NEW sp \in ResourceId, NEW k \in KeyRanges, NEW t,
         RangePositions(entry_or_new(m, sp), t, k) # {},
         NEW u, u # t, NEW v \in Seq(ResourceId \X KeyRanges), SpansTallied(v, m, u)
  PROVE  SpansTallied(v, drop(m, sp, first(RangePositions(entry_or_new(m, sp), t, k))), u)
<1>1. \A x \in ResourceId, l \in KeyRanges :
         Tally(v, {<<x, l>>}) =
           Tally(v, {<<x, l>>}) - (IF u = t /\ x = sp /\ l = k THEN 1 ELSE 0)
  BY PlacesFinite
<1> QED
  BY <1>1, SpanDropped

-----------------------------------------------------------------------------
(* The inductive invariant.  While no release_all for t is inside a shard,  *)
(* t's vectors are those stored in the two indexes; while one is, they are   *)
(* what it has not walked yet, and the indexes have none for t.  At most one  *)
(* thread is inside a shard, so that the two cases do not mix.                *)

\* The mutex of a shard.
Exclusive ==
  \A a, b \in Threads, s \in Shards : Inside(a, s) /\ Inside(b, s) => a = b

Sweeps(th, s, t) == Inside(th, s) /\ sweep[th].txn = t

StoredListed(s, t) ==
  /\ PointsTallied(entry_or_new(by_txn[s], t), locks[s], t)
  /\ SpansTallied(entry_or_new(range_by_txn[s], t), ranges[s], t)

TakenListed(th, s, t) ==
  /\ PointsTallied(sweep[th].points, locks[s], t)
  /\ SpansTallied(sweep[th].spans, ranges[s], t)
  /\ t \notin DOMAIN by_txn[s] /\ t \notin DOMAIN range_by_txn[s]

ShardListed(s) ==
  \A t \in TxnId :
     /\ (\A th \in Threads : ~Sweeps(th, s, t)) => StoredListed(s, t)
     /\ \A th \in Threads : Sweeps(th, s, t) => TakenListed(th, s, t)

AllListed == \A s \in Shards : ShardListed(s)

TableInv == IInv /\ NoResidue /\ Exclusive /\ AllListed

\* A new manager satisfies the invariant (with_shards).
LEMMA InitTableInv == TableInit => TableInv
<1> SUFFICES ASSUME TableInit PROVE TableInv
  OBVIOUS
<1>1. IInv
  BY InitIInv
<1>2. DOMAIN EmptyMap = {} /\ \A x : entry_or_new(EmptyMap, x) = <<>>
  BY DEF EmptyMap, entry_or_new
<1>3. NoResidue
  BY <1>2 DEF TableInit, NoResidue
<1>4. Exclusive
  BY DEF TableInit, Exclusive, Inside, Idle
<1>5. \A S : Tally(<<>>, S) = 0
  BY FS_EmptySet DEF Tally, Places
<1>6. ASSUME NEW s \in Shards, NEW t \in TxnId
      PROVE  StoredListed(s, t) /\ \A th \in Threads : ~Sweeps(th, s, t)
  <2>1. /\ locks[s] = EmptyMap /\ by_txn[s] = EmptyMap
        /\ ranges[s] = EmptyMap /\ range_by_txn[s] = EmptyMap
    BY DEF TableInit
  <2>2. StoredListed(s, t)
    BY <1>2, <1>5, <2>1 DEF StoredListed, PointsTallied, SpansTallied
  <2> QED
    BY <2>2 DEF TableInit, Sweeps, Inside, Idle
<1>7. AllListed
  BY <1>6 DEF AllListed, ShardListed
<1> QED
  BY <1>1, <1>3, <1>4, <1>7 DEF TableInv

\* A shard other than s0 is as it was.
OthersKept(s0) ==
  \A s \in Shards : s # s0 =>
     /\ locks'[s] = locks[s] /\ by_txn'[s] = by_txn[s]
     /\ ranges'[s] = ranges[s] /\ range_by_txn'[s] = range_by_txn[s]

\* Nothing is taken out of the indexes of a shard that is free.
LEMMA FreeListed ==
  ASSUME TableInv, NEW s \in Shards, ShardFree(s), NEW t \in TxnId
  PROVE  /\ StoredListed(s, t)
         /\ PointsTallied(entry_or_new(by_txn[s], t), locks[s], t)
         /\ SpansTallied(entry_or_new(range_by_txn[s], t), ranges[s], t)
BY DEF TableInv, AllListed, ShardListed, ShardFree, Sweeps, StoredListed

\* An operation that is one critical section changes the shard it locks, and must
\* leave its indexes exact.
LEMMA ClientFrame ==
  ASSUME TableInv, NEW s0 \in Shards, ShardFree(s0), sweep' = sweep, OthersKept(s0),
         \A t \in TxnId : StoredListed(s0, t)'
  PROVE  Exclusive' /\ AllListed'
<1>1. Exclusive'
  BY DEF TableInv, Exclusive, Inside
<1>2. ASSUME NEW s \in Shards, NEW t \in TxnId
      PROVE  /\ (\A th \in Threads : ~Sweeps(th, s, t)') => StoredListed(s, t)'
             /\ \A th \in Threads : Sweeps(th, s, t)' => TakenListed(th, s, t)'
  <2>1. CASE s = s0
    BY <2>1 DEF ShardFree, Sweeps, Inside
  <2>2. CASE s # s0
    <3>1. /\ locks'[s] = locks[s] /\ by_txn'[s] = by_txn[s]
          /\ ranges'[s] = ranges[s] /\ range_by_txn'[s] = range_by_txn[s]
      BY <2>2 DEF OthersKept
    <3>2. /\ (\A th \in Threads : ~Sweeps(th, s, t)) => StoredListed(s, t)
          /\ \A th \in Threads : Sweeps(th, s, t) => TakenListed(th, s, t)
      BY DEF TableInv, AllListed, ShardListed
    <3> QED
      BY <3>1, <3>2 DEF StoredListed, TakenListed, Sweeps, Inside
  <2> QED
    BY <2>1, <2>2
<1> QED
  BY <1>1, <1>2 DEF AllListed, ShardListed

\* A step of release_all changes the shard its thread is inside, or enters, or
\* leaves; nobody else is inside that one.
LEMMA SweepFrame ==
  ASSUME TableInv, NEW th \in Threads, NEW s0 \in Shards,
         \A o \in Threads : o # th => sweep'[o] = sweep[o] /\ ~Inside(o, s0),
         \A s \in Shards : s # s0 => ~Inside(th, s) /\ ~Inside(th, s)',
         OthersKept(s0),
         ~Inside(th, s0)' => \A t \in TxnId : StoredListed(s0, t)',
         Inside(th, s0)' => \A t \in TxnId : IF t = sweep'[th].txn
                                            THEN TakenListed(th, s0, t)'
                                            ELSE StoredListed(s0, t)'
  PROVE  Exclusive' /\ AllListed'
<1>1. \A o \in Threads, s \in Shards : o # th => (Inside(o, s)' <=> Inside(o, s))
  BY DEF Inside
<1>2. Exclusive'
  BY <1>1 DEF TableInv, Exclusive
<1>3. ASSUME NEW s \in Shards, NEW t \in TxnId
      PROVE  /\ (\A o \in Threads : ~Sweeps(o, s, t)') => StoredListed(s, t)'
             /\ \A o \in Threads : Sweeps(o, s, t)' => TakenListed(o, s, t)'
  <2>1. CASE s = s0
    <3>1. \A o \in Threads : Inside(o, s0)' => o = th
      BY <1>1
    <3> QED
      BY <2>1, <3>1 DEF Sweeps
  <2>2. CASE s # s0
    <3>1. /\ locks'[s] = locks[s] /\ by_txn'[s] = by_txn[s]
          /\ ranges'[s] = ranges[s] /\ range_by_txn'[s] = range_by_txn[s]
      BY <2>2 DEF OthersKept
    <3>2. /\ (\A o \in Threads : ~Sweeps(o, s, t)) => StoredListed(s, t)
          /\ \A o \in Threads : Sweeps(o, s, t) => TakenListed(o, s, t)
      BY DEF TableInv, AllListed, ShardListed
    <3>3. \A o \in Threads : Sweeps(o, s, t)' <=> Sweeps(o, s, t)
      BY <1>1, <2>2 DEF Sweeps
    <3>4. \A o \in Threads : Sweeps(o, s, t) => sweep'[o] = sweep[o]
      BY <2>2 DEF Sweeps
    <3> QED
      BY <3>1, <3>2, <3>3, <3>4 DEF StoredListed, TakenListed
  <2> QED
    BY <2>1, <2>2
<1> QED
  BY <1>2, <1>3 DEF AllListed, ShardListed

-----------------------------------------------------------------------------
(* The operations preserve it. *)

\* No key of a map has an empty vector.
Full(m) == \A x \in DOMAIN m : m[x] # <<>>

\* A vector that is not empty may be stored (HashMap::insert).
LEMMA InsertFull ==
  ASSUME NEW m, Full(m), NEW k, NEW v, v # <<>>
  PROVE  Full(insert(m, k, v)) /\ DOMAIN insert(m, k, v) = DOMAIN m \cup {k}
BY DEF Full, insert

\* Taking a key out leaves no empty vector (HashMap::remove).
LEMMA RemoveFull ==
  ASSUME NEW m, Full(m), NEW k
  PROVE  Full(remove(m, k))
BY DEF Full, remove

\* Nor does a removal from a vector of either index (forget_resource, forget_range).
LEMMA ForgetFull ==
  ASSUME NEW index, Full(index), NEW t, NEW e
  PROVE  Full(forget(index, t, e))
<1>1. \A i : Full(drop(index, t, i))
  BY DropNotEmpty DEF Full
<1>2. Full(remove(index, t))
  BY RemoveFull
<1> QED
  BY <1>1, <1>2 DEF forget

\* NoResidue, shard by shard.
Tidy(s) ==
  /\ Full(locks[s]) /\ \A r \in DOMAIN locks[s] : shard_index[r] = s
  /\ Full(ranges[s]) /\ \A r \in DOMAIN ranges[s] : shard_index[r] = s
  /\ Full(by_txn[s]) /\ Full(range_by_txn[s])

\* It says the same.
LEMMA NoResidueByShard == NoResidue <=> \A s \in Shards : Tidy(s)
BY DEF NoResidue, Tidy, Full

\* An operation must leave the shard it locks tidy, and it leaves the others alone.
LEMMA TidyFrame ==
  ASSUME NoResidue, NEW s0 \in Shards, OthersKept(s0), Tidy(s0)'
  PROVE  NoResidue'
<1>1. \A s \in Shards : Tidy(s)
  BY NoResidueByShard
<1>2. ASSUME NEW s \in Shards
      PROVE  Tidy(s)'
  <2>1. CASE s = s0
    BY <2>1
  <2>2. CASE s # s0
    BY <1>1, <2>2 DEF OthersKept, Tidy
  <2> QED
    BY <2>1, <2>2
<1> QED
  BY <1>2 DEF NoResidue, Tidy, Full

\* What try_grant_locked leaves in the entry is never empty: without a holder
\* every request is granted.
LEMMA GrantedNotEmpty ==
  ASSUME NEW h \in Seq(Holder), NEW t \in TxnId, NEW m \in LockModes
  PROVE  /\ granted(h, t, m) # <<>>
         /\ ~grants(h, t, m) => h # <<>>
<1>1. CASE Holds(h, t)
  <2>1. first(Positions(h, t)) \in 1 .. Len(h)
    BY <1>1, PositionFound
  <2>2. Len(granted(h, t, m)) = Len(h) /\ Len(h) # 0
    BY <1>1, <2>1 DEF granted
  <2> QED
    BY <2>2
<1>2. CASE ~Holds(h, t)
  <2>1. granted(h, t, m) = Append(h, [txn |-> t, mode |-> m])
    BY <1>2 DEF granted
  <2>2. granted(h, t, m) # <<>>
    BY <2>1 DEF Holder
  <2> QED
    BY <1>2, <2>2 DEF grants
<1> QED
  BY <1>1, <1>2

\* try_acquire records a new holder in the index, once, and leaves no entry
\* behind when it refuses.
LEMMA TryAcquireTableInv ==
  ASSUME TableInv, NEW t \in TxnId, NEW r \in PointIds, NEW m \in RequestModes,
         try_acquire(t, r, m)
  PROVE  TableInv'
<1> DEFINE s == shard_index[r]
           h == entry_or_new(locks[s], r)
           ok == grants(h, t, m)
           stored == IF ok THEN granted(h, t, m) ELSE h
           index == IF ok THEN indexed(by_txn[s], h, t, r) ELSE by_txn[s]
<1>1. r \in ResourceId /\ s \in Shards /\ m \in LockModes
  BY Arguments
<1>2. IInv'
  BY TryAcquireIInv DEF TableInv
<1>3. /\ GoodLocks(locks[s]) /\ IsHashMap(by_txn[s], TxnId, Seq(ResourceId))
      /\ DOMAIN locks = Shards /\ DOMAIN by_txn = Shards
  BY <1>1 DEF TableInv, IInv, LocksInv, IndexInv
<1>4. h \in Seq(Holder)
  BY <1>3, EntryGood
<1>5. /\ locks' = [locks EXCEPT ![s] = insert(locks[s], r, stored)]
      /\ by_txn' = IF ok THEN [by_txn EXCEPT ![s] = index] ELSE by_txn
      /\ ranges' = ranges /\ range_by_txn' = range_by_txn /\ sweep' = sweep
      /\ ShardFree(s)
  BY DEF try_acquire, try_grant_locked
<1>6. /\ locks'[s] = insert(locks[s], r, stored) /\ by_txn'[s] = index
      /\ \A x \in Shards : x # s => locks'[x] = locks[x] /\ by_txn'[x] = by_txn[x]
  BY <1>1, <1>3, <1>5
<1>7. OthersKept(s)
  BY <1>5, <1>6 DEF OthersKept
<1>8. Tidy(s)'
  <2>1. Tidy(s)
    BY <1>1, NoResidueByShard DEF TableInv
  <2>2. stored # <<>>
    BY <1>1, <1>4, GrantedNotEmpty
  <2>3. Full(insert(locks[s], r, stored)) /\ DOMAIN insert(locks[s], r, stored) = DOMAIN locks[s] \cup {r}
    <3> HIDE DEF stored
    <3> QED
      BY <2>1, <2>2, InsertFull DEF Tidy
  <2>4. Full(index)
    <3>1. entry_or_new(by_txn[s], t) \in Seq(ResourceId)
      BY <1>3, EntryType
    <3>2. Append(entry_or_new(by_txn[s], t), r) # <<>>
      BY <1>1, <3>1
    <3>3. Full(insert(by_txn[s], t, Append(entry_or_new(by_txn[s], t), r)))
      BY <2>1, <3>2, InsertFull DEF Tidy
    <3> QED
      BY <2>1, <3>3 DEF Tidy, indexed
  <2> HIDE DEF stored, index
  <2> QED
    BY <1>5, <1>6, <2>1, <2>3, <2>4 DEF Tidy
<1>9. NoResidue'
  BY <1>1, <1>7, <1>8, TidyFrame DEF TableInv
<1>10. ASSUME NEW u \in TxnId
       PROVE  StoredListed(s, u)'
  <2>1. /\ PointsTallied(entry_or_new(by_txn[s], u), locks[s], u)
        /\ SpansTallied(entry_or_new(range_by_txn[s], u), ranges[s], u)
    BY <1>1, <1>5, FreeListed
  <2>2. PointsTallied(entry_or_new(index, u), insert(locks[s], r, stored), u)
    <3>1. CASE ok
      BY <1>1, <1>3, <2>1, <3>1, GrantTallied
    <3>2. CASE ~ok
      <4>1. \A x : entry_or_new(insert(locks[s], r, h), x) = entry_or_new(locks[s], x)
        BY EntryInsert
      <4> QED
        BY <2>1, <3>2, <4>1 DEF PointsTallied
    <3> QED
      BY <3>1, <3>2
  <2> HIDE DEF stored, index
  <2> QED
    BY <1>5, <1>6, <2>1, <2>2 DEF StoredListed
<1> QED
  BY <1>1, <1>2, <1>5, <1>7, <1>9, <1>10, ClientFrame DEF TableInv

\* release takes a lock and its entry in the index out together.
LEMMA ReleaseTableInv ==
  ASSUME TableInv, NEW t \in TxnId, NEW r \in PointIds, release(t, r)
  PROVE  TableInv'
<1> DEFINE s == shard_index[r]
           P == Positions(entry_or_new(locks[s], r), t)
           m == drop(locks[s], r, first(P))
           index == forget(by_txn[s], t, r)
<1>1. r \in ResourceId /\ s \in Shards
  BY Arguments
<1>2. IInv'
  BY ReleaseIInv DEF TableInv
<1>3. /\ GoodLocks(locks[s]) /\ IsHashMap(by_txn[s], TxnId, Seq(ResourceId))
      /\ DOMAIN locks = Shards /\ DOMAIN by_txn = Shards
  BY <1>1 DEF TableInv, IInv, LocksInv, IndexInv
<1>4. ranges' = ranges /\ range_by_txn' = range_by_txn /\ sweep' = sweep /\ ShardFree(s)
  BY DEF release
<1>5. Tidy(s)
  BY <1>1, NoResidueByShard DEF TableInv
<1>6. \A u \in TxnId : /\ PointsTallied(entry_or_new(by_txn[s], u), locks[s], u)
                       /\ SpansTallied(entry_or_new(range_by_txn[s], u), ranges[s], u)
  BY <1>1, <1>4, FreeListed
<1>7. OthersKept(s) /\ Tidy(s)' /\ \A u \in TxnId : StoredListed(s, u)'
  <2>1. CASE P = {}
    <3>1. locks' = locks /\ by_txn' = by_txn
      BY <2>1 DEF release
    <3> QED
      BY <1>4, <1>5, <1>6, <3>1 DEF OthersKept, Tidy, StoredListed
  <2>2. CASE P # {}
    <3>1. locks' = [locks EXCEPT ![s] = m] /\ by_txn' = [by_txn EXCEPT ![s] = index]
      BY <2>2 DEF release
    <3>2. \A u \in TxnId : PointsTallied(entry_or_new(index, u), m, u)
      BY <1>1, <1>3, <1>6, <2>2, ReleaseTallied
    <3>3. Full(m) /\ Full(index)
      BY <1>5, DropNotEmpty, ForgetFull DEF Full, Tidy
    <3>4. DOMAIN m \subseteq DOMAIN locks[s]
      <4>1. r \in DOMAIN locks[s]
        BY <2>2 DEF entry_or_new, Positions
      <4> QED
        BY <4>1, DropValue
    <3> HIDE DEF m, index
    <3>5. locks'[s] = m /\ by_txn'[s] = index
      BY <1>1, <1>3, <3>1
    <3>6. OthersKept(s)
      BY <1>3, <1>4, <3>1 DEF OthersKept
    <3>7. Tidy(s)'
      BY <1>4, <1>5, <3>3, <3>4, <3>5 DEF Tidy
    <3> QED
      BY <1>4, <1>6, <3>2, <3>5, <3>6, <3>7 DEF StoredListed
  <2> QED
    BY <2>1, <2>2
<1>8. NoResidue'
  BY <1>1, <1>7, TidyFrame DEF TableInv
<1> QED
  BY <1>1, <1>2, <1>4, <1>7, <1>8, ClientFrame DEF TableInv

\* try_acquire_range records the lock and the index entry together.
LEMMA TryAcquireRangeTableInv ==
  ASSUME TableInv, NEW t \in TxnId, NEW sp \in SpaceIds, NEW k \in RequestRanges,
         NEW m \in RequestModes, try_acquire_range(t, sp, k, m)
  PROVE  TableInv'
<1> DEFINE s == shard_index[sp]
           h == entry_or_new(ranges[s], sp)
           held == entry_or_new(range_by_txn[s], t)
           longer == Append(h, [txn |-> t, range |-> k, mode |-> m])
           listed == Append(held, <<sp, k>>)
<1>1. sp \in ResourceId /\ s \in Shards /\ m \in LockModes /\ k \in KeyRanges
  BY Arguments
<1>2. IInv'
  BY TryAcquireRangeIInv DEF TableInv
<1>3. /\ GoodRanges(ranges[s])
      /\ IsHashMap(range_by_txn[s], TxnId, Seq(ResourceId \X KeyRanges))
      /\ DOMAIN ranges = Shards /\ DOMAIN range_by_txn = Shards
  BY <1>1 DEF TableInv, IInv, RangesInv, RangeIndexInv
<1>4. locks' = locks /\ by_txn' = by_txn /\ sweep' = sweep /\ ShardFree(s)
  BY DEF try_acquire_range
<1>5. Tidy(s)
  BY <1>1, NoResidueByShard DEF TableInv
<1>6. \A u \in TxnId : /\ PointsTallied(entry_or_new(by_txn[s], u), locks[s], u)
                       /\ SpansTallied(entry_or_new(range_by_txn[s], u), ranges[s], u)
  BY <1>1, <1>4, FreeListed
<1>7. h \in Seq(RangeHolder) /\ held \in Seq(ResourceId \X KeyRanges)
  BY <1>3, RangeEntryGood, EntryType
<1>8. OthersKept(s) /\ Tidy(s)' /\ \A u \in TxnId : StoredListed(s, u)'
  <2>1. CASE range_conflict(h, t, k, m)
    <3>1. ranges' = [ranges EXCEPT ![s] = insert(ranges[s], sp, h)] /\ range_by_txn' = range_by_txn
      BY <2>1 DEF try_acquire_range
    <3>2. ranges'[s] = insert(ranges[s], sp, h)
      BY <1>1, <1>3, <3>1
    <3>3. h # <<>>
      BY <2>1 DEF range_conflict
    <3>4. Full(insert(ranges[s], sp, h)) /\ DOMAIN insert(ranges[s], sp, h) = DOMAIN ranges[s] \cup {sp}
      BY <1>5, <3>3, InsertFull DEF Tidy
    <3>5. OthersKept(s)
      BY <1>3, <1>4, <3>1 DEF OthersKept
    <3>6. \A x : entry_or_new(insert(ranges[s], sp, h), x) = entry_or_new(ranges[s], x)
      BY EntryInsert
    <3>7. \A u \in TxnId : SpansTallied(entry_or_new(range_by_txn[s], u), insert(ranges[s], sp, h), u)
      BY <1>6, <3>6 DEF SpansTallied
    <3> HIDE DEF h
    <3>8. Tidy(s)'
      BY <1>4, <1>5, <3>1, <3>2, <3>4 DEF Tidy
    <3> QED
      BY <1>4, <1>6, <3>1, <3>2, <3>5, <3>7, <3>8 DEF StoredListed
  <2>2. CASE ~range_conflict(h, t, k, m)
    <3>1. /\ ranges' = [ranges EXCEPT ![s] = insert(ranges[s], sp, longer)]
          /\ range_by_txn' = [range_by_txn EXCEPT ![s] = insert(range_by_txn[s], t, listed)]
      BY <2>2 DEF try_acquire_range
    <3>2. /\ ranges'[s] = insert(ranges[s], sp, longer)
          /\ range_by_txn'[s] = insert(range_by_txn[s], t, listed)
      <4> HIDE DEF longer, listed
      <4> QED
        BY <1>1, <1>3, <3>1
    <3>3. longer # <<>> /\ listed # <<>>
      <4>1. [txn |-> t, range |-> k, mode |-> m] \in RangeHolder /\ <<sp, k>> \in ResourceId \X KeyRanges
        BY <1>1 DEF RangeHolder
      <4> HIDE DEF h, held
      <4> QED
        BY <1>7, <4>1
    <3>4. \A u \in TxnId : SpansTallied(entry_or_new(insert(range_by_txn[s], t, listed), u),
                                        insert(ranges[s], sp, longer), u)
      BY <1>1, <1>3, <1>6, RangeGrantTallied
    <3> HIDE DEF longer, listed
    <3>5. OthersKept(s)
      BY <1>3, <1>4, <3>1 DEF OthersKept
    <3>6. /\ Full(insert(ranges[s], sp, longer))
          /\ DOMAIN insert(ranges[s], sp, longer) = DOMAIN ranges[s] \cup {sp}
          /\ Full(insert(range_by_txn[s], t, listed))
      BY <1>5, <3>3, InsertFull DEF Tidy
    <3>7. Tidy(s)'
      BY <1>4, <1>5, <3>2, <3>6 DEF Tidy
    <3> QED
      BY <1>4, <1>6, <3>2, <3>4, <3>5, <3>7 DEF StoredListed
  <2> QED
    BY <2>1, <2>2
<1>9. NoResidue'
  BY <1>1, <1>8, TidyFrame DEF TableInv
<1> QED
  BY <1>1, <1>2, <1>4, <1>8, <1>9, ClientFrame DEF TableInv

\* release_range takes a lock and its entry in the index out together.
LEMMA ReleaseRangeTableInv ==
  ASSUME TableInv, NEW t \in TxnId, NEW sp \in SpaceIds, NEW k \in RequestRanges,
         release_range(t, sp, k)
  PROVE  TableInv'
<1> DEFINE s == shard_index[sp]
           P == RangePositions(entry_or_new(ranges[s], sp), t, k)
           m == drop(ranges[s], sp, first(P))
           index == forget(range_by_txn[s], t, <<sp, k>>)
<1>1. sp \in ResourceId /\ s \in Shards /\ k \in KeyRanges
  BY Arguments
<1>2. IInv'
  BY ReleaseRangeIInv DEF TableInv
<1>3. /\ GoodRanges(ranges[s])
      /\ IsHashMap(range_by_txn[s], TxnId, Seq(ResourceId \X KeyRanges))
      /\ DOMAIN ranges = Shards /\ DOMAIN range_by_txn = Shards
  BY <1>1 DEF TableInv, IInv, RangesInv, RangeIndexInv
<1>4. locks' = locks /\ by_txn' = by_txn /\ sweep' = sweep /\ ShardFree(s)
  BY DEF release_range
<1>5. Tidy(s)
  BY <1>1, NoResidueByShard DEF TableInv
<1>6. \A u \in TxnId : /\ PointsTallied(entry_or_new(by_txn[s], u), locks[s], u)
                       /\ SpansTallied(entry_or_new(range_by_txn[s], u), ranges[s], u)
  BY <1>1, <1>4, FreeListed
<1>7. OthersKept(s) /\ Tidy(s)' /\ \A u \in TxnId : StoredListed(s, u)'
  <2>1. CASE P = {}
    <3>1. ranges' = ranges /\ range_by_txn' = range_by_txn
      BY <2>1 DEF release_range
    <3> QED
      BY <1>4, <1>5, <1>6, <3>1 DEF OthersKept, Tidy, StoredListed
  <2>2. CASE P # {}
    <3>1. ranges' = [ranges EXCEPT ![s] = m] /\ range_by_txn' = [range_by_txn EXCEPT ![s] = index]
      BY <2>2 DEF release_range
    <3>2. \A u \in TxnId : SpansTallied(entry_or_new(index, u), m, u)
      BY <1>1, <1>3, <1>6, <2>2, RangeReleaseTallied
    <3>3. Full(m) /\ Full(index)
      BY <1>5, DropNotEmpty, ForgetFull DEF Full, Tidy
    <3>4. DOMAIN m \subseteq DOMAIN ranges[s]
      <4>1. sp \in DOMAIN ranges[s]
        BY <2>2 DEF entry_or_new, RangePositions
      <4> QED
        BY <4>1, DropValue
    <3> HIDE DEF m, index
    <3>5. ranges'[s] = m /\ range_by_txn'[s] = index
      BY <1>1, <1>3, <3>1
    <3>6. OthersKept(s)
      BY <1>3, <1>4, <3>1 DEF OthersKept
    <3>7. Tidy(s)'
      BY <1>4, <1>5, <3>3, <3>4, <3>5 DEF Tidy
    <3> QED
      BY <1>4, <1>6, <3>2, <3>5, <3>6, <3>7 DEF StoredListed
  <2> QED
    BY <2>1, <2>2
<1>8. NoResidue'
  BY <1>1, <1>7, TidyFrame DEF TableInv
<1> QED
  BY <1>1, <1>2, <1>4, <1>7, <1>8, ClientFrame DEF TableInv

-----------------------------------------------------------------------------
(* The steps of release_all preserve it. *)

\* Calling release_all takes nothing yet, and no shard is entered.
LEMMA ReleaseAllCallTableInv ==
  ASSUME TableInv, NEW th \in Threads, NEW t \in TxnId, ReleaseAllCall(th, t)
  PROVE  TableInv'
<1>1. IInv'
  BY ReleaseAllCallIInv DEF TableInv
<1>2. /\ locks' = locks /\ by_txn' = by_txn /\ ranges' = ranges /\ range_by_txn' = range_by_txn
      /\ \A o \in Threads : o # th => sweep'[o] = sweep[o]
      /\ sweep[th].pc = "idle" /\ sweep'[th].pc = "waiting"
  BY DEF ReleaseAllCall, TableInv, IInv, SweepInv, Idle
<1>3. \A o \in Threads, s \in Shards :
         (Inside(o, s)' <=> Inside(o, s)) /\ (Inside(o, s) => sweep'[o] = sweep[o])
  BY <1>2 DEF Inside
<1>4. NoResidue'
  BY <1>2 DEF TableInv, NoResidue
<1>5. Exclusive'
  BY <1>3 DEF TableInv, Exclusive
<1>6. ASSUME NEW s \in Shards, NEW u \in TxnId
      PROVE  /\ (\A o \in Threads : ~Sweeps(o, s, u)') => StoredListed(s, u)'
             /\ \A o \in Threads : Sweeps(o, s, u)' => TakenListed(o, s, u)'
  <2>1. \A o \in Threads : Sweeps(o, s, u)' <=> Sweeps(o, s, u)
    BY <1>3 DEF Sweeps
  <2>2. \A o \in Threads : Sweeps(o, s, u) => sweep'[o] = sweep[o]
    BY <1>3 DEF Sweeps
  <2> QED
    BY <1>2, <2>1, <2>2 DEF TableInv, AllListed, ShardListed, StoredListed, TakenListed
<1>7. AllListed'
  BY <1>6 DEF AllListed, ShardListed
<1> QED
  BY <1>1, <1>4, <1>5, <1>7 DEF TableInv

\* The thread inside a shard has what the shard's indexes are short of.
LEMMA SweeperListed ==
  ASSUME TableInv, NEW th \in Threads, sweep[th].pc = "inside",
         NEW s \in Shards, NEW t \in TxnId, s = sweep[th].shard, t = sweep[th].txn
  PROVE  /\ TakenListed(th, s, t)
         /\ \A u \in TxnId : u # t => StoredListed(s, u)
         /\ \A o \in Threads : o # th => ~Inside(o, s)
         /\ \A x \in Shards : x # s => ~Inside(th, x)
<1>1. Inside(th, s) /\ Sweeps(th, s, t)
  BY DEF Inside, Sweeps
<1>2. \A o \in Threads : o # th => ~Inside(o, s)
  BY <1>1 DEF TableInv, Exclusive
<1>3. \A u \in TxnId : u # t => \A o \in Threads : ~Sweeps(o, s, u)
  BY <1>2 DEF Sweeps
<1> QED
  BY <1>1, <1>2, <1>3 DEF TableInv, AllListed, ShardListed, Inside

\* Entering a shard moves the transaction's vectors out of its indexes.
LEMMA ReleaseAllLockTableInv ==
  ASSUME TableInv, NEW th \in Threads, ReleaseAllLock(th)
  PROVE  TableInv'
<1>1. IInv'
  BY ReleaseAllLockIInv DEF TableInv
<1>2. sweep[th] \in Sweep /\ sweep[th].shard \in Shards /\ sweep[th].txn \in TxnId
  BY SweepFields DEF ReleaseAllLock, TableInv, IInv
<1>3. PICK s \in Shards, t \in TxnId : s = sweep[th].shard /\ t = sweep[th].txn
  BY <1>2
<1> DEFINE points == entry_or_new(by_txn[s], t)
           spans == entry_or_new(range_by_txn[s], t)
           sw == [sweep[th] EXCEPT !.pc = "inside", !.points = points, !.spans = spans]
<1>4. sweep' = [sweep EXCEPT ![th] = sw]
  BY <1>3 DEF ReleaseAllLock
<1>5. sw.pc = "inside" /\ sw.txn = t /\ sw.shard = s /\ sw.points = points /\ sw.spans = spans
  <2> HIDE DEF points, spans
  <2> QED
    BY <1>2, <1>3 DEF Sweep
<1> HIDE DEF sw
<1>6. sweep'[th] = sw /\ \A o \in Threads : o # th => sweep'[o] = sweep[o]
  BY <1>4 DEF TableInv, IInv, SweepInv
<1>7. /\ DOMAIN by_txn = Shards /\ DOMAIN range_by_txn = Shards
      /\ locks' = locks /\ ranges' = ranges
      /\ by_txn' = [by_txn EXCEPT ![s] = remove(by_txn[s], t)]
      /\ range_by_txn' = [range_by_txn EXCEPT ![s] = remove(range_by_txn[s], t)]
      /\ ShardFree(s) /\ sweep[th].pc = "waiting"
  BY <1>3 DEF ReleaseAllLock, index_taken, TableInv, IInv, IndexInv, RangeIndexInv
<1>8. by_txn'[s] = remove(by_txn[s], t) /\ range_by_txn'[s] = remove(range_by_txn[s], t)
  BY <1>7
<1>9. OthersKept(s)
  BY <1>7 DEF OthersKept
<1>10. \A u \in TxnId : /\ PointsTallied(entry_or_new(by_txn[s], u), locks[s], u)
                        /\ SpansTallied(entry_or_new(range_by_txn[s], u), ranges[s], u)
  BY <1>7, FreeListed
<1>11. NoResidue'
  <2>1. Tidy(s)
    BY NoResidueByShard DEF TableInv
  <2>2. Full(remove(by_txn[s], t)) /\ Full(remove(range_by_txn[s], t))
    BY <2>1, RemoveFull DEF Tidy
  <2>3. Tidy(s)'
    BY <1>7, <1>8, <2>1, <2>2 DEF Tidy
  <2> QED
    BY <1>9, <2>3, TidyFrame DEF TableInv
<1>12. /\ \A u : u # t => entry_or_new(remove(by_txn[s], t), u) = entry_or_new(by_txn[s], u)
       /\ \A u : u # t => entry_or_new(remove(range_by_txn[s], t), u) = entry_or_new(range_by_txn[s], u)
       /\ t \notin DOMAIN remove(by_txn[s], t) /\ t \notin DOMAIN remove(range_by_txn[s], t)
  <2>1. t \notin DOMAIN remove(by_txn[s], t) /\ t \notin DOMAIN remove(range_by_txn[s], t)
    BY DEF remove
  <2> QED
    BY <2>1, EntryRemove
<1>13. \A o \in Threads : o # th => sweep'[o] = sweep[o] /\ ~Inside(o, s)
  BY <1>6, <1>7 DEF ShardFree
<1>14. Inside(th, s)' /\ \A x \in Shards : x # s => ~Inside(th, x) /\ ~Inside(th, x)'
  BY <1>5, <1>6, <1>7 DEF Inside
<1>15. ASSUME NEW u \in TxnId
       PROVE  IF u = sweep'[th].txn THEN TakenListed(th, s, u)' ELSE StoredListed(s, u)'
  <2>1. CASE u = t
    BY <1>5, <1>6, <1>7, <1>8, <1>10, <1>12, <2>1 DEF TakenListed
  <2>2. CASE u # t
    BY <1>5, <1>6, <1>7, <1>8, <1>10, <1>12, <2>2 DEF StoredListed
  <2> QED
    BY <1>5, <1>6, <2>1, <2>2
<1>16. Exclusive' /\ AllListed'
  BY <1>9, <1>13, <1>14, <1>15, SweepFrame
<1> QED
  BY <1>1, <1>11, <1>16 DEF TableInv

\* Every resource of the vector is still locked by the transaction, and is not
\* locked by it afterwards.
LEMMA ReleaseAllPointTableInv ==
  ASSUME TableInv, NEW th \in Threads, ReleaseAllPoint(th)
  PROVE  TableInv'
<1>1. IInv'
  BY ReleaseAllPointIInv DEF TableInv
<1>2. /\ sweep[th] \in Sweep /\ sweep[th].shard \in Shards /\ sweep[th].txn \in TxnId
      /\ sweep[th].points \in Seq(ResourceId) /\ sweep[th].points # <<>>
      /\ sweep[th].pc = "inside"
  BY SweepFields DEF ReleaseAllPoint, TableInv, IInv
<1>3. PICK s \in Shards, t \in TxnId, v \in Seq(ResourceId) :
         s = sweep[th].shard /\ t = sweep[th].txn /\ v = sweep[th].points
  BY <1>2
<1>4. PICK r \in ResourceId : r = Head(v)
  BY <1>2, <1>3
<1> DEFINE P == Positions(entry_or_new(locks[s], r), t)
           m == drop(locks[s], r, first(P))
           sw == [sweep[th] EXCEPT !.points = Tail(v), !.released = sweep[th].released + 1]
<1>5. GoodLocks(locks[s]) /\ DOMAIN locks = Shards
  BY DEF TableInv, IInv, LocksInv
<1>6. /\ TakenListed(th, s, t)
      /\ \A u \in TxnId : u # t => StoredListed(s, u)
      /\ \A o \in Threads : o # th => ~Inside(o, s)
      /\ \A x \in Shards : x # s => ~Inside(th, x)
  BY <1>2, <1>3, SweeperListed
<1>7. P # {} /\ PointsTallied(Tail(v), m, t)
  <2>1. PointsTallied(v, locks[s], t)
    BY <1>3, <1>6 DEF TakenListed
  <2> QED
    BY <1>2, <1>3, <1>4, <1>5, <2>1, PointWalked
<1>8. sweep' = [sweep EXCEPT ![th] = sw] /\ locks' = [locks EXCEPT ![s] = m]
  BY <1>3, <1>4, <1>7 DEF ReleaseAllPoint
<1>9. sw.pc = "inside" /\ sw.txn = t /\ sw.shard = s /\ sw.points = Tail(v) /\ sw.spans = sweep[th].spans
  BY <1>2, <1>3 DEF Sweep
<1>10. \A u \in TxnId : u # t => PointsTallied(entry_or_new(by_txn[s], u), m, u)
  <2> TAKE u \in TxnId
  <2> HAVE u # t
  <2>1. PointsTallied(entry_or_new(by_txn[s], u), locks[s], u)
    BY <1>6 DEF StoredListed
  <2>2. entry_or_new(by_txn[s], u) \in Seq(ResourceId)
    BY EntryType DEF TableInv, IInv, IndexInv
  <2> QED
    BY <1>5, <1>7, <2>1, <2>2, PointWalkedOther
<1>11. by_txn' = by_txn /\ ranges' = ranges /\ range_by_txn' = range_by_txn
  BY DEF ReleaseAllPoint
<1>12. Full(m) /\ DOMAIN m \subseteq DOMAIN locks[s]
  <2>1. Tidy(s)
    BY NoResidueByShard DEF TableInv
  <2>2. Full(m)
    BY <2>1, DropNotEmpty DEF Full, Tidy
  <2>3. r \in DOMAIN locks[s]
    BY <1>7 DEF entry_or_new, Positions
  <2> QED
    BY <2>2, <2>3, DropValue
<1> HIDE DEF sw, m
<1>13. locks'[s] = m /\ OthersKept(s)
  BY <1>5, <1>8, <1>11 DEF OthersKept
<1>14. sweep'[th] = sw /\ \A o \in Threads : o # th => sweep'[o] = sweep[o]
  BY <1>8 DEF TableInv, IInv, SweepInv
<1>15. NoResidue'
  <2>1. Tidy(s)
    BY NoResidueByShard DEF TableInv
  <2>2. Tidy(s)'
    BY <1>11, <1>12, <1>13, <2>1 DEF Tidy
  <2> QED
    BY <1>13, <2>2, TidyFrame DEF TableInv
<1>16. Inside(th, s)' /\ \A x \in Shards : x # s => ~Inside(th, x)'
  BY <1>9, <1>14 DEF Inside
<1>17. ASSUME NEW u \in TxnId
       PROVE  IF u = sweep'[th].txn THEN TakenListed(th, s, u)' ELSE StoredListed(s, u)'
  <2>1. CASE u = t
    BY <1>6, <1>7, <1>9, <1>11, <1>13, <1>14, <2>1 DEF TakenListed
  <2>2. CASE u # t
    BY <1>6, <1>9, <1>10, <1>11, <1>13, <1>14, <2>2 DEF StoredListed
  <2> QED
    BY <1>9, <1>14, <2>1, <2>2
<1>18. Exclusive' /\ AllListed'
  BY <1>6, <1>13, <1>14, <1>16, <1>17, SweepFrame
<1> QED
  BY <1>1, <1>15, <1>18 DEF TableInv

\* Every range of the vector is still locked by the transaction, and is locked
\* once less afterwards.
LEMMA ReleaseAllSpanTableInv ==
  ASSUME TableInv, NEW th \in Threads, ReleaseAllSpan(th)
  PROVE  TableInv'
<1>1. IInv'
  BY ReleaseAllSpanIInv DEF TableInv
<1>2. /\ sweep[th] \in Sweep /\ sweep[th].shard \in Shards /\ sweep[th].txn \in TxnId
      /\ sweep[th].spans \in Seq(ResourceId \X KeyRanges) /\ sweep[th].spans # <<>>
      /\ sweep[th].pc = "inside"
  BY SweepFields DEF ReleaseAllSpan, TableInv, IInv
<1>3. PICK s \in Shards, t \in TxnId, v \in Seq(ResourceId \X KeyRanges) :
         s = sweep[th].shard /\ t = sweep[th].txn /\ v = sweep[th].spans
  BY <1>2
<1>4. Head(v) \in ResourceId \X KeyRanges
  BY <1>2, <1>3
<1>5. PICK sp \in ResourceId, k \in KeyRanges : Head(v) = <<sp, k>>
  BY <1>4
<1> DEFINE P == RangePositions(entry_or_new(ranges[s], sp), t, k)
           m == drop(ranges[s], sp, first(P))
           sw == [sweep[th] EXCEPT !.spans = Tail(v), !.released = sweep[th].released + 1]
<1>6. GoodRanges(ranges[s]) /\ DOMAIN ranges = Shards
  BY DEF TableInv, IInv, RangesInv
<1>7. /\ TakenListed(th, s, t)
      /\ \A u \in TxnId : u # t => StoredListed(s, u)
      /\ \A o \in Threads : o # th => ~Inside(o, s)
      /\ \A x \in Shards : x # s => ~Inside(th, x)
  BY <1>2, <1>3, SweeperListed
<1>8. P # {} /\ SpansTallied(Tail(v), m, t)
  <2>1. SpansTallied(v, ranges[s], t)
    BY <1>3, <1>7 DEF TakenListed
  <2> QED
    BY <1>2, <1>3, <1>5, <1>6, <2>1, SpanWalked
<1>9. sweep' = [sweep EXCEPT ![th] = sw] /\ ranges' = [ranges EXCEPT ![s] = m]
  <2>1. Head(sweep[th].spans)[1] = sp /\ Head(sweep[th].spans)[2] = k
    BY <1>3, <1>5
  <2>2. RangePositions(entry_or_new(ranges[sweep[th].shard], Head(sweep[th].spans)[1]),
                       sweep[th].txn, Head(sweep[th].spans)[2]) = P
    BY <1>3, <2>1
  <2>3. P # {}
    BY <1>8
  <2>4. /\ sweep' = [sweep EXCEPT ![th].spans = Tail(sweep[th].spans),
                                  ![th].released = sweep[th].released + 1]
        /\ ranges' = [ranges EXCEPT ![sweep[th].shard] =
              drop(ranges[sweep[th].shard], Head(sweep[th].spans)[1], first(P))]
    BY <2>2, <2>3 DEF ReleaseAllSpan
  <2> HIDE DEF P
  <2> QED
    BY <1>3, <2>1, <2>4
<1>10. sw.pc = "inside" /\ sw.txn = t /\ sw.shard = s /\ sw.spans = Tail(v) /\ sw.points = sweep[th].points
  BY <1>2, <1>3 DEF Sweep
<1>11. \A u \in TxnId : u # t => SpansTallied(entry_or_new(range_by_txn[s], u), m, u)
  <2> TAKE u \in TxnId
  <2> HAVE u # t
  <2>1. SpansTallied(entry_or_new(range_by_txn[s], u), ranges[s], u)
    BY <1>7 DEF StoredListed
  <2>2. entry_or_new(range_by_txn[s], u) \in Seq(ResourceId \X KeyRanges)
    BY EntryType DEF TableInv, IInv, RangeIndexInv
  <2> QED
    BY <1>6, <1>8, <2>1, <2>2, SpanWalkedOther
<1>12. by_txn' = by_txn /\ locks' = locks /\ range_by_txn' = range_by_txn
  BY DEF ReleaseAllSpan
<1>13. Full(m) /\ DOMAIN m \subseteq DOMAIN ranges[s]
  <2>1. Tidy(s)
    BY NoResidueByShard DEF TableInv
  <2>2. Full(m)
    BY <2>1, DropNotEmpty DEF Full, Tidy
  <2>3. sp \in DOMAIN ranges[s]
    BY <1>8 DEF entry_or_new, RangePositions
  <2> QED
    BY <2>2, <2>3, DropValue
<1> HIDE DEF sw, m
<1>14. ranges'[s] = m /\ OthersKept(s)
  BY <1>6, <1>9, <1>12 DEF OthersKept
<1>15. sweep'[th] = sw /\ \A o \in Threads : o # th => sweep'[o] = sweep[o]
  BY <1>9 DEF TableInv, IInv, SweepInv
<1>16. NoResidue'
  <2>1. Tidy(s)
    BY NoResidueByShard DEF TableInv
  <2>2. Tidy(s)'
    BY <1>12, <1>13, <1>14, <2>1 DEF Tidy
  <2> QED
    BY <1>14, <2>2, TidyFrame DEF TableInv
<1>17. Inside(th, s)' /\ \A x \in Shards : x # s => ~Inside(th, x)'
  BY <1>10, <1>15 DEF Inside
<1>18. ASSUME NEW u \in TxnId
       PROVE  IF u = sweep'[th].txn THEN TakenListed(th, s, u)' ELSE StoredListed(s, u)'
  <2>1. CASE u = t
    BY <1>7, <1>8, <1>10, <1>12, <1>14, <1>15, <2>1 DEF TakenListed
  <2>2. CASE u # t
    BY <1>7, <1>10, <1>11, <1>12, <1>14, <1>15, <2>2 DEF StoredListed
  <2> QED
    BY <1>10, <1>15, <2>1, <2>2
<1>19. Exclusive' /\ AllListed'
  BY <1>7, <1>14, <1>15, <1>17, <1>18, SweepFrame
<1> QED
  BY <1>1, <1>16, <1>19 DEF TableInv

\* A shard is left when everything that was taken out of its indexes is walked:
\* the transaction has nothing left in it.
LEMMA ReleaseAllUnlockTableInv ==
  ASSUME TableInv, NEW th \in Threads, ReleaseAllUnlock(th)
  PROVE  TableInv'
<1>1. IInv'
  BY ReleaseAllUnlockIInv DEF TableInv
<1>2. /\ sweep[th] \in Sweep /\ sweep[th].shard \in Shards /\ sweep[th].txn \in TxnId
      /\ sweep[th].pc = "inside" /\ sweep[th].points = <<>> /\ sweep[th].spans = <<>>
  BY SweepFields DEF ReleaseAllUnlock, ShardSwept, TableInv, IInv
<1>3. PICK s \in Shards, t \in TxnId : s = sweep[th].shard /\ t = sweep[th].txn
  BY <1>2
<1>4. /\ TakenListed(th, s, t)
      /\ \A u \in TxnId : u # t => StoredListed(s, u)
      /\ \A o \in Threads : o # th => ~Inside(o, s)
      /\ \A x \in Shards : x # s => ~Inside(th, x)
  BY <1>2, <1>3, SweeperListed
<1>5. StoredListed(s, t)
  <2>1. entry_or_new(by_txn[s], t) = <<>> /\ entry_or_new(range_by_txn[s], t) = <<>>
    BY <1>4 DEF TakenListed, entry_or_new
  <2> QED
    BY <1>2, <1>4, <2>1 DEF TakenListed, StoredListed
<1>6. /\ locks' = locks /\ by_txn' = by_txn /\ ranges' = ranges /\ range_by_txn' = range_by_txn
      /\ sweep' = [sweep EXCEPT ![th] = after_shard(sweep[th])]
  BY DEF ReleaseAllUnlock
<1>7. after_shard(sweep[th]).pc # "inside"
  BY <1>2 DEF after_shard, Sweep, Idle
<1>8. /\ sweep'[th].pc # "inside"
      /\ \A o \in Threads : o # th => sweep'[o] = sweep[o]
  BY <1>6, <1>7 DEF TableInv, IInv, SweepInv
<1>9. NoResidue'
  BY <1>6 DEF TableInv, NoResidue
<1>10. \A u \in TxnId : StoredListed(s, u)'
  BY <1>4, <1>5, <1>6 DEF StoredListed
<1>11. OthersKept(s)
  BY <1>6 DEF OthersKept
<1>12. \A x \in Shards : ~Inside(th, x)'
  BY <1>8 DEF Inside
<1>13. Exclusive' /\ AllListed'
  BY <1>4, <1>8, <1>10, <1>11, <1>12, SweepFrame
<1> QED
  BY <1>1, <1>9, <1>13 DEF TableInv

-----------------------------------------------------------------------------
(* The theorems about the indexes. *)

\* Every step of the table preserves the invariant.
LEMMA NextTableInv == TableInv /\ [TableNext]_tableVars => TableInv'
<1> SUFFICES ASSUME TableInv, [TableNext]_tableVars PROVE TableInv'
  OBVIOUS
<1>1. ASSUME NEW t \in TxnId, NEW r \in PointIds, NEW m \in RequestModes, try_acquire(t, r, m)
      PROVE  TableInv'
  BY <1>1, TryAcquireTableInv
<1>2. ASSUME NEW t \in TxnId, NEW r \in PointIds, release(t, r)
      PROVE  TableInv'
  BY <1>2, ReleaseTableInv
<1>3. ASSUME NEW t \in TxnId, NEW sp \in SpaceIds, NEW k \in RequestRanges,
             NEW m \in RequestModes, try_acquire_range(t, sp, k, m)
      PROVE  TableInv'
  BY <1>3, TryAcquireRangeTableInv
<1>4. ASSUME NEW t \in TxnId, NEW sp \in SpaceIds, NEW k \in RequestRanges,
             release_range(t, sp, k)
      PROVE  TableInv'
  BY <1>4, ReleaseRangeTableInv
<1>5. ASSUME NEW th \in Threads, NEW t \in TxnId, ReleaseAllCall(th, t)
      PROVE  TableInv'
  BY <1>5, ReleaseAllCallTableInv
<1>6. ASSUME NEW th \in Threads, ReleaseAllStep(th)
      PROVE  TableInv'
  BY <1>6, ReleaseAllLockTableInv, ReleaseAllPointTableInv, ReleaseAllSpanTableInv,
     ReleaseAllUnlockTableInv
     DEF ReleaseAllStep
<1>7. CASE UNCHANGED tableVars
  <2>1. IInv'
    BY <1>7, NextIInv DEF TableInv
  <2>2. \A th \in Threads, s \in Shards : Inside(th, s)' <=> Inside(th, s)
    BY <1>7 DEF tableVars, Inside
  <2>3. \A s \in Shards : ShardListed(s)'
    BY <1>7, <2>2 DEF tableVars, TableInv, AllListed, ShardListed, StoredListed, TakenListed, Sweeps
  <2> QED
    BY <1>7, <2>1, <2>2, <2>3 DEF tableVars, TableInv, NoResidue, Exclusive, AllListed
<1> QED
  BY <1>1, <1>2, <1>3, <1>4, <1>5, <1>6, <1>7 DEF TableNext

\* The inductive invariant holds throughout: however the steps of any number of
\* release_alls interleave with each other and with the clients' calls.
THEOREM TableIndexInvariant == TableSpec => []TableInv
<1>1. TableInit => TableInv
  BY InitTableInv
<1>2. TableInv /\ [TableNext]_tableVars => TableInv'
  BY NextTableInv
<1> QED
  BY <1>1, <1>2, PTL DEF TableSpec

\* The maps never hold an empty vector, nor an entry in a foreign shard: a refused
\* request and a last release leave nothing behind (the is_empty tests).
THEOREM NothingLeftBehind == TableSpec => []NoResidue
<1>1. TableInv => NoResidue
  BY DEF TableInv
<1> QED
  BY <1>1, TableIndexInvariant, PTL

\* What a transaction's index vectors are at the moment, of the two cases.
LEMMA IndexListed ==
  ASSUME TableInv, NEW s \in Shards, NEW t \in TxnId
  PROVE  /\ PointIndex(s, t) \in Seq(ResourceId)
         /\ PointsTallied(PointIndex(s, t), locks[s], t)
         /\ SpanIndex(s, t) \in Seq(ResourceId \X KeyRanges)
         /\ SpansTallied(SpanIndex(s, t), ranges[s], t)
         /\ Sweepers(s, t) # {} => t \notin DOMAIN by_txn[s] /\ t \notin DOMAIN range_by_txn[s]
<1>1. CASE Sweepers(s, t) = {}
  <2>1. \A th \in Threads : ~Sweeps(th, s, t)
    BY <1>1 DEF Sweepers, Sweeps
  <2>2. StoredListed(s, t)
    BY <2>1 DEF TableInv, AllListed, ShardListed
  <2>3. /\ entry_or_new(by_txn[s], t) \in Seq(ResourceId)
        /\ entry_or_new(range_by_txn[s], t) \in Seq(ResourceId \X KeyRanges)
    BY EntryType DEF TableInv, IInv, IndexInv, RangeIndexInv
  <2> QED
    BY <1>1, <2>2, <2>3 DEF PointIndex, SpanIndex, StoredListed
<1>2. CASE Sweepers(s, t) # {}
  <2>1. (CHOOSE th \in Sweepers(s, t) : TRUE) \in Sweepers(s, t)
    BY <1>2
  <2>2. PICK th \in Sweepers(s, t) : th = CHOOSE o \in Sweepers(s, t) : TRUE
    BY <2>1
  <2>3. PointIndex(s, t) = sweep[th].points /\ SpanIndex(s, t) = sweep[th].spans
    BY <1>2, <2>2 DEF PointIndex, SpanIndex
  <2>4. th \in Threads /\ Sweeps(th, s, t) /\ sweep[th].pc = "inside"
    BY <2>2 DEF Sweepers, Sweeps, Inside
  <2>5. TakenListed(th, s, t)
    BY <2>4 DEF TableInv, AllListed, ShardListed
  <2>6. sweep[th].points \in Seq(ResourceId) /\ sweep[th].spans \in Seq(ResourceId \X KeyRanges)
    BY <2>4, SweepFields DEF TableInv, IInv
  <2> QED
    BY <2>3, <2>5, <2>6 DEF TakenListed
<1> QED
  BY <1>1, <1>2

\* A transaction's reverse index lists the resources it holds, all of them and each
\* once, also between the steps of its release_all: the sweep, which walks only the
\* index, can miss no lock.
THEOREM PointIndexExact == TableSpec => []IndexExact
<1>1. TableInv => IndexExact
  <2> SUFFICES ASSUME TableInv, NEW s \in Shards, NEW t \in TxnId
               PROVE  LET v == PointIndex(s, t)
                      IN  /\ \A i, j \in 1 .. Len(v) : i # j => v[i] # v[j]
                          /\ Elems(v) = {r \in DOMAIN locks[s] : Holds(locks[s][r], t)}
                          /\ Sweepers(s, t) # {} => t \notin DOMAIN by_txn[s]
    BY DEF IndexExact
  <2>1. /\ PointIndex(s, t) \in Seq(ResourceId)
        /\ PointsTallied(PointIndex(s, t), locks[s], t)
        /\ Sweepers(s, t) # {} => t \notin DOMAIN by_txn[s]
    BY IndexListed
  <2>2. PICK v \in Seq(ResourceId) : v = PointIndex(s, t)
    BY <2>1
  <2>3. PointsTallied(v, locks[s], t)
    BY <2>1, <2>2
  <2>4. GoodLocks(locks[s])
    BY DEF TableInv, IInv, LocksInv
  <2>5. \A r \in ResourceId : r \in Elems(v) <=> Holds(entry_or_new(locks[s], r), t)
    BY <2>3, <2>4, ListedIffHeld
  <2>6. Elems(v) \subseteq ResourceId /\ DOMAIN locks[s] \subseteq ResourceId
    BY <2>4 DEF Elems, GoodLocks, IsHashMap
  <2>7. \A r \in ResourceId : Holds(entry_or_new(locks[s], r), t)
                                <=> r \in DOMAIN locks[s] /\ Holds(locks[s][r], t)
    BY DEF entry_or_new, Holds, Positions
  <2>8. Elems(v) = {r \in DOMAIN locks[s] : Holds(locks[s][r], t)}
    BY <2>5, <2>6, <2>7
  <2>9. ASSUME NEW i \in 1 .. Len(v), NEW j \in 1 .. Len(v), i # j
        PROVE  v[i] # v[j]
    <3>1. SUFFICES ASSUME v[i] = v[j] PROVE FALSE
      OBVIOUS
    <3>2. PICK r \in ResourceId : r = v[i]
      OBVIOUS
    <3>3. entry_or_new(locks[s], r) \in Seq(Holder) /\ CompatibleHolders(entry_or_new(locks[s], r))
      BY <2>4, EntryGood
    <3>4. Tally(entry_or_new(locks[s], r), HeldBy(t)) <= 1
      BY <3>3, HeldOnce
    <3>5. Tally(v, {r}) <= 1
      BY <2>3, <3>4 DEF PointsTallied
    <3>6. i \in Places(v, {r}) /\ j \in Places(v, {r})
      BY <3>1, <3>2 DEF Places
    <3> QED
      BY <2>9, <3>5, <3>6, TallyOne
  <2> QED
    BY <2>1, <2>2, <2>8, <2>9
<1> QED
  BY <1>1, TableIndexInvariant, PTL

\* The range index lists every range as often as the transaction has locked it.
THEOREM SpanIndexExact == TableSpec => []RangeIndexExact
<1>1. TableInv => RangeIndexExact
  <2> SUFFICES ASSUME TableInv, NEW s \in Shards, NEW t \in TxnId
               PROVE  LET v == SpanIndex(s, t)
                      IN  /\ \A sp \in SpaceIds, k \in RequestRanges :
                               Cardinality({i \in 1 .. Len(v) : v[i] = <<sp, k>>})
                                 = Cardinality(RangePositions(entry_or_new(ranges[s], sp), t, k))
                          /\ Sweepers(s, t) # {} => t \notin DOMAIN range_by_txn[s]
    BY DEF RangeIndexExact
  <2>1. /\ SpanIndex(s, t) \in Seq(ResourceId \X KeyRanges)
        /\ SpansTallied(SpanIndex(s, t), ranges[s], t)
        /\ Sweepers(s, t) # {} => t \notin DOMAIN range_by_txn[s]
    BY IndexListed
  <2>2. PICK v : v = SpanIndex(s, t)
    OBVIOUS
  <2>3. ASSUME NEW sp \in SpaceIds, NEW k \in RequestRanges
        PROVE  Cardinality({i \in 1 .. Len(v) : v[i] = <<sp, k>>})
                 = Cardinality(RangePositions(entry_or_new(ranges[s], sp), t, k))
    <3>1. sp \in ResourceId /\ k \in KeyRanges
      BY Arguments
    <3>2. {i \in 1 .. Len(v) : v[i] = <<sp, k>>} = Places(v, {<<sp, k>>})
      BY DEF Places
    <3>3. entry_or_new(ranges[s], sp) \in Seq(RangeHolder)
      BY RangeEntryGood DEF TableInv, IInv, RangesInv
    <3>4. RangePositions(entry_or_new(ranges[s], sp), t, k)
            = Places(entry_or_new(ranges[s], sp), RangeHeldBy(t, k))
      BY <3>3, RangePositionsTallied
    <3>5. Tally(v, {<<sp, k>>}) = Tally(entry_or_new(ranges[s], sp), RangeHeldBy(t, k))
      BY <2>1, <2>2, <3>1 DEF SpansTallied
    <3> QED
      BY <3>2, <3>4, <3>5 DEF Tally
  <2> QED
    BY <2>1, <2>2, <2>3
<1> QED
  BY <1>1, TableIndexInvariant, PTL

\* The invariant says that a sweeper whose vectors are used up has missed nothing.
LEMMA NothingMissed == TableInv => SweptClean
<1> SUFFICES ASSUME TableInv, NEW th \in Threads, ShardSwept(th)
             PROVE  LET t == sweep[th].txn
                        s == sweep[th].shard
                    IN  /\ \A r \in DOMAIN locks[s] : ~Holds(locks[s][r], t)
                        /\ \A sp \in DOMAIN ranges[s] :
                             \A i \in 1 .. Len(ranges[s][sp]) : ranges[s][sp][i].txn # t
                        /\ t \notin DOMAIN by_txn[s] /\ t \notin DOMAIN range_by_txn[s]
  BY DEF SweptClean
<1>1. /\ sweep[th].shard \in Shards /\ sweep[th].txn \in TxnId
      /\ sweep[th].pc = "inside" /\ sweep[th].points = <<>> /\ sweep[th].spans = <<>>
  BY SweepFields DEF ShardSwept, TableInv, IInv
<1>2. PICK s \in Shards, t \in TxnId : s = sweep[th].shard /\ t = sweep[th].txn
  BY <1>1
<1>3. TakenListed(th, s, t)
  BY <1>1, <1>2, SweeperListed
<1>4. GoodLocks(locks[s]) /\ GoodRanges(ranges[s])
  BY DEF TableInv, IInv, LocksInv, RangesInv
<1>5. \A r \in DOMAIN locks[s] : ~Holds(locks[s][r], t)
  <2> TAKE r \in DOMAIN locks[s]
  <2>1. r \in ResourceId /\ entry_or_new(locks[s], r) = locks[s][r]
    BY <1>4 DEF GoodLocks, IsHashMap, entry_or_new
  <2>2. PointsTallied(<<>>, locks[s], t) /\ <<>> \in Seq(ResourceId)
    BY <1>1, <1>3 DEF TakenListed
  <2>3. Tally(<<>>, {r}) = 0
    BY FS_EmptySet DEF Tally, Places
  <2> QED
    BY <1>4, <2>1, <2>2, <2>3, ListedIffHeld
<1>6. ASSUME NEW sp \in DOMAIN ranges[s], NEW i \in 1 .. Len(ranges[s][sp])
      PROVE  ranges[s][sp][i].txn # t
  <2>1. PICK h \in Seq(RangeHolder) : h = ranges[s][sp]
    BY <1>4 DEF GoodRanges, IsHashMap
  <2>2. sp \in ResourceId /\ entry_or_new(ranges[s], sp) = h
    BY <1>4, <2>1 DEF GoodRanges, IsHashMap, entry_or_new
  <2>3. h[i] \in RangeHolder
    BY <2>1
  <2>4. PICK k \in KeyRanges : k = h[i].range
    BY <2>3 DEF RangeHolder
  <2>5. SpansTallied(<<>>, ranges[s], t)
    BY <1>1, <1>3 DEF TakenListed
  <2>6. Tally(<<>>, {<<sp, k>>}) = 0
    BY FS_EmptySet DEF Tally, Places
  <2>7. RangePositions(h, t, k) = {}
    BY <1>4, <2>2, <2>5, <2>6, SpanListedIffHeld
  <2> QED
    BY <2>1, <2>4, <2>7 DEF RangePositions
<1>7. t \notin DOMAIN by_txn[s] /\ t \notin DOMAIN range_by_txn[s]
  BY <1>3 DEF TakenListed
<1> QED
  BY <1>2, <1>5, <1>6, <1>7

\* When release_all leaves a shard its transaction holds nothing in it, and neither
\* index has kept anything for it.
THEOREM SweepMissesNothing == TableSpec => []SweptClean
BY NothingMissed, TableIndexInvariant, PTL

-----------------------------------------------------------------------------
(* The table implements AbstractLocks.                                      *)

\* The abstract state that a state of the table stands for.
HeldMap == [r \in PointIds |-> AbstractHeld(r)]

SpanMap ==
  [x \in TxnId \X (SpaceIds \X RequestRanges) \X RequestModes |->
     AbstractSpans(x[1], x[2], x[3])]

\* The modes and ranges of AbstractLocks are those of the table.
LEMMA SameData ==
  /\ \A a, b : Abstract!compatible_with(a, b) <=> compatible_with(a, b)
  /\ \A a, b : Abstract!join(a, b) = join(a, b)
  /\ \A k, key : Abstract!contains(k, key) <=> contains(k, key)
BY DEF Abstract!compatible_with, compatible_with, Abstract!COMPAT, COMPAT,
       Abstract!join, join, Abstract!JOIN, JOIN, Abstract!contains, contains

\* The holders in one vector, with their modes.
HeldIn(h) ==
  [t \in {h[i].txn : i \in 1 .. Len(h)} |-> h[first(Positions(h, t))].mode]

\* What a grant makes of H, and a release.
WithMode(H, t, m) ==
  [u \in DOMAIN H \cup {t} |->
     IF u # t THEN H[u] ELSE IF t \in DOMAIN H THEN join(H[t], m) ELSE m]

WithoutHolder(H, t) == [u \in DOMAIN H \ {t} |-> H[u]]

\* HeldIn is the vector without its order.
LEMMA HeldInModes ==
  ASSUME NEW h \in Seq(Holder), CompatibleHolders(h)
  PROVE  /\ \A t : t \in DOMAIN HeldIn(h) <=> Holds(h, t)
         /\ \A t : Holds(h, t) => ModesOfVector(h, t) = {HeldIn(h)[t]} /\ HeldIn(h)[t] \in LockModes
<1>1. \A t : t \in DOMAIN HeldIn(h) <=> Holds(h, t)
  BY DEF HeldIn, Holds, Positions
<1>2. ASSUME NEW t, Holds(h, t)
      PROVE  ModesOfVector(h, t) = {HeldIn(h)[t]} /\ HeldIn(h)[t] \in LockModes
  <2> DEFINE pos == first(Positions(h, t))
  <2>1. pos \in 1 .. Len(h) /\ h[pos].txn = t
    BY <1>2, PositionFound
  <2>2. t \in DOMAIN HeldIn(h)
    BY <1>1, <1>2
  <2>3. HeldIn(h)[t] = h[pos].mode
    BY <2>2 DEF HeldIn
  <2> HIDE DEF pos
  <2>4. Positions(h, t) = {pos}
    BY <2>1 DEF Positions, CompatibleHolders
  <2>5. h[pos] \in Holder
    BY <2>1
  <2> QED
    BY <2>3, <2>4, <2>5 DEF ModesOfVector, Holder
<1> QED
  BY <1>1, <1>2

\* The step concerns what is held of r, and of no other resource.
HeldBecomes(r, f) ==
  \A x \in PointIds : AbstractHeld(x)' = IF x = r THEN f ELSE AbstractHeld(x)

\* An operation on the holders of r changes what is held of r, and of nothing else.
LEMMA HeldAfter ==
  ASSUME TableInv, NEW s \in Shards, NEW r \in ResourceId, shard_index[r] = s, NEW m, NEW f, NEW g,
         locks' = [locks EXCEPT ![s] = m], HeldIn(g) = f,
         \A x : entry_or_new(m, x) = IF x = r THEN g ELSE entry_or_new(locks[s], x)
  PROVE  HeldBecomes(r, f)
<1> SUFFICES ASSUME NEW x \in PointIds
             PROVE  AbstractHeld(x)' = IF x = r THEN f ELSE AbstractHeld(x)
  BY DEF HeldBecomes
<1>1. DOMAIN locks = Shards /\ shard_index[x] \in Shards
  BY Arguments DEF TableInv, IInv, LocksInv
<1>2. entry_or_new(locks'[shard_index[x]], x) =
        IF x = r THEN g ELSE entry_or_new(locks[shard_index[x]], x)
  BY <1>1
<1>3. AbstractHeld(x)' = HeldIn(entry_or_new(locks'[shard_index[x]], x))
  BY DEF AbstractHeld, HeldIn
<1>4. AbstractHeld(x) = HeldIn(entry_or_new(locks[shard_index[x]], x))
  BY DEF AbstractHeld, HeldIn
<1> QED
  BY <1>2, <1>3, <1>4

\* What is held of a resource that is not locked is the empty function, as in the
\* initial state of AbstractLocks.
LEMMA InitAbstract == TableInit => Abstract!Init
<1> SUFFICES ASSUME TableInit PROVE Abstract!Init
  OBVIOUS
<1>1. ASSUME NEW x \in ResourceId
      PROVE  /\ entry_or_new(locks[shard_index[x]], x) = <<>>
             /\ entry_or_new(ranges[shard_index[x]], x) = <<>>
  <2>1. shard_index[x] \in Shards
    BY TableAssumption
  <2> QED
    BY <2>1 DEF TableInit, EmptyMap, entry_or_new
<1>2. ASSUME NEW r \in PointIds
      PROVE  AbstractHeld(r) = [t \in {} |-> "X"]
  <2>1. r \in ResourceId
    BY Arguments
  <2> QED
    BY <1>1, <2>1 DEF AbstractHeld
<1>3. ASSUME NEW t, NEW sp \in SpaceIds, NEW k, NEW m
      PROVE  AbstractSpans(t, <<sp, k>>, m) = 0
  <2>1. entry_or_new(ranges[shard_index[sp]], sp) = <<>>
    BY <1>1, Arguments
  <2>2. {i \in RangePositions(<<>>, t, k) : <<>>[i].mode = m} = {}
    BY DEF RangePositions
  <2> QED
    BY <2>1, <2>2, FS_EmptySet DEF AbstractSpans
<1>4. HeldMap = [r \in PointIds |-> [t \in {} |-> "X"]]
  BY <1>2 DEF HeldMap
<1>5. SpanMap = [x \in TxnId \X (SpaceIds \X RequestRanges) \X RequestModes |-> 0]
  BY <1>3 DEF SpanMap
<1> QED
  BY <1>4, <1>5 DEF Abstract!Init, HeldMap, SpanMap

\* Then the abstract state changes in one place.
LEMMA HeldChanges ==
  ASSUME NEW r \in PointIds, NEW f, HeldBecomes(r, f)
  PROVE  HeldMap' = [HeldMap EXCEPT ![r] = f]
<1>1. HeldMap' = [x \in PointIds |-> AbstractHeld(x)']
  BY DEF HeldMap
<1>2. DOMAIN HeldMap = PointIds /\ \A x \in PointIds : HeldMap[x] = AbstractHeld(x)
  BY DEF HeldMap
<1>3. [HeldMap EXCEPT ![r] = f] = [x \in PointIds |-> IF x = r THEN f ELSE HeldMap[x]]
  BY <1>2
<1> QED
  BY <1>1, <1>2, <1>3 DEF HeldBecomes

\* A grant joins the modes of the transaction and leaves the others theirs.
LEMMA GrantedHeldIn ==
  ASSUME NEW h \in Seq(Holder), CompatibleHolders(h), NEW t \in TxnId, NEW m \in LockModes,
         grants(h, t, m)
  PROVE  HeldIn(granted(h, t, m)) = WithMode(HeldIn(h), t, m)
<1> DEFINE g == granted(h, t, m)
           H == HeldIn(h)
           F == WithMode(H, t, m)
<1>1. g \in Seq(Holder) /\ CompatibleHolders(g)
  BY GrantedType, GrantedCompatible
<1>2. /\ \A u : u # t => ModesOfVector(g, u) = ModesOfVector(h, u)
      /\ ModesOfVector(g, t) =
           IF Holds(h, t)
           THEN {IF covers(c, m) THEN c ELSE join(c, m) : c \in ModesOfVector(h, t)}
           ELSE {m}
  BY GrantedModes
<1>3. \A u, v : Holds(v, u) <=> ModesOfVector(v, u) # {}
  BY DEF Holds, ModesOfVector
<1> HIDE DEF g, H
<1>4. /\ \A u : u \in DOMAIN H <=> Holds(h, u)
      /\ \A u : Holds(h, u) => ModesOfVector(h, u) = {H[u]}
  BY HeldInModes DEF H
<1>5. /\ \A u : u \in DOMAIN HeldIn(g) <=> Holds(g, u)
      /\ \A u : Holds(g, u) => ModesOfVector(g, u) = {HeldIn(g)[u]}
  BY <1>1, HeldInModes
<1>6. \A u : u # t => (Holds(g, u) <=> Holds(h, u))
  BY <1>2, <1>3
<1>7. ModesOfVector(g, t) = {IF Holds(h, t) THEN join(H[t], m) ELSE m}
  <2>1. CASE Holds(h, t)
    <3>1. ModesOfVector(g, t) = {IF covers(H[t], m) THEN H[t] ELSE join(H[t], m)}
      BY <1>2, <1>4, <2>1
    <3> QED
      BY <2>1, <3>1 DEF covers
  <2>2. CASE ~Holds(h, t)
    BY <1>2, <2>2
  <2> QED
    BY <2>1, <2>2
<1>8. Holds(g, t)
  BY <1>3, <1>7
<1>9. DOMAIN HeldIn(g) = DOMAIN F
  BY <1>4, <1>5, <1>6, <1>8 DEF WithMode
<1>10. ASSUME NEW u \in DOMAIN F
       PROVE  HeldIn(g)[u] = F[u]
  <2>1. CASE u = t
    BY <1>4, <1>5, <1>7, <1>8, <2>1 DEF WithMode
  <2>2. CASE u # t
    <3>1. Holds(g, u) /\ Holds(h, u)
      BY <1>4, <1>6, <2>2 DEF WithMode
    <3>2. {HeldIn(g)[u]} = {H[u]}
      BY <1>2, <1>4, <1>5, <2>2, <3>1
    <3> QED
      BY <2>2, <3>2 DEF WithMode
  <2> QED
    BY <2>1, <2>2
<1>11. HeldIn(g) = [u \in DOMAIN HeldIn(g) |-> HeldIn(g)[u]]
  BY DEF HeldIn
<1>12. HeldIn(g) = F
  BY <1>9, <1>10, <1>11 DEF WithMode
<1> QED
  BY <1>12 DEF H, g

\* A release takes out the one holder.
LEMMA ReleasedHeldIn ==
  ASSUME NEW h \in Seq(Holder), CompatibleHolders(h), NEW t, Holds(h, t)
  PROVE  /\ t \in DOMAIN HeldIn(h)
         /\ HeldIn(swap_remove(h, first(Positions(h, t)))) = WithoutHolder(HeldIn(h), t)
<1> DEFINE pos == first(Positions(h, t))
           g == swap_remove(h, pos)
           H == HeldIn(h)
           F == WithoutHolder(H, t)
<1>1. pos \in 1 .. Len(h)
  BY PositionFound
<1>2. g \in Seq(Holder) /\ CompatibleHolders(g)
  BY <1>1, SwapRemoveType, SwapRemoveCompatible
<1>3. /\ \A u : u # t => ModesOfVector(g, u) = ModesOfVector(h, u)
      /\ ModesOfVector(g, t) = {}
  BY SwapRemoveModes
<1>4. \A u, v : Holds(v, u) <=> ModesOfVector(v, u) # {}
  BY DEF Holds, ModesOfVector
<1> HIDE DEF g, H, pos
<1>5. /\ \A u : u \in DOMAIN H <=> Holds(h, u)
      /\ \A u : Holds(h, u) => ModesOfVector(h, u) = {H[u]}
  BY HeldInModes DEF H
<1>6. /\ \A u : u \in DOMAIN HeldIn(g) <=> Holds(g, u)
      /\ \A u : Holds(g, u) => ModesOfVector(g, u) = {HeldIn(g)[u]}
  BY <1>2, HeldInModes
<1>7. \A u : Holds(g, u) <=> u # t /\ Holds(h, u)
  BY <1>3, <1>4
<1>8. DOMAIN HeldIn(g) = DOMAIN F
  BY <1>5, <1>6, <1>7 DEF WithoutHolder
<1>9. ASSUME NEW u \in DOMAIN F
      PROVE  HeldIn(g)[u] = F[u]
  <2>1. u # t /\ Holds(g, u) /\ Holds(h, u)
    BY <1>5, <1>7 DEF WithoutHolder
  <2>2. {HeldIn(g)[u]} = {H[u]}
    BY <1>3, <1>5, <1>6, <2>1
  <2> QED
    BY <2>2 DEF WithoutHolder
<1>10. HeldIn(g) = [u \in DOMAIN HeldIn(g) |-> HeldIn(g)[u]]
  BY DEF HeldIn
<1>11. HeldIn(g) = F
  BY <1>8, <1>9, <1>10 DEF WithoutHolder
<1> QED
  BY <1>5, <1>11 DEF H, g, pos

\* Steps that leave the point locks alone.
LEMMA HeldKept == locks' = locks => HeldMap' = HeldMap
BY DEF HeldMap, AbstractHeld

\* Steps that leave the range locks alone.
LEMMA SpansKept == ranges' = ranges => SpanMap' = SpanMap
BY DEF SpanMap, AbstractSpans

\* A refused request leaves at most an empty vector behind, and a granted one is an
\* Acquire of AbstractLocks: compatible with what all the others hold, and joined
\* with what the transaction held (try_grant_locked).
LEMMA TryAcquireImplements ==
  ASSUME TableInv, NEW t \in TxnId, NEW r \in PointIds, NEW m \in RequestModes,
         try_acquire(t, r, m)
  PROVE  /\ SpanMap' = SpanMap
         /\ HeldMap' = HeldMap \/ Abstract!Acquire(t, r, m)
<1>1. r \in ResourceId /\ shard_index[r] \in Shards /\ m \in LockModes
  BY Arguments
<1>2. PICK s \in Shards : s = shard_index[r]
  BY <1>1
<1>3. PICK M : M = locks[s]
  OBVIOUS
<1>4. GoodLocks(M)
  BY <1>3 DEF TableInv, IInv, LocksInv
<1>5. PICK h \in Seq(Holder) : h = entry_or_new(M, r) /\ CompatibleHolders(h)
  BY <1>4, EntryGood
<1>6. PICK H : H = HeldIn(h)
  OBVIOUS
<1>7. AbstractHeld(r) = H /\ HeldMap[r] = H
  BY <1>2, <1>3, <1>5, <1>6 DEF AbstractHeld, HeldIn, HeldMap
<1>8. SpanMap' = SpanMap
  BY SpansKept DEF try_acquire
<1>9. CASE ~grants(h, t, m)
  <2>1. PICK n : n = insert(M, r, h)
    OBVIOUS
  <2>2. locks' = [locks EXCEPT ![s] = n]
    BY <1>2, <1>3, <1>5, <1>9, <2>1 DEF try_acquire, try_grant_locked
  <2>3. \A x : entry_or_new(n, x) = IF x = r THEN h ELSE entry_or_new(locks[s], x)
    BY <1>3, <2>1, EntryInsert
  <2>4. HeldBecomes(r, H)
    BY <1>1, <1>2, <1>6, <2>2, <2>3, HeldAfter
  <2>5. HeldMap' = [HeldMap EXCEPT ![r] = H]
    BY <2>4, HeldChanges
  <2>6. HeldMap' = HeldMap
    BY <1>7, <2>5 DEF HeldMap
  <2> QED
    BY <1>8, <2>6
<1>10. CASE grants(h, t, m)
  <2>1. PICK g : g = granted(h, t, m)
    OBVIOUS
  <2>2. PICK n : n = insert(M, r, g)
    OBVIOUS
  <2>3. locks' = [locks EXCEPT ![s] = n]
    BY <1>2, <1>3, <1>5, <1>10, <2>1, <2>2 DEF try_acquire, try_grant_locked
  <2>4. \A x : entry_or_new(n, x) = IF x = r THEN g ELSE entry_or_new(locks[s], x)
    BY <1>3, <2>2, EntryInsert
  <2>5. PICK F : F = WithMode(H, t, m)
    OBVIOUS
  <2>6. HeldIn(g) = F
    BY <1>1, <1>5, <1>6, <1>10, <2>1, <2>5, GrantedHeldIn
  <2>7. HeldBecomes(r, F)
    BY <1>1, <1>2, <2>3, <2>4, <2>6, HeldAfter
  <2>8. HeldMap' = [HeldMap EXCEPT ![r] = F]
    BY <2>7, HeldChanges
  <2>9. \A u \in DOMAIN H \ {t} : compatible_with(H[u], m)
    <3> TAKE u \in DOMAIN H \ {t}
    <3>1. \A i \in 1 .. Len(h) : h[i].txn # t => compatible_with(h[i].mode, m)
      BY <1>1, <1>5, <1>10, GrantsIffNoBlocker
    <3>2. Holds(h, u) /\ ModesOfVector(h, u) = {H[u]}
      BY <1>5, <1>6, HeldInModes
    <3>3. PICK i \in Positions(h, u) : h[i].mode = H[u]
      BY <3>2 DEF ModesOfVector
    <3>4. i \in 1 .. Len(h) /\ h[i].txn = u
      BY DEF Positions
    <3> QED
      BY <3>1, <3>3, <3>4
  <2>10. \A u \in DOMAIN H \ {t} : Abstract!compatible_with(H[u], m)
    BY <2>9, SameData
  <2>11. F = [u \in DOMAIN H \cup {t} |->
               IF u # t THEN H[u] ELSE IF t \in DOMAIN H THEN Abstract!join(H[t], m) ELSE m]
    BY <2>5, SameData DEF WithMode
  <2>12. Abstract!Acquire(t, r, m)
    BY <1>7, <1>8, <2>8, <2>10, <2>11 DEF Abstract!Acquire, HeldMap, SpanMap
  <2> QED
    BY <1>8, <2>12
<1> QED
  BY <1>9, <1>10

\* A holder taken out of the vector of r is a Release of AbstractLocks (release and
\* release_all, which are in r's shard).
LEMMA DropImplements ==
  ASSUME TableInv, NEW t, NEW r \in ResourceId, NEW s \in Shards, shard_index[r] = s,
         DropsLock(s, r, t), SpanMap' = SpanMap
  PROVE  HeldMap' = HeldMap \/ (r \in PointIds /\ Abstract!Release(t, r))
<1>1. PICK M : M = locks[s]
  OBVIOUS
<1>2. GoodLocks(M)
  BY <1>1 DEF TableInv, IInv, LocksInv
<1>3. PICK h \in Seq(Holder) : h = entry_or_new(M, r) /\ CompatibleHolders(h)
  BY <1>2, EntryGood
<1>4. PICK H : H = HeldIn(h)
  OBVIOUS
<1>5. PICK pos : pos = first(Positions(h, t))
  OBVIOUS
<1>6. PICK n : n = drop(M, r, pos)
  OBVIOUS
<1>7. Holds(h, t) /\ locks' = [locks EXCEPT ![s] = n]
  BY <1>1, <1>3, <1>5, <1>6 DEF DropsLock, Holds
<1>8. r \in DOMAIN M /\ h = M[r]
  BY <1>3, <1>7 DEF entry_or_new, Positions, Holds
<1>9. PICK g : g = swap_remove(h, pos)
  OBVIOUS
<1>10. \A x : entry_or_new(n, x) = IF x = r THEN g ELSE entry_or_new(locks[s], x)
  BY <1>1, <1>6, <1>8, <1>9, EntryDrop
<1>11. PICK F : F = WithoutHolder(H, t)
  OBVIOUS
<1>12. t \in DOMAIN H /\ HeldIn(g) = F
  BY <1>3, <1>4, <1>5, <1>7, <1>9, <1>11, ReleasedHeldIn
<1>13. HeldBecomes(r, F)
  BY <1>7, <1>10, <1>12, HeldAfter
<1>14. CASE r \in PointIds
  <2>1. AbstractHeld(r) = H /\ HeldMap[r] = H
    BY <1>1, <1>3, <1>4, <1>14 DEF AbstractHeld, HeldIn, HeldMap
  <2>2. HeldMap' = [HeldMap EXCEPT ![r] = F]
    BY <1>13, <1>14, HeldChanges
  <2>3. Abstract!Release(t, r)
    BY <1>11, <1>12, <2>1, <2>2 DEF Abstract!Release, HeldMap, SpanMap, WithoutHolder
  <2> QED
    BY <1>14, <2>3
<1>15. CASE r \notin PointIds
  <2>1. \A x \in PointIds : AbstractHeld(x)' = AbstractHeld(x)
    BY <1>13, <1>15 DEF HeldBecomes
  <2>2. HeldMap' = [x \in PointIds |-> AbstractHeld(x)']
    BY DEF HeldMap
  <2> QED
    BY <2>1, <2>2 DEF HeldMap
<1> QED
  BY <1>14, <1>15

\* release is such a step, or changes nothing.
LEMMA ReleaseImplements ==
  ASSUME TableInv, NEW t \in TxnId, NEW r \in PointIds, release(t, r)
  PROVE  /\ SpanMap' = SpanMap
         /\ HeldMap' = HeldMap \/ Abstract!Release(t, r)
<1>1. SpanMap' = SpanMap
  BY SpansKept DEF release
<1>2. r \in ResourceId /\ shard_index[r] \in Shards
  BY Arguments
<1>3. PICK s \in Shards : s = shard_index[r]
  BY <1>2
<1>4. locks' = locks \/ DropsLock(s, r, t)
  BY <1>3 DEF release, DropsLock
<1> QED
  BY <1>1, <1>2, <1>3, <1>4, HeldKept, DropImplements

\* So is one iteration of release_all's first loop: the resource it releases is one
\* of the shard it is in.
LEMMA ReleaseAllPointImplements ==
  ASSUME TableInv, NEW th \in Threads, ReleaseAllPoint(th)
  PROVE  /\ SpanMap' = SpanMap
         /\ HeldMap' = HeldMap \/ \E t \in TxnId, r \in PointIds : Abstract!Release(t, r)
<1>1. SpanMap' = SpanMap
  BY SpansKept DEF ReleaseAllPoint
<1>2. /\ sweep[th].txn \in TxnId /\ sweep[th].shard \in Shards
      /\ sweep[th].points \in Seq(ResourceId) /\ sweep[th].points # <<>>
  BY SweepFields DEF ReleaseAllPoint, TableInv, IInv
<1>3. PICK t \in TxnId, s \in Shards, r \in ResourceId :
           t = sweep[th].txn /\ s = sweep[th].shard /\ r = Head(sweep[th].points)
  BY <1>2
<1>4. locks' = locks \/ DropsLock(s, r, t)
  BY <1>3 DEF ReleaseAllPoint, DropsLock
<1>5. ASSUME DropsLock(s, r, t) PROVE shard_index[r] = s
  <2>1. r \in DOMAIN locks[s]
    BY <1>5 DEF DropsLock, Positions, entry_or_new
  <2> QED
    BY <2>1 DEF TableInv, NoResidue
<1> QED
  BY <1>1, <1>4, <1>5, HeldKept, DropImplements

\* The range holders for t of the range k in the mode m.
LockedAs(t, k, m) == {x \in RangeHolder : x.txn = t /\ x.range = k /\ x.mode = m}

\* The abstract count is a tally of the space's vector.
LEMMA SpansCounted ==
  ASSUME TableInv, NEW sp \in SpaceIds, NEW t, NEW k, NEW m
  PROVE  /\ AbstractSpans(t, <<sp, k>>, m) =
              Tally(entry_or_new(ranges[shard_index[sp]], sp), LockedAs(t, k, m))
         /\ AbstractSpans(t, <<sp, k>>, m) \in Nat
<1>1. GoodRanges(ranges[shard_index[sp]])
  BY Arguments DEF TableInv, IInv, RangesInv
<1>2. PICK h \in Seq(RangeHolder) : h = entry_or_new(ranges[shard_index[sp]], sp)
  BY <1>1, RangeEntryGood
<1>3. \A i \in 1 .. Len(h) : h[i] \in RangeHolder
  OBVIOUS
<1>4. {i \in RangePositions(h, t, k) : h[i].mode = m} = Places(h, LockedAs(t, k, m))
  BY <1>3 DEF RangePositions, Places, LockedAs
<1> QED
  BY <1>2, <1>4, PlacesFinite DEF AbstractSpans, Tally

\* The number of locks x, a <<txn, <<space, range>>, mode>>, changes by d, and no other.
SpansShift(x, d) ==
  \A t \in TxnId, sp \in SpaceIds, k \in RequestRanges, m \in RequestModes :
     AbstractSpans(t, <<sp, k>>, m)' =
       AbstractSpans(t, <<sp, k>>, m) + (IF <<t, <<sp, k>>, m>> = x THEN d ELSE 0)

\* Two shards' maps in which one count differs by d.
CountsDiffer(M, n, sp, t, k, m, d) ==
  \A x, u, l, c :
     Tally(entry_or_new(n, x), LockedAs(u, l, c)) =
       Tally(entry_or_new(M, x), LockedAs(u, l, c))
         + (IF x = sp /\ u = t /\ l = k /\ c = m THEN d ELSE 0)

\* An operation on the vector of sp in which one count changes.
LEMMA SpansAfter ==
  ASSUME TableInv, TableInv', NEW s \in Shards, NEW sp \in ResourceId, shard_index[sp] = s,
         NEW M, M = ranges[s], NEW n, ranges' = [ranges EXCEPT ![s] = n],
         NEW t, NEW k, NEW m, NEW d \in Int, CountsDiffer(M, n, sp, t, k, m, d),
         NEW z, z = <<t, <<sp, k>>, m>>
  PROVE  SpansShift(z, d)
<1> SUFFICES ASSUME NEW u \in TxnId, NEW x \in SpaceIds, NEW l \in RequestRanges,
                    NEW c \in RequestModes
             PROVE  AbstractSpans(u, <<x, l>>, c)' =
                      AbstractSpans(u, <<x, l>>, c)
                        + (IF <<u, <<x, l>>, c>> = z THEN d ELSE 0)
  BY DEF SpansShift
<1>1. DOMAIN ranges = Shards /\ shard_index[x] \in Shards
  BY Arguments DEF TableInv, IInv, RangesInv
<1>2. PICK i \in Shards : i = shard_index[x]
  BY <1>1
<1>3. /\ AbstractSpans(u, <<x, l>>, c) = Tally(entry_or_new(ranges[i], x), LockedAs(u, l, c))
      /\ AbstractSpans(u, <<x, l>>, c) \in Nat
  BY <1>2, SpansCounted
<1>4. AbstractSpans(u, <<x, l>>, c)' = Tally(entry_or_new(ranges'[i], x), LockedAs(u, l, c))
  <2>1. (GoodRanges(ranges[shard_index[x]]))'
    BY <1>1 DEF TableInv, IInv, RangesInv
  <2>2. GoodRanges(ranges'[i])
    BY <1>2, <2>1 DEF GoodRanges, CompatibleRanges
  <2>3. PICK h \in Seq(RangeHolder) : h = entry_or_new(ranges'[i], x)
    BY <2>2, RangeEntryGood
  <2>4. \A j \in 1 .. Len(h) : h[j] \in RangeHolder
    OBVIOUS
  <2>5. {j \in RangePositions(h, u, l) : h[j].mode = c} = Places(h, LockedAs(u, l, c))
    BY <2>4 DEF RangePositions, Places, LockedAs
  <2>6. AbstractSpans(u, <<x, l>>, c)' = Cardinality({j \in RangePositions(h, u, l) : h[j].mode = c})
    BY <1>2, <2>3 DEF AbstractSpans
  <2> QED
    BY <2>3, <2>5, <2>6 DEF Tally
<1>5. CASE i = s
  <2>1. ranges'[i] = n
    BY <1>1, <1>5
  <2>2. Tally(entry_or_new(n, x), LockedAs(u, l, c)) =
          Tally(entry_or_new(M, x), LockedAs(u, l, c))
            + (IF x = sp /\ u = t /\ l = k /\ c = m THEN d ELSE 0)
    BY DEF CountsDiffer
  <2> QED
    BY <1>3, <1>4, <1>5, <2>1, <2>2
<1>6. CASE i # s
  <2>1. ranges'[i] = ranges[i] /\ x # sp
    BY <1>1, <1>2, <1>6
  <2> QED
    BY <1>3, <1>4, <2>1
<1> QED
  BY <1>5, <1>6

\* Then the abstract state changes in one place, or in none if x is outside it.
LEMMA SpansChange ==
  ASSUME NEW x, NEW d \in Int, SpansShift(x, d), TableInv
  PROVE  IF x \in TxnId \X (SpaceIds \X RequestRanges) \X RequestModes
         THEN SpanMap' = [SpanMap EXCEPT ![x] = SpanMap[x] + d]
         ELSE SpanMap' = SpanMap
<1> DEFINE D == TxnId \X (SpaceIds \X RequestRanges) \X RequestModes
<1>1. \A y \in D : /\ AbstractSpans(y[1], y[2], y[3])' =
                        AbstractSpans(y[1], y[2], y[3]) + (IF y = x THEN d ELSE 0)
                   /\ AbstractSpans(y[1], y[2], y[3]) \in Nat
  <2> TAKE y \in D
  <2>1. PICK t \in TxnId, sp \in SpaceIds, k \in RequestRanges, m \in RequestModes :
               y = <<t, <<sp, k>>, m>>
    OBVIOUS
  <2> QED
    BY <2>1, SpansCounted DEF SpansShift
<1>2. /\ DOMAIN SpanMap = D
      /\ \A y \in D : SpanMap[y] = AbstractSpans(y[1], y[2], y[3])
  BY DEF SpanMap
<1>3. SpanMap' = [y \in D |-> AbstractSpans(y[1], y[2], y[3])']
  BY DEF SpanMap
<1>4. SpanMap = [y \in D |-> SpanMap[y]]
  BY DEF SpanMap
<1> HIDE DEF D
<1>5. CASE x \in D
  <2>1. [SpanMap EXCEPT ![x] = SpanMap[x] + d] =
          [y \in D |-> IF y = x THEN SpanMap[x] + d ELSE SpanMap[y]]
    BY <1>2
  <2>2. \A y \in D : AbstractSpans(y[1], y[2], y[3])' = IF y = x THEN SpanMap[x] + d ELSE SpanMap[y]
    BY <1>1, <1>2
  <2> QED
    BY <1>3, <1>5, <2>1, <2>2 DEF D
<1>6. CASE x \notin D
  <2>1. \A y \in D : AbstractSpans(y[1], y[2], y[3])' = SpanMap[y]
    BY <1>1, <1>2, <1>6
  <2> QED
    BY <1>3, <1>4, <1>6, <2>1 DEF D
<1> QED
  BY <1>5, <1>6 DEF D

\* A range request that is granted is an AcquireRange of AbstractLocks: compatible,
\* key by key, with what all the others hold in the space (try_acquire_range).
LEMMA TryAcquireRangeImplements ==
  ASSUME TableInv, TableInv', NEW t \in TxnId, NEW sp \in SpaceIds, NEW k \in RequestRanges,
         NEW m \in RequestModes, try_acquire_range(t, sp, k, m)
  PROVE  /\ HeldMap' = HeldMap
         /\ SpanMap' = SpanMap \/ Abstract!AcquireRange(t, <<sp, k>>, m)
<1>1. sp \in ResourceId /\ shard_index[sp] \in Shards /\ m \in LockModes /\ k \in KeyRanges
  BY Arguments
<1>2. PICK s \in Shards : s = shard_index[sp]
  BY <1>1
<1>3. PICK M : M = ranges[s]
  OBVIOUS
<1>4. GoodRanges(M)
  BY <1>3 DEF TableInv, IInv, RangesInv
<1>5. PICK h \in Seq(RangeHolder) : h = entry_or_new(M, sp)
  BY <1>4, RangeEntryGood
<1>6. HeldMap' = HeldMap
  BY HeldKept DEF try_acquire_range
<1>7. PICK x : x = <<t, <<sp, k>>, m>>
  OBVIOUS
<1>8. x \in TxnId \X (SpaceIds \X RequestRanges) \X RequestModes
  BY <1>7
<1>9. \A y, u, l, c : Tally(entry_or_new(M, y), LockedAs(u, l, c)) \in Nat
  <2> TAKE y, u, l, c
  <2>1. entry_or_new(M, y) \in Seq(RangeHolder)
    BY <1>4, RangeEntryGood
  <2> QED
    BY <2>1, PlacesFinite
<1>10. CASE range_conflict(h, t, k, m)
  <2>1. PICK n : n = insert(M, sp, h)
    OBVIOUS
  <2>2. ranges' = [ranges EXCEPT ![s] = n]
    BY <1>2, <1>3, <1>5, <1>10, <2>1 DEF try_acquire_range
  <2>3. \A y : entry_or_new(n, y) = entry_or_new(M, y)
    BY <1>5, <2>1, EntryInsert
  <2>4. CountsDiffer(M, n, sp, t, k, m, 0)
    BY <1>9, <2>3 DEF CountsDiffer
  <2>5. SpansShift(x, 0)
    <3>1. PICK d \in Int : d = 0
      OBVIOUS
    <3>2. CountsDiffer(M, n, sp, t, k, m, d)
      BY <2>4, <3>1
    <3>3. SpansShift(x, d)
      BY <1>1, <1>2, <1>3, <1>7, <2>2, <3>2, SpansAfter
    <3> QED
      BY <3>1, <3>3
  <2>6. SpanMap' = [SpanMap EXCEPT ![x] = SpanMap[x] + 0]
    BY <1>8, <2>5, SpansChange
  <2>7. SpanMap[x] \in Nat
    BY <1>7, SpansCounted DEF SpanMap
  <2>8. PICK B : B = SpanMap
    OBVIOUS
  <2>9. B = [y \in TxnId \X (SpaceIds \X RequestRanges) \X RequestModes |-> B[y]]
    BY <2>8 DEF SpanMap
  <2>10. B[x] + 0 = B[x]
    BY <2>7, <2>8
  <2>11. SpanMap' = SpanMap
    BY <1>8, <2>6, <2>8, <2>9, <2>10
  <2> QED
    BY <1>6, <2>11
<1>11. CASE ~range_conflict(h, t, k, m)
  <2>1. PICK e \in RangeHolder : e = [txn |-> t, range |-> k, mode |-> m]
    BY <1>1 DEF RangeHolder
  <2>2. PICK g : g = Append(h, e)
    OBVIOUS
  <2>3. PICK n : n = insert(M, sp, g)
    OBVIOUS
  <2>4. ranges' = [ranges EXCEPT ![s] = n]
    BY <1>2, <1>3, <1>5, <1>11, <2>1, <2>2, <2>3 DEF try_acquire_range
  <2>5. \A y : entry_or_new(n, y) = IF y = sp THEN g ELSE entry_or_new(M, y)
    BY <2>3, EntryInsert
  <2>6. \A u, l, c : Tally(g, LockedAs(u, l, c)) =
           Tally(h, LockedAs(u, l, c)) + (IF u = t /\ l = k /\ c = m THEN 1 ELSE 0)
    <3> TAKE u, l, c
    <3>1. Tally(g, LockedAs(u, l, c)) =
            Tally(h, LockedAs(u, l, c)) + (IF e \in LockedAs(u, l, c) THEN 1 ELSE 0)
      BY <2>2, TallyAppend
    <3>2. e \in LockedAs(u, l, c) <=> u = t /\ l = k /\ c = m
      BY <2>1 DEF LockedAs
    <3> QED
      BY <3>1, <3>2
  <2>7. CountsDiffer(M, n, sp, t, k, m, 1)
    <3> SUFFICES ASSUME NEW y, NEW u, NEW l, NEW c
                 PROVE  Tally(entry_or_new(n, y), LockedAs(u, l, c)) =
                          Tally(entry_or_new(M, y), LockedAs(u, l, c))
                            + (IF y = sp /\ u = t /\ l = k /\ c = m THEN 1 ELSE 0)
      BY DEF CountsDiffer
    <3>1. CASE y = sp
      BY <1>3, <1>5, <2>5, <2>6, <3>1
    <3>2. CASE y # sp
      BY <1>3, <1>9, <2>5, <3>2
    <3> QED
      BY <3>1, <3>2
  <2>8. SpansShift(x, 1)
    <3>1. PICK d \in Int : d = 1
      OBVIOUS
    <3>2. CountsDiffer(M, n, sp, t, k, m, d)
      BY <2>7, <3>1
    <3>3. SpansShift(x, d)
      BY <1>1, <1>2, <1>3, <1>7, <2>4, <3>2, SpansAfter
    <3> QED
      BY <3>1, <3>3
  <2>9. SpanMap' = [SpanMap EXCEPT ![x] = SpanMap[x] + 1]
    BY <1>8, <2>8, SpansChange
  <2>10. ASSUME NEW u \in TxnId \ {t}, NEW q \in SpaceIds \X RequestRanges, NEW c \in RequestModes,
                SpanMap[<<u, q, c>>] > 0, Abstract!CommonKeys(<<sp, k>>, q) # {}
         PROVE  compatible_with(c, m)
    <3>1. PICK l \in RequestRanges : q[2] = l /\ q = <<q[1], l>> /\ q[1] \in SpaceIds
      OBVIOUS
    <3>2. PICK key \in Key : sp = q[1] /\ contains(k, key) /\ contains(l, key)
      BY <2>10, <3>1, SameData DEF Abstract!CommonKeys
    <3>3. SpanMap[<<u, q, c>>] = AbstractSpans(u, <<sp, l>>, c)
      BY <3>1, <3>2 DEF SpanMap
    <3>4. SpanMap[<<u, q, c>>] = Tally(h, LockedAs(u, l, c))
      BY <1>2, <1>3, <1>5, <3>3, SpansCounted
    <3>5. PICK i \in 1 .. Len(h) : h[i] \in LockedAs(u, l, c)
      BY <2>10, <3>4, TallyZero
    <3>6. h[i].txn = u /\ h[i].range = l /\ h[i].mode = c
      BY <3>5 DEF LockedAs
    <3>7. overlaps(l, k)
      BY <1>1, <3>2, Arguments, OverlapsIffCommonKey
    <3> QED
      BY <1>11, <3>6, <3>7 DEF range_conflict
  <2>11. Abstract!AcquireRange(t, <<sp, k>>, m)
    <3>1. \A u \in TxnId \ {t}, q \in SpaceIds \X RequestRanges, c \in RequestModes :
             (SpanMap[<<u, q, c>>] > 0 /\ Abstract!CommonKeys(<<sp, k>>, q) # {})
               => Abstract!compatible_with(c, m)
      BY <2>10, SameData
    <3> QED
      BY <1>6, <1>7, <2>9, <3>1 DEF Abstract!AcquireRange, SpanMap, HeldMap
  <2> QED
    BY <1>6, <2>11
<1> QED
  BY <1>10, <1>11

\* A step takes the first of t's locks on the range k of sp out of shard s.
DropsSpan(s, sp, t, k) ==
  LET P == RangePositions(entry_or_new(ranges[s], sp), t, k)
  IN  P # {} /\ ranges' = [ranges EXCEPT ![s] = drop(ranges[s], sp, first(P))]

\* It is a ReleaseRange of AbstractLocks, unless nobody may ask for such a lock.
LEMMA DropSpanImplements ==
  ASSUME TableInv, TableInv', NEW s \in Shards, NEW sp \in ResourceId, shard_index[sp] = s,
         NEW t \in TxnId, NEW k, DropsSpan(s, sp, t, k), HeldMap' = HeldMap
  PROVE  \/ SpanMap' = SpanMap
         \/ sp \in SpaceIds /\ k \in RequestRanges /\ Abstract!ReleaseRange(t, <<sp, k>>)
<1>1. PICK M : M = ranges[s]
  OBVIOUS
<1>2. GoodRanges(M)
  BY <1>1 DEF TableInv, IInv, RangesInv
<1>3. PICK h \in Seq(RangeHolder) : h = entry_or_new(M, sp)
  BY <1>2, RangeEntryGood
<1>4. PICK P : P = RangePositions(h, t, k)
  OBVIOUS
<1>5. PICK pos : pos = first(P)
  OBVIOUS
<1>6. P # {} /\ ranges' = [ranges EXCEPT ![s] = drop(M, sp, pos)]
  BY <1>1, <1>3, <1>4, <1>5 DEF DropsSpan
<1>7. pos \in P
  <2>1. P \in SUBSET Nat
    BY <1>4 DEF RangePositions
  <2> QED
    BY <1>5, <1>6, <2>1, FirstIsLeast
<1>8. pos \in 1 .. Len(h) /\ h[pos].txn = t /\ h[pos].range = k
  BY <1>4, <1>7 DEF RangePositions
<1>9. sp \in DOMAIN M /\ h = M[sp]
  BY <1>3, <1>8 DEF entry_or_new
<1>10. PICK m : m = h[pos].mode
  OBVIOUS
<1>11. \A u, l, c : h[pos] \in LockedAs(u, l, c) <=> u = t /\ l = k /\ c = m
  <2>1. h[pos] \in RangeHolder
    BY <1>8
  <2> QED
    BY <1>8, <1>10, <2>1 DEF LockedAs
<1>12. PICK n : n = drop(M, sp, pos)
  OBVIOUS
<1>13. CountsDiffer(M, n, sp, t, k, m, -1)
  <2> SUFFICES ASSUME NEW y, NEW u, NEW l, NEW c
               PROVE  Tally(entry_or_new(n, y), LockedAs(u, l, c)) =
                        Tally(entry_or_new(M, y), LockedAs(u, l, c))
                          + (IF y = sp /\ u = t /\ l = k /\ c = m THEN -1 ELSE 0)
    BY DEF CountsDiffer
  <2>1. Tally(entry_or_new(n, y), LockedAs(u, l, c)) =
          Tally(entry_or_new(M, y), LockedAs(u, l, c))
            - (IF y = sp /\ M[sp][pos] \in LockedAs(u, l, c) THEN 1 ELSE 0)
    BY <1>2, <1>8, <1>9, <1>12, DropTally DEF GoodRanges
  <2>2. Tally(entry_or_new(M, y), LockedAs(u, l, c)) \in Nat
    <3>1. entry_or_new(M, y) \in Seq(RangeHolder)
      BY <1>2, RangeEntryGood
    <3> QED
      BY <3>1, PlacesFinite
  <2> QED
    BY <1>1, <1>9, <1>11, <2>1, <2>2
<1>14. PICK x : x = <<t, <<sp, k>>, m>>
  OBVIOUS
<1>15. SpansShift(x, -1)
  <2>1. PICK d \in Int : d = -1
    OBVIOUS
  <2>2. CountsDiffer(M, n, sp, t, k, m, d)
    BY <1>13, <2>1
  <2>3. SpansShift(x, d)
    BY <1>1, <1>6, <1>12, <1>14, <2>2, SpansAfter
  <2> QED
    BY <2>1, <2>3
<1>16. CASE x \in TxnId \X (SpaceIds \X RequestRanges) \X RequestModes
  <2>1. SpanMap' = [SpanMap EXCEPT ![x] = SpanMap[x] + -1]
    BY <1>15, <1>16, SpansChange
  <2>2. sp \in SpaceIds /\ k \in RequestRanges /\ m \in RequestModes
    BY <1>14, <1>16
  <2>3. SpanMap[x] = Tally(h, LockedAs(t, k, m)) /\ SpanMap[x] \in Nat
    <3>1. SpanMap[x] = AbstractSpans(t, <<sp, k>>, m)
      BY <1>14, <2>2 DEF SpanMap
    <3> QED
      BY <1>1, <1>3, <2>2, <3>1, SpansCounted
  <2>4. SpanMap[x] > 0
    <3>1. Tally(h, LockedAs(t, k, m)) # 0
      BY <1>8, <1>11, TallyZero
    <3> QED
      BY <2>3, <3>1
  <2>5. SpanMap' = [SpanMap EXCEPT ![x] = SpanMap[x] - 1]
    BY <2>1, <2>3
  <2>6. Abstract!ReleaseRange(t, <<sp, k>>)
    BY <1>14, <2>2, <2>4, <2>5 DEF Abstract!ReleaseRange, SpanMap, HeldMap
  <2> QED
    BY <2>2, <2>6
<1>17. CASE x \notin TxnId \X (SpaceIds \X RequestRanges) \X RequestModes
  BY <1>15, <1>17, SpansChange
<1> QED
  BY <1>16, <1>17

\* release_range is such a step, or changes nothing.
LEMMA ReleaseRangeImplements ==
  ASSUME TableInv, TableInv', NEW t \in TxnId, NEW sp \in SpaceIds, NEW k \in RequestRanges,
         release_range(t, sp, k)
  PROVE  /\ HeldMap' = HeldMap
         /\ SpanMap' = SpanMap \/ Abstract!ReleaseRange(t, <<sp, k>>)
<1>1. HeldMap' = HeldMap
  BY HeldKept DEF release_range
<1>2. sp \in ResourceId /\ shard_index[sp] \in Shards
  BY Arguments
<1>3. PICK s \in Shards : s = shard_index[sp]
  BY <1>2
<1>4. ranges' = ranges \/ DropsSpan(s, sp, t, k)
  BY <1>3 DEF release_range, DropsSpan
<1> QED
  BY <1>1, <1>2, <1>3, <1>4, SpansKept, DropSpanImplements

\* So is one iteration of release_all's second loop.
LEMMA ReleaseAllSpanImplements ==
  ASSUME TableInv, TableInv', NEW th \in Threads, ReleaseAllSpan(th)
  PROVE  /\ HeldMap' = HeldMap
         /\ \/ SpanMap' = SpanMap
            \/ \E t \in TxnId, p \in SpaceIds \X RequestRanges : Abstract!ReleaseRange(t, p)
<1>1. HeldMap' = HeldMap
  BY HeldKept DEF ReleaseAllSpan
<1>2. /\ sweep[th].txn \in TxnId /\ sweep[th].shard \in Shards
      /\ sweep[th].spans \in Seq(ResourceId \X KeyRanges) /\ sweep[th].spans # <<>>
  BY SweepFields DEF ReleaseAllSpan, TableInv, IInv
<1>3. Head(sweep[th].spans) \in ResourceId \X KeyRanges
  BY <1>2
<1>4. PICK t \in TxnId, s \in Shards, sp \in ResourceId, k \in KeyRanges :
           /\ t = sweep[th].txn /\ s = sweep[th].shard
           /\ sp = Head(sweep[th].spans)[1] /\ k = Head(sweep[th].spans)[2]
  BY <1>2, <1>3
<1>5. ranges' = ranges \/ DropsSpan(s, sp, t, k)
  BY <1>4 DEF ReleaseAllSpan, DropsSpan
<1>6. ASSUME DropsSpan(s, sp, t, k)
      PROVE  \/ SpanMap' = SpanMap
             \/ \E u \in TxnId, p \in SpaceIds \X RequestRanges : Abstract!ReleaseRange(u, p)
  <2>1. sp \in DOMAIN ranges[s]
    BY <1>6 DEF DropsSpan, RangePositions, entry_or_new
  <2>2. shard_index[sp] = s
    BY <2>1 DEF TableInv, NoResidue
  <2>3. \/ SpanMap' = SpanMap
        \/ sp \in SpaceIds /\ k \in RequestRanges /\ Abstract!ReleaseRange(t, <<sp, k>>)
    BY <1>1, <1>6, <2>2, DropSpanImplements
  <2> QED
    BY <2>3
<1> QED
  BY <1>1, <1>5, <1>6, SpansKept

\* A step of AbstractLocks on one of its two variables.
PointStep ==
  \E t \in TxnId, r \in PointIds :
     Abstract!Release(t, r) \/ \E m \in RequestModes : Abstract!Acquire(t, r, m)

RangeStep ==
  \E t \in TxnId, p \in SpaceIds \X RequestRanges :
     Abstract!ReleaseRange(t, p) \/ \E m \in RequestModes : Abstract!AcquireRange(t, p, m)

\* Every step of the table, release_all's included, is a step of AbstractLocks or
\* changes nothing of the abstract state.
LEMMA NextAbstract ==
  TableInv /\ TableInv' /\ [TableNext]_tableVars => [Abstract!Next]_Abstract!vars
<1> SUFFICES ASSUME TableInv, TableInv', [TableNext]_tableVars
             PROVE  [Abstract!Next]_Abstract!vars
  OBVIOUS
<1> DEFINE Good == \/ SpanMap' = SpanMap /\ (HeldMap' = HeldMap \/ PointStep)
                   \/ HeldMap' = HeldMap /\ (SpanMap' = SpanMap \/ RangeStep)
<1>1. ASSUME NEW t \in TxnId, NEW r \in PointIds, NEW m \in RequestModes, try_acquire(t, r, m)
      PROVE  Good
  BY <1>1, TryAcquireImplements DEF PointStep
<1>2. ASSUME NEW t \in TxnId, NEW r \in PointIds, release(t, r)
      PROVE  Good
  BY <1>2, ReleaseImplements DEF PointStep
<1>3. ASSUME NEW t \in TxnId, NEW sp \in SpaceIds, NEW k \in RequestRanges,
             NEW m \in RequestModes, try_acquire_range(t, sp, k, m)
      PROVE  Good
  BY <1>3, TryAcquireRangeImplements DEF RangeStep
<1>4. ASSUME NEW t \in TxnId, NEW sp \in SpaceIds, NEW k \in RequestRanges,
             release_range(t, sp, k)
      PROVE  Good
  BY <1>4, ReleaseRangeImplements DEF RangeStep
<1>5. ASSUME NEW th \in Threads, NEW t \in TxnId, ReleaseAllCall(th, t)
      PROVE  Good
  BY <1>5, HeldKept, SpansKept DEF ReleaseAllCall
<1>6. ASSUME NEW th \in Threads, ReleaseAllStep(th)
      PROVE  Good
  <2>1. CASE ReleaseAllPoint(th)
    BY <2>1, ReleaseAllPointImplements DEF PointStep
  <2>2. CASE ReleaseAllSpan(th)
    BY <2>2, ReleaseAllSpanImplements DEF RangeStep
  <2>3. CASE ReleaseAllLock(th) \/ ReleaseAllUnlock(th)
    BY <2>3, HeldKept, SpansKept DEF ReleaseAllLock, ReleaseAllUnlock
  <2> QED
    BY <1>6, <2>1, <2>2, <2>3 DEF ReleaseAllStep
<1>7. ASSUME UNCHANGED tableVars PROVE Good
  BY <1>7, HeldKept, SpansKept DEF tableVars
<1>8. Good
  BY <1>1, <1>2, <1>3, <1>4, <1>5, <1>6, <1>7 DEF TableNext
<1>9. CASE SpanMap' = SpanMap /\ HeldMap' = HeldMap
  BY <1>9 DEF Abstract!vars, HeldMap, SpanMap
<1>10. CASE HeldMap' # HeldMap /\ PointStep
  BY <1>10 DEF PointStep, Abstract!Next, HeldMap
<1>11. CASE SpanMap' # SpanMap /\ RangeStep
  BY <1>11 DEF RangeStep, Abstract!Next, SpanMap
<1> QED
  BY <1>8, <1>9, <1>10, <1>11

\* The sharded table with its vectors, indexes and multi-step release_all implements
\* a table in which one step changes one lock of one transaction.
THEOREM TableImplements == TableSpec => ImplementsAbstract
<1>1. TableInit => Abstract!Init
  BY InitAbstract
<1>2. TableInv /\ TableInv' /\ [TableNext]_tableVars => [Abstract!Next]_Abstract!vars
  BY NextAbstract
<1> QED
  BY <1>1, <1>2, TableIndexInvariant, PTL DEF TableSpec, ImplementsAbstract, Abstract!Spec

=============================================================================
