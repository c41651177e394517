-------------------------- MODULE HierarchyProofs --------------------------
(***************************************************************************)
(* Multi-granularity locking isolates what is locked, for every hierarchy, *)
(* however deep, and every number of transactions, rows, ranges and keys.  *)
(***************************************************************************)
EXTENDS Hierarchy, LockTableProofs

-----------------------------------------------------------------------------
(* The inductive invariant. *)

\* Whatever a transaction holds is announced on every node above.
Announced ==
  \A t \in TxnId : phase[t] # "ended" =>
    \A n \in PointIds : \A m \in ModesOf(t, n) : \A c \in Above[n] :
       \E h \in ModesOf(t, c) : covers(h, Intention(m))

\* release_all runs for transactions that have ended only.
SweepsEnded ==
  \A th \in Threads : sweep[th] # Idle => phase[sweep[th].txn] = "ended"

Protocol ==
  /\ phase \in [TxnId -> {"growing", "shrinking", "ended"}]
  /\ Announced /\ SweepsEnded

HInv == IInv /\ Protocol

-----------------------------------------------------------------------------
(* Modes. *)

\* A mode with its announcement; the cases of the five modes.
LEMMA IntentionCovered ==
  ASSUME NEW a \in LockModes, NEW b \in LockModes, NEW h \in LockModes,
         covers(h, Intention(a)), covers(h, Intention(b))
  PROVE  covers(h, Intention(join(a, b)))
<1>1. WritesPart(join(a, b)) <=> WritesPart(a) \/ WritesPart(b)
  BY JoinUnitesRights
<1> QED
  BY <1>1 DEF Intention

\* A stronger mode announces what a weaker one does.
LEMMA CoversTransitive ==
  ASSUME NEW a \in LockModes, NEW h \in LockModes, NEW i \in {"IS", "IX"}, covers(h, i)
  PROVE  covers(join(h, a), i)
BY DEF LockModes, covers, join, JOIN

\* Who is to write a part is at odds with who reads everything.
LEMMA IntentionWrites ==
  ASSUME NEW h \in LockModes, NEW m \in LockModes, WritesAll(m), covers(h, Intention(m))
  PROVE  WritesPart(h)
BY DEF LockModes, covers, join, JOIN, Intention, WritesPart, WritesAll, is_exclusive

\* mode_held finds the only mode a transaction holds a resource in.
LEMMA ModeHeldIsMode ==
  ASSUME IInv, NEW t \in TxnId, NEW r \in ResourceId
  PROVE  mode_held(t, r) = ModesOf(t, r)
<1> PICK v : v = entry_or_new(locks[shard_index[r]], r)
  OBVIOUS
<1>1. v \in Seq(Holder) /\ CompatibleHolders(v)
  BY EntryGood, TableAssumption DEF IInv, LocksInv
<1>2. mode_held(t, r) = IF Positions(v, t) = {} THEN {} ELSE {v[first(Positions(v, t))].mode}
  BY DEF mode_held
<1>3. ModesOf(t, r) = {v[i].mode : i \in Positions(v, t)}
  BY DEF ModesOf, ModesIn
<1>4. CASE Positions(v, t) = {}
  BY <1>2, <1>3, <1>4
<1>5. CASE Positions(v, t) # {}
  <2> PICK p : p = first(Positions(v, t))
    OBVIOUS
  <2>1. p \in 1 .. Len(v) /\ v[p].txn = t
    BY <1>1, <1>5, PositionFound DEF Holds
  <2>2. Positions(v, t) = {p}
    BY <1>1, <2>1 DEF Positions, CompatibleHolders
  <2> QED
    BY <1>2, <1>3, <2>2
<1> QED
  BY <1>4, <1>5

-----------------------------------------------------------------------------
(* The steps. *)

\* No step does to the table what TableNext does not.
LEMMA HierarchyUsesTable ==
  ASSUME [HierarchyNext]_hierarchyVars
  PROVE  [TableNext]_tableVars
<1>1. ASSUME NEW t \in TxnId, NEW n \in PointIds, NEW m \in RequestModes, LockNode(t, n, m)
      PROVE  TableNext
  BY <1>1 DEF LockNode, TableNext
<1>2. ASSUME NEW t \in TxnId, NEW n \in PointIds, UnlockNode(t, n)
      PROVE  TableNext
  BY <1>2 DEF UnlockNode, TableNext
<1>3. ASSUME NEW t \in TxnId, NEW sp \in SpaceIds, NEW k \in RequestRanges,
             NEW m \in RequestModes, LockRange(t, sp, k, m)
      PROVE  TableNext
  BY <1>3 DEF LockRange, TableNext
<1>4. ASSUME NEW t \in TxnId, NEW sp \in SpaceIds, NEW k \in RequestRanges,
             UnlockRange(t, sp, k)
      PROVE  TableNext
  BY <1>4 DEF UnlockRange, TableNext
<1>5. ASSUME NEW t, NEW x, Read(t, x) \/ Write(t, x)
      PROVE  UNCHANGED tableVars
  BY <1>5 DEF Read, Write
<1>6. ASSUME NEW t \in TxnId, NEW th \in Threads, End(th, t)
      PROVE  TableNext
  BY <1>6 DEF End, TableNext
<1>7. ASSUME NEW th \in Threads, ReleaseAllStep(th)
      PROVE  TableNext
  BY <1>7 DEF TableNext
<1>8. CASE UNCHANGED hierarchyVars
  BY <1>8 DEF hierarchyVars
<1> QED
  BY <1>1, <1>2, <1>3, <1>4, <1>5, <1>6, <1>7, <1>8 DEF HierarchyNext

\* A lock is granted under intentions that cover it, and where it is an upgrade those
\* of the mode held before are still there; what is held beneath is announced by the
\* stronger mode as it was by the weaker.
LEMMA LockNodeAnnounced ==
  ASSUME HInv, NEW t \in TxnId, NEW n \in PointIds, NEW m \in RequestModes, LockNode(t, n, m)
  PROVE  Announced'
<1> SUFFICES ASSUME NEW u \in TxnId, phase'[u] # "ended", NEW d \in PointIds,
                    NEW a \in ModesOf(u, d)', NEW c \in Above[d]
             PROVE  \E h \in ModesOf(u, c)' : covers(h, Intention(a))
  BY DEF Announced
<1>1. try_acquire(t, n, m) /\ phase' = phase /\ announced(t, n, m)
  BY DEF LockNode
<1>2. /\ n \in ResourceId /\ d \in ResourceId /\ c \in PointIds /\ c \in ResourceId
      /\ m \in LockModes /\ c # d
  BY TableAssumption, HierarchyAssumption
<1>3. IInv
  BY DEF HInv, Protocol
<1>4. \A v, x : x \in ResourceId /\ (v # t \/ x # n) => ModesOf(v, x)' = ModesOf(v, x)
  BY <1>1, <1>3, TryAcquireModes
<1>5. \/ ModesOf(t, n)' = ModesOf(t, n)
      \/ ModesOf(t, n) = {} /\ ModesOf(t, n)' = {m}
      \/ ModesOf(t, n)' = {IF covers(b, m) THEN b ELSE join(b, m) : b \in ModesOf(t, n)}
  BY <1>1, <1>3, TryAcquireModes
<1>6. \A v \in TxnId : phase[v] # "ended" =>
        \A e \in PointIds : \A b \in ModesOf(v, e) : \A f \in Above[e] :
           \E h \in ModesOf(v, f) : covers(h, Intention(b))
  BY DEF HInv, Protocol, Announced
<1>7. CASE u # t \/ (d # n /\ c # n)
  <2>1. ModesOf(u, d)' = ModesOf(u, d) /\ ModesOf(u, c)' = ModesOf(u, c)
    BY <1>2, <1>4, <1>7
  <2> QED
    BY <1>1, <1>6, <2>1
<1>8. CASE u = t /\ d = n
  <2>1. ModesOf(t, c)' = ModesOf(t, c)
    BY <1>2, <1>4, <1>8
  <2>2. \A b \in ModesOf(t, n) : \E h \in ModesOf(t, c) : covers(h, Intention(b))
    BY <1>1, <1>6, <1>8
  <2>3. \E h \in ModesOf(t, c) : covers(h, Intention(m))
    BY <1>1, <1>2, <1>3, <1>8, ModeHeldIsMode DEF announced
  <2>4. CASE a \in ModesOf(t, n) \/ a = m
    BY <1>8, <2>1, <2>2, <2>3, <2>4
  <2>5. ASSUME NEW b \in ModesOf(t, n), a = join(b, m)
        PROVE  \E h \in ModesOf(t, c)' : covers(h, Intention(a))
    <3>1. PICK h \in ModesOf(t, c) : covers(h, Intention(b))
      BY <2>2
    <3>2. PICK g \in ModesOf(t, c) : covers(g, Intention(m))
      BY <2>3
    <3>3. g = h /\ h \in LockModes
      BY <1>2, <1>3, ModesCompatible
    <3>4. b \in LockModes
      BY <1>2, <1>3, ModesCompatible
    <3>5. covers(h, Intention(a))
      BY <1>2, <2>5, <3>1, <3>2, <3>3, <3>4, IntentionCovered
    <3> QED
      BY <2>1, <3>5
  <2> QED
    BY <1>5, <1>8, <2>4, <2>5
<1>9. CASE u = t /\ d # n /\ c = n
  <2>1. a \in ModesOf(t, d)
    BY <1>2, <1>4, <1>9
  <2>2. PICK h \in ModesOf(t, n) : covers(h, Intention(a))
    BY <1>1, <1>6, <1>9, <2>1
  <2>3. h \in LockModes
    BY <1>2, <1>3, ModesCompatible
  <2>4. Intention(a) \in {"IS", "IX"}
    BY DEF Intention
  <2>5. covers(join(h, m), Intention(a))
    BY <1>2, <2>2, <2>3, <2>4, CoversTransitive
  <2>6. h \in ModesOf(t, n)' \/ join(h, m) \in ModesOf(t, n)'
    BY <1>5, <2>2
  <2> QED
    BY <1>9, <2>2, <2>5, <2>6
<1> QED
  BY <1>7, <1>8, <1>9

\* A node is unlocked when nothing beneath it is held (fine before coarse).
LEMMA UnlockNodeAnnounced ==
  ASSUME HInv, NEW t \in TxnId, NEW n \in PointIds, UnlockNode(t, n)
  PROVE  Announced'
<1> SUFFICES ASSUME NEW u \in TxnId, phase'[u] # "ended", NEW d \in PointIds,
                    NEW a \in ModesOf(u, d)', NEW c \in Above[d]
             PROVE  \E h \in ModesOf(u, c)' : covers(h, Intention(a))
  BY DEF Announced
<1>1. /\ release(t, n) /\ phase' = [phase EXCEPT ![t] = "shrinking"] /\ phase[t] # "ended"
      /\ \A e \in PointIds : n \in Above[e] => mode_held(t, e) = {}
  BY DEF UnlockNode
<1>2. d \in ResourceId /\ c \in ResourceId
  BY TableAssumption, HierarchyAssumption
<1>3. IInv
  BY DEF HInv, Protocol
<1>4. phase[u] # "ended"
  BY <1>1 DEF HInv, Protocol
<1>5. ASSUME NEW v, NEW x \in ResourceId
      PROVE  ModesOf(v, x)' = IF x = n /\ v = t THEN {} ELSE ModesOf(v, x)
  BY <1>1, <1>3, ReleaseModes DEF ModesOf
<1>6. a \in ModesOf(u, d)
  BY <1>2, <1>5
<1>7. ~(u = t /\ c = n)
  <2> SUFFICES ASSUME u = t, c = n PROVE FALSE
    OBVIOUS
  <2>1. mode_held(t, d) = {}
    BY <1>1
  <2> QED
    BY <1>2, <1>3, <1>6, <2>1, ModeHeldIsMode
<1>8. ModesOf(u, c)' = ModesOf(u, c)
  BY <1>2, <1>5, <1>7
<1> QED
  BY <1>4, <1>6, <1>8 DEF HInv, Protocol, Announced

\* The locks of a transaction that has not ended are not touched by release_all.
LEMMA SweepAnnounced ==
  ASSUME HInv, NEW th \in Threads, ReleaseAllStep(th), phase' = phase
  PROVE  Announced' /\ SweepsEnded'
<1>1. /\ sweep[th] # Idle /\ sweep[th].txn \in TxnId
      /\ \A o \in Threads : o # th => sweep'[o] = sweep[o]
      /\ sweep'[th] # Idle => sweep'[th].txn = sweep[th].txn
  BY SweepStep DEF HInv, Protocol
<1> PICK t \in TxnId : t = sweep[th].txn
  BY <1>1
<1>2. phase[t] = "ended"
  BY <1>1 DEF HInv, Protocol, SweepsEnded
<1>3. ASSUME NEW u, u # t, NEW x \in ResourceId
      PROVE  ModesOf(u, x)' = ModesOf(u, x)
  BY <1>3, ReleaseAllModes DEF HInv, Protocol, ModesOf
<1>4. \A n \in PointIds : n \in ResourceId /\ \A c \in Above[n] : c \in ResourceId
  BY TableAssumption, HierarchyAssumption
<1>5. Announced'
  BY <1>2, <1>3, <1>4 DEF HInv, Protocol, Announced
<1>6. SweepsEnded'
  BY <1>1, <1>2 DEF HInv, Protocol, SweepsEnded
<1> QED
  BY <1>5, <1>6

\* Every step preserves the invariant.
LEMMA NextHInv == HInv /\ [HierarchyNext]_hierarchyVars => HInv'
<1> SUFFICES ASSUME HInv, [HierarchyNext]_hierarchyVars PROVE HInv'
  OBVIOUS
<1>1. IInv'
  BY HierarchyUsesTable, NextIInv DEF HInv, Protocol
<1>2. \A th \in Threads : sweep[th] # Idle => sweep[th].txn \in TxnId
  BY DEF HInv, Protocol, IInv, SweepInv, Sweep
<1>3. ASSUME UNCHANGED <<sweep, phase>>, Announced'
      PROVE  Protocol'
  BY <1>3 DEF HInv, Protocol, SweepsEnded
<1>4. ASSUME UNCHANGED <<locks, sweep, phase>>
      PROVE  Protocol'
  <2>1. Announced'
    BY <1>4 DEF HInv, Protocol, Announced, ModesOf
  <2> QED
    BY <1>3, <1>4, <2>1
<1>5. ASSUME NEW t \in TxnId, phase' = [phase EXCEPT ![t] = "shrinking"], phase[t] # "ended",
             UNCHANGED sweep, Announced'
      PROVE  Protocol'
  <2>1. SweepsEnded'
    BY <1>2, <1>5 DEF HInv, Protocol, SweepsEnded
  <2> QED
    BY <1>5, <2>1 DEF HInv, Protocol
<1>6. ASSUME NEW t \in TxnId, NEW n \in PointIds, NEW m \in RequestModes, LockNode(t, n, m)
      PROVE  Protocol'
  <2>1. Announced'
    BY <1>6, LockNodeAnnounced
  <2>2. UNCHANGED <<sweep, phase>>
    BY <1>6 DEF LockNode, try_acquire
  <2> QED
    BY <1>3, <2>1, <2>2
<1>7. ASSUME NEW t \in TxnId, NEW n \in PointIds, UnlockNode(t, n)
      PROVE  Protocol'
  <2>1. Announced'
    BY <1>7, UnlockNodeAnnounced
  <2>2. /\ phase' = [phase EXCEPT ![t] = "shrinking"] /\ phase[t] # "ended"
        /\ UNCHANGED sweep
    BY <1>7 DEF UnlockNode, release
  <2> QED
    BY <1>5, <2>1, <2>2
<1>8. ASSUME NEW t \in TxnId, NEW sp \in SpaceIds, NEW k \in RequestRanges,
             NEW m \in RequestModes, LockRange(t, sp, k, m)
      PROVE  Protocol'
  <2>1. UNCHANGED <<locks, sweep, phase>>
    BY <1>8 DEF LockRange, try_acquire_range
  <2> QED
    BY <1>4, <2>1
<1>9. ASSUME NEW t \in TxnId, NEW sp \in SpaceIds, NEW k \in RequestRanges,
             UnlockRange(t, sp, k)
      PROVE  Protocol'
  <2>1. /\ phase' = [phase EXCEPT ![t] = "shrinking"] /\ phase[t] # "ended"
        /\ UNCHANGED <<locks, sweep>>
    BY <1>9 DEF UnlockRange, release_range
  <2>2. \A u \in TxnId : phase'[u] # "ended" => phase[u] # "ended"
    BY <2>1 DEF HInv, Protocol
  <2>3. Announced'
    BY <2>1, <2>2 DEF HInv, Protocol, Announced, ModesOf
  <2> QED
    BY <1>5, <2>1, <2>3
<1>10. ASSUME NEW t, NEW x, Read(t, x) \/ Write(t, x)
       PROVE  Protocol'
  <2>1. UNCHANGED <<locks, sweep, phase>>
    BY <1>10 DEF Read, Write, tableVars
  <2> QED
    BY <1>4, <2>1
<1>11. ASSUME NEW t \in TxnId, NEW th \in Threads, End(th, t)
       PROVE  Protocol'
  <2>1. /\ sweep'[th].txn = t
        /\ \A o \in Threads : o # th => sweep'[o] = sweep[o]
        /\ locks' = locks /\ phase' = [phase EXCEPT ![t] = "ended"]
    BY <1>11, SweepCall DEF HInv, Protocol, End
  <2>2. \A u \in TxnId : phase'[u] = IF u = t THEN "ended" ELSE phase[u]
    BY <2>1 DEF HInv, Protocol
  <2>3. Announced'
    BY <2>1, <2>2 DEF HInv, Protocol, Announced, ModesOf
  <2>4. SweepsEnded'
    BY <1>2, <2>1, <2>2 DEF HInv, Protocol, SweepsEnded
  <2> QED
    BY <2>1, <2>3, <2>4 DEF HInv, Protocol
<1>12. ASSUME NEW th \in Threads, ReleaseAllStep(th), phase' = phase
       PROVE  Protocol'
  BY <1>12, SweepAnnounced DEF HInv, Protocol
<1>13. ASSUME UNCHANGED hierarchyVars
       PROVE  Protocol'
  BY <1>4, <1>13 DEF hierarchyVars, tableVars
<1>14. Protocol'
  BY <1>6, <1>7, <1>8, <1>9, <1>10, <1>11, <1>12, <1>13 DEF HierarchyNext
<1> QED
  BY <1>1, <1>14 DEF HInv, Protocol

-----------------------------------------------------------------------------
(* Isolation. *)

\* The locks two transactions hold on a row and above it meet on one node: on the
\* coarser of the two the other one has announced itself.
LEMMA RowIsolated ==
  ASSUME HInv, NEW t \in TxnId, NEW u \in TxnId, t # u,
         phase[t] # "ended", phase[u] # "ended",
         NEW r \in PointIds,
         NEW n \in {r} \cup Above[r], NEW m \in ModesOf(t, n), WritesAll(m),
         NEW k \in {r} \cup Above[r], NEW l \in ModesOf(u, k), ReadsAll(l)
  PROVE  FALSE
<1>1. /\ n \in PointIds /\ k \in PointIds /\ n \in ResourceId /\ k \in ResourceId
      /\ \/ n = k \/ k \in Above[n] \/ n \in Above[k]
  BY TableAssumption, HierarchyAssumption
<1>2. m \in LockModes /\ l \in LockModes
  BY <1>1, ModesCompatible DEF HInv
<1>3. CASE n = k
  <2>1. compatible_with(m, l)
    BY <1>1, <1>3, ModesCompatible DEF HInv
  <2> QED
    BY <1>2, <2>1, CompatibleIffNoConflict
<1>4. CASE k \in Above[n]
  <2>1. PICK h \in ModesOf(t, k) : covers(h, Intention(m))
    BY <1>1, <1>4 DEF HInv, Protocol, Announced
  <2>2. h \in LockModes /\ compatible_with(h, l)
    BY <1>1, ModesCompatible DEF HInv
  <2>3. WritesPart(h)
    BY <1>2, <2>1, <2>2, IntentionWrites
  <2> QED
    BY <1>2, <2>2, <2>3, CompatibleIffNoConflict
<1>5. CASE n \in Above[k]
  <2>1. PICK h \in ModesOf(u, n) : covers(h, Intention(l))
    BY <1>1, <1>5 DEF HInv, Protocol, Announced
  <2>2. h \in LockModes /\ compatible_with(m, h)
    BY <1>1, ModesCompatible DEF HInv
  <2> QED
    BY <1>2, <2>2, CompatibleIffNoConflict
<1> QED
  BY <1>1, <1>3, <1>4, <1>5

\* Of a key the range locks of different transactions are compatible.
LEMMA KeyIsolated ==
  ASSUME IInv, NEW t \in TxnId, NEW u \in TxnId, t # u,
         NEW sp \in SpaceIds, NEW key \in Key, NEW v \in Seq(RangeHolder),
         v = entry_or_new(ranges[shard_index[sp]], sp),
         NEW i \in 1 .. Len(v), NEW j \in 1 .. Len(v),
         v[i].txn = t, v[j].txn = u, contains(v[i].range, key), contains(v[j].range, key),
         WritesAll(v[i].mode), ReadsAll(v[j].mode)
  PROVE  FALSE
<1>1. shard_index[sp] \in Shards
  BY Arguments
<1>2. sp \in DOMAIN ranges[shard_index[sp]] /\ v = ranges[shard_index[sp]][sp]
  BY DEF entry_or_new
<1>3. CompatibleRanges(v)
  BY <1>1, <1>2 DEF IInv, RangesInv, GoodRanges
<1>4. compatible_with(v[i].mode, v[j].mode)
  BY <1>3 DEF CompatibleRanges
<1>5. v[i] \in RangeHolder /\ v[j] \in RangeHolder
  OBVIOUS
<1>6. v[i].mode \in LockModes /\ v[j].mode \in LockModes
  BY <1>5 DEF RangeHolder
<1> QED
  BY <1>4, <1>6, CompatibleIffNoConflict

\* Nobody has locked anything, and no release_all is under way.
LEMMA InitHInv == HierarchyInit => HInv
<1> SUFFICES ASSUME HierarchyInit PROVE HInv
  OBVIOUS
<1>1. IInv
  BY InitIInv DEF HierarchyInit
<1>2. \A t, n : n \in ResourceId => ModesOf(t, n) = {}
  <2> TAKE t, n
  <2> HAVE n \in ResourceId
  <2>1. shard_index[n] \in Shards
    BY TableAssumption
  <2>2. locks[shard_index[n]] = EmptyMap
    BY <2>1 DEF HierarchyInit, TableInit
  <2>3. entry_or_new(locks[shard_index[n]], n) = <<>>
    BY <2>2 DEF EmptyMap, entry_or_new
  <2> QED
    BY <2>3 DEF ModesOf, ModesIn, Positions
<1>3. Announced
  BY <1>2, TableAssumption DEF Announced
<1>4. SweepsEnded
  BY DEF HierarchyInit, TableInit, SweepsEnded
<1>5. phase \in [TxnId -> {"growing", "shrinking", "ended"}]
  BY DEF HierarchyInit
<1> QED
  BY <1>1, <1>3, <1>4, <1>5 DEF HInv, Protocol

\* The invariant holds of every hierarchy.
THEOREM HierarchyInvariant == HierarchySpec => []HInv
BY InitHInv, NextHInv, PTL DEF HierarchySpec

\* Two locks that allow a write and a read of one item would meet on a node, or in
\* the ranges of a key.
LEMMA InvIsolates == HInv => ItemsIsolated
<1> SUFFICES ASSUME HInv, NEW x \in Items, NEW t \in TxnId, NEW u \in TxnId, t # u,
                    phase[t] # "ended", phase[u] # "ended",
                    MayWrite(t, x), MayRead(u, x)
             PROVE  FALSE
  BY DEF ItemsIsolated
<1>1. PICK m \in ModesOn(t, x) : WritesAll(m)
  BY DEF MayWrite
<1>2. PICK l \in ModesOn(u, x) : ReadsAll(l)
  BY DEF MayRead
<1>3. ASSUME NEW r \in Rows, x = <<r>>
      PROVE  FALSE
  <2>1. r \in PointIds /\ \A n \in {r} \cup Above[r] : n \in ResourceId
    BY TableAssumption, HierarchyAssumption
  <2>2. Len(x) = 1 /\ x[1] = r
    BY <1>3
  <2>3. PICK n \in {r} \cup Above[r] : m \in mode_held(t, n)
    BY <1>1, <2>2 DEF ModesOn
  <2>4. PICK k \in {r} \cup Above[r] : l \in mode_held(u, k)
    BY <1>2, <2>2 DEF ModesOn
  <2>5. m \in ModesOf(t, n) /\ l \in ModesOf(u, k)
    BY <2>1, <2>3, <2>4, ModeHeldIsMode DEF HInv
  <2> QED
    BY <1>1, <1>2, <2>1, <2>5, RowIsolated
<1>4. ASSUME NEW sp \in SpaceIds, NEW key \in Key, x = <<sp, key>>
      PROVE  FALSE
  <2> PICK v : v = entry_or_new(ranges[shard_index[sp]], sp)
    OBVIOUS
  <2>1. v \in Seq(RangeHolder)
    BY Arguments, RangeEntryGood DEF HInv, IInv, RangesInv
  <2>2. Len(x) = 2 /\ x[1] = sp /\ x[2] = key
    BY <1>4
  <2>3. \A w : ModesOn(w, x) = {v[i].mode : i \in {j \in 1 .. Len(v) :
                                 v[j].txn = w /\ contains(v[j].range, key)}}
    BY <2>2 DEF ModesOn
  <2>4. PICK i \in 1 .. Len(v) : v[i].txn = t /\ contains(v[i].range, key) /\ v[i].mode = m
    BY <1>1, <2>3
  <2>5. PICK j \in 1 .. Len(v) : v[j].txn = u /\ contains(v[j].range, key) /\ v[j].mode = l
    BY <1>2, <2>3
  <2> QED
    BY <1>1, <1>2, <2>1, <2>4, <2>5, KeyIsolated DEF HInv
<1> QED
  BY <1>3, <1>4 DEF Items

\* What one transaction may write no other may read or write, a row or a key, on
\* whatever nodes of however deep a hierarchy the two are locked.
THEOREM Isolation == HierarchySpec => []ItemsIsolated
BY InvIsolates, HierarchyInvariant, PTL

-----------------------------------------------------------------------------
(* Serializability.  What a step does to the rights of a transaction, that  *)
(* is to the modes in which it has the items locked.                        *)

\* The modes of ReadsAll, and of WritesAll.
ReadModes == {"S", "SIX", "X"}

WriteModes == {"X"}

HasOn(u, x, S) == \E m \in ModesOn(u, x) : m \in S

\* The range locks of u in one of the modes that contain the key.
Covering(u, key, S) ==
  {h \in RangeHolder : h.txn = u /\ contains(h.range, key) /\ h.mode \in S}

\* A right on a row is a mode on it or above, one on a key a range lock around it.
RightsAreLocks ==
  \A u \in TxnId, S \in {ReadModes, WriteModes} :
     /\ \A r \in Rows :
          HasOn(u, <<r>>, S) <=> \E n \in {r} \cup Above[r] : \E m \in ModesOf(u, n) : m \in S
     /\ \A sp \in SpaceIds, key \in Key :
          HasOn(u, <<sp, key>>, S) <=>
            Tally(entry_or_new(ranges[shard_index[sp]], sp), Covering(u, key, S)) # 0

\* It is, in every state of the invariant.
LEMMA RightsFound == IInv => RightsAreLocks
<1> SUFFICES ASSUME IInv, NEW u \in TxnId, NEW S \in {ReadModes, WriteModes}
             PROVE  /\ \A r \in Rows :
                         HasOn(u, <<r>>, S) <=>
                           \E n \in {r} \cup Above[r] : \E m \in ModesOf(u, n) : m \in S
                    /\ \A sp \in SpaceIds, key \in Key :
                         HasOn(u, <<sp, key>>, S) <=>
                           Tally(entry_or_new(ranges[shard_index[sp]], sp), Covering(u, key, S)) # 0
  BY DEF RightsAreLocks
<1>1. ASSUME NEW r \in Rows
      PROVE  HasOn(u, <<r>>, S) <=>
               \E n \in {r} \cup Above[r] : \E m \in ModesOf(u, n) : m \in S
  <2>1. \A n \in {r} \cup Above[r] : n \in ResourceId
    BY TableAssumption, HierarchyAssumption
  <2>2. ModesOn(u, <<r>>) = UNION {mode_held(u, n) : n \in {r} \cup Above[r]}
    BY DEF ModesOn
  <2>3. \A n \in {r} \cup Above[r] : mode_held(u, n) = ModesOf(u, n)
    BY <2>1, ModeHeldIsMode
  <2> QED
    BY <2>2, <2>3 DEF HasOn
<1>2. ASSUME NEW sp \in SpaceIds, NEW key \in Key
      PROVE  HasOn(u, <<sp, key>>, S) <=>
               Tally(entry_or_new(ranges[shard_index[sp]], sp), Covering(u, key, S)) # 0
  <2>1. GoodRanges(ranges[shard_index[sp]])
    BY Arguments DEF IInv, RangesInv
  <2>2. PICK v \in Seq(RangeHolder) : v = entry_or_new(ranges[shard_index[sp]], sp)
    BY <2>1, RangeEntryGood
  <2>3. ModesOn(u, <<sp, key>>) = {v[i].mode : i \in {j \in 1 .. Len(v) :
                                      v[j].txn = u /\ contains(v[j].range, key)}}
    BY <2>2 DEF ModesOn
  <2>4. \A i \in 1 .. Len(v) : v[i] \in RangeHolder
    OBVIOUS
  <2>5. HasOn(u, <<sp, key>>, S) <=> \E i \in 1 .. Len(v) : v[i] \in Covering(u, key, S)
    BY <2>3, <2>4 DEF HasOn, Covering
  <2> QED
    BY <2>2, <2>5, TallyZero
<1> QED
  BY <1>1, <1>2

\* A step takes no right from u, or gives it none.
Keeps(u) ==
  \A x \in Items, S \in {ReadModes, WriteModes} : HasOn(u, x, S) => HasOn(u, x, S)'

GainsNothing(u) ==
  \A x \in Items, S \in {ReadModes, WriteModes} : HasOn(u, x, S)' => HasOn(u, x, S)

\* The same of the point locks, and of the range locks, that a right may rest on.
PointRightsKept(u) ==
  \A n \in PointIds, S \in {ReadModes, WriteModes} :
     (\E m \in ModesOf(u, n) : m \in S) => \E m \in ModesOf(u, n)' : m \in S

PointRightsNoMore(u) ==
  \A n \in PointIds, S \in {ReadModes, WriteModes} :
     (\E m \in ModesOf(u, n)' : m \in S) => \E m \in ModesOf(u, n) : m \in S

CoverCount(m, sp, u, key, S) == Tally(entry_or_new(m[shard_index[sp]], sp), Covering(u, key, S))

RangeRightsKept(u) ==
  \A sp \in SpaceIds, key \in Key, S \in {ReadModes, WriteModes} :
     CoverCount(ranges, sp, u, key, S) # 0 => CoverCount(ranges', sp, u, key, S) # 0

RangeRightsNoMore(u) ==
  \A sp \in SpaceIds, key \in Key, S \in {ReadModes, WriteModes} :
     CoverCount(ranges', sp, u, key, S) # 0 => CoverCount(ranges, sp, u, key, S) # 0

\* Rights go and come with the locks.
LEMMA RightsFollowLocks ==
  ASSUME IInv, IInv', NEW u \in TxnId
  PROVE  /\ PointRightsKept(u) /\ RangeRightsKept(u) => Keeps(u)
         /\ PointRightsNoMore(u) /\ RangeRightsNoMore(u) => GainsNothing(u)
<1>1. RightsAreLocks
  BY RightsFound
<1>2. RightsAreLocks'
  BY RightsFound, PTL
<1>3. \A r \in Rows : \A n \in {r} \cup Above[r] : n \in PointIds
  BY HierarchyAssumption
<1>4. \A x \in Items : (\E r \in Rows : x = <<r>>) \/ \E sp \in SpaceIds, key \in Key : x = <<sp, key>>
  BY DEF Items
<1>5. \A r \in Rows, S \in {ReadModes, WriteModes} :
         /\ HasOn(u, <<r>>, S) <=> \E n \in {r} \cup Above[r] : \E m \in ModesOf(u, n) : m \in S
         /\ HasOn(u, <<r>>, S)' <=> \E n \in {r} \cup Above[r] : \E m \in ModesOf(u, n)' : m \in S
  BY <1>1, <1>2 DEF RightsAreLocks
<1>6. \A sp \in SpaceIds, key \in Key, S \in {ReadModes, WriteModes} :
         /\ HasOn(u, <<sp, key>>, S) <=> CoverCount(ranges, sp, u, key, S) # 0
         /\ HasOn(u, <<sp, key>>, S)' <=> CoverCount(ranges', sp, u, key, S) # 0
  BY <1>1, <1>2 DEF RightsAreLocks, CoverCount
<1>7. ASSUME PointRightsKept(u), RangeRightsKept(u)
      PROVE  Keeps(u)
  BY <1>3, <1>4, <1>5, <1>6, <1>7 DEF Keeps, PointRightsKept, RangeRightsKept
<1>8. ASSUME PointRightsNoMore(u), RangeRightsNoMore(u)
      PROVE  GainsNothing(u)
  BY <1>3, <1>4, <1>5, <1>6, <1>8 DEF GainsNothing, PointRightsNoMore, RangeRightsNoMore
<1> QED
  BY <1>7, <1>8

\* Steps that leave the point locks alone.
LEMMA PointRightsSame ==
  ASSUME locks' = locks, NEW u
  PROVE  PointRightsKept(u) /\ PointRightsNoMore(u)
<1>1. \A n : ModesOf(u, n)' = ModesOf(u, n)
  BY DEF ModesOf
<1> QED
  BY <1>1 DEF PointRightsKept, PointRightsNoMore

\* Steps that leave the range locks alone.
LEMMA RangeRightsSame ==
  ASSUME ranges' = ranges, NEW u
  PROVE  RangeRightsKept(u) /\ RangeRightsNoMore(u)
BY DEF RangeRightsKept, RangeRightsNoMore

\* A grant takes nothing from anybody, an upgrade included, and gives nothing to the
\* others.
LEMMA TryAcquireRights ==
  ASSUME IInv, NEW t \in TxnId, NEW n \in PointIds, NEW m \in RequestModes, try_acquire(t, n, m),
         NEW u \in TxnId
  PROVE  PointRightsKept(u) /\ (u # t => PointRightsNoMore(u))
<1>1. \A x \in PointIds : x \in ResourceId
  BY TableAssumption
<1>2. \A v, x : x \in ResourceId /\ (v # t \/ x # n) => ModesOf(v, x)' = ModesOf(v, x)
  BY TryAcquireModes
<1>3. \/ ModesOf(t, n)' = ModesOf(t, n)
      \/ ModesOf(t, n) = {}
      \/ ModesOf(t, n)' = {IF covers(b, m) THEN b ELSE join(b, m) : b \in ModesOf(t, n)}
  BY TryAcquireModes
<1>4. ASSUME NEW x \in PointIds, NEW S \in {ReadModes, WriteModes}, NEW b \in ModesOf(u, x), b \in S
      PROVE  \E c \in ModesOf(u, x)' : c \in S
  <2>1. CASE u # t \/ x # n
    BY <1>1, <1>2, <1>4, <2>1
  <2>2. CASE u = t /\ x = n
    <3>1. b \in LockModes /\ m \in LockModes
      BY <1>1, ModesCompatible, Arguments
    <3>2. join(b, m) \in S
      BY <1>4, <3>1 DEF ReadModes, WriteModes, LockModes, join, JOIN
    <3>3. \/ ModesOf(t, n)' = ModesOf(t, n)
          \/ b \in ModesOf(t, n)' \/ join(b, m) \in ModesOf(t, n)'
      BY <1>3, <1>4, <2>2
    <3> QED
      BY <1>4, <2>2, <3>2, <3>3
  <2> QED
    BY <2>1, <2>2
<1>5. PointRightsKept(u)
  BY <1>4 DEF PointRightsKept
<1>6. u # t => PointRightsNoMore(u)
  BY <1>1, <1>2 DEF PointRightsNoMore
<1> QED
  BY <1>5, <1>6

\* A release concerns its own transaction, and gives nobody anything.
LEMMA ReleaseRights ==
  ASSUME IInv, NEW t \in TxnId, NEW n \in PointIds, release(t, n), NEW u \in TxnId
  PROVE  PointRightsNoMore(u) /\ (u # t => PointRightsKept(u))
<1>1. ASSUME NEW x \in PointIds
      PROVE  ModesOf(u, x)' = IF x = n /\ u = t THEN {} ELSE ModesOf(u, x)
  <2>1. x \in ResourceId
    BY TableAssumption
  <2> QED
    BY <2>1, ReleaseModes DEF ModesOf
<1> QED
  BY <1>1 DEF PointRightsNoMore, PointRightsKept

\* So does a step of release_all.
LEMMA ReleaseAllPointRights ==
  ASSUME IInv, NEW th \in Threads, ReleaseAllStep(th), NEW u \in TxnId
  PROVE  PointRightsNoMore(u) /\ (u # sweep[th].txn => PointRightsKept(u))
<1>1. ASSUME NEW x \in PointIds
      PROVE  /\ u # sweep[th].txn => ModesOf(u, x)' = ModesOf(u, x)
             /\ ModesOf(u, x)' \subseteq ModesOf(u, x)
  <2>1. x \in ResourceId
    BY TableAssumption
  <2> QED
    BY <2>1, ReleaseAllModes DEF ModesOf
<1> QED
  BY <1>1 DEF PointRightsNoMore, PointRightsKept

\* Only the vector of one space, in one shard, is replaced.
ReplacesSpan(s, n) == s \in Shards /\ ranges' = [ranges EXCEPT ![s] = n]

\* The counts of the other shards stay.
LEMMA CoverElsewhere ==
  ASSUME IInv, NEW s, NEW n, ReplacesSpan(s, n), NEW sp \in SpaceIds, NEW u, NEW key, NEW S
  PROVE  CoverCount(ranges', sp, u, key, S) =
           IF shard_index[sp] = s THEN Tally(entry_or_new(n, sp), Covering(u, key, S))
           ELSE CoverCount(ranges, sp, u, key, S)
<1>1. DOMAIN ranges = Shards /\ shard_index[sp] \in Shards /\ s \in Shards
  BY Arguments DEF IInv, RangesInv, ReplacesSpan
<1>2. ranges'[shard_index[sp]] = IF shard_index[sp] = s THEN n ELSE ranges[shard_index[sp]]
  BY <1>1 DEF ReplacesSpan
<1> QED
  BY <1>2 DEF CoverCount

\* A range lock granted takes nothing from anybody and gives nothing to the others.
LEMMA TryAcquireRangeRights ==
  ASSUME IInv, NEW t \in TxnId, NEW sp \in SpaceIds, NEW k \in RequestRanges,
         NEW m \in RequestModes, try_acquire_range(t, sp, k, m), NEW u \in TxnId
  PROVE  RangeRightsKept(u) /\ (u # t => RangeRightsNoMore(u))
<1>1. shard_index[sp] \in Shards /\ m \in LockModes /\ k \in KeyRanges
  BY Arguments
<1>2. PICK s \in Shards : s = shard_index[sp]
  BY <1>1
<1>3. PICK M : M = ranges[s]
  OBVIOUS
<1>4. GoodRanges(M)
  BY <1>3 DEF IInv, RangesInv
<1>5. PICK h \in Seq(RangeHolder) : h = entry_or_new(M, sp)
  BY <1>4, RangeEntryGood
<1>6. PICK e \in RangeHolder : e = [txn |-> t, range |-> k, mode |-> m]
  BY <1>1 DEF RangeHolder
<1>7. PICK g : g = IF range_conflict(h, t, k, m) THEN h ELSE Append(h, e)
  OBVIOUS
<1>8. PICK n : n = insert(M, sp, g)
  OBVIOUS
<1>9. ReplacesSpan(s, n)
  <2>1. CASE range_conflict(h, t, k, m)
    BY <1>2, <1>3, <1>5, <1>7, <1>8, <2>1 DEF try_acquire_range, ReplacesSpan
  <2>2. CASE ~range_conflict(h, t, k, m)
    BY <1>2, <1>3, <1>5, <1>6, <1>7, <1>8, <2>2 DEF try_acquire_range, ReplacesSpan
  <2> QED
    BY <2>1, <2>2
<1>10. \A x : entry_or_new(n, x) = IF x = sp THEN g ELSE entry_or_new(M, x)
  BY <1>8, EntryInsert
<1>11. ASSUME NEW key \in Key, NEW S \in {ReadModes, WriteModes}
       PROVE  /\ Tally(h, Covering(u, key, S)) # 0 => Tally(g, Covering(u, key, S)) # 0
              /\ u # t => Tally(g, Covering(u, key, S)) = Tally(h, Covering(u, key, S))
  <2>1. PICK C : C = Covering(u, key, S)
    OBVIOUS
  <2>2. Tally(h, C) \in Nat
    BY PlacesFinite
  <2>3. Tally(Append(h, e), C) = Tally(h, C) + (IF e \in C THEN 1 ELSE 0)
    BY TallyAppend
  <2>4. u # t => e \notin C
    BY <1>6, <2>1 DEF Covering
  <2>5. CASE range_conflict(h, t, k, m)
    BY <1>7, <2>1, <2>5
  <2>6. CASE ~range_conflict(h, t, k, m)
    BY <1>7, <2>1, <2>2, <2>3, <2>4, <2>6
  <2> QED
    BY <2>5, <2>6
<1>12. ASSUME NEW x \in SpaceIds, NEW key \in Key, NEW S \in {ReadModes, WriteModes}
       PROVE  /\ CoverCount(ranges, x, u, key, S) # 0 => CoverCount(ranges', x, u, key, S) # 0
              /\ u # t => CoverCount(ranges', x, u, key, S) = CoverCount(ranges, x, u, key, S)
  <2>1. CoverCount(ranges', x, u, key, S) =
          IF shard_index[x] = s THEN Tally(entry_or_new(n, x), Covering(u, key, S))
          ELSE CoverCount(ranges, x, u, key, S)
    BY <1>9, CoverElsewhere
  <2>2. CoverCount(ranges, x, u, key, S) =
          Tally(entry_or_new(ranges[shard_index[x]], x), Covering(u, key, S))
    BY DEF CoverCount
  <2>3. CASE x = sp
    BY <1>2, <1>3, <1>5, <1>10, <1>11, <2>1, <2>2, <2>3
  <2>4. CASE x # sp
    BY <1>3, <1>10, <2>1, <2>2, <2>4
  <2> QED
    BY <2>3, <2>4
<1>13. RangeRightsKept(u)
  BY <1>12 DEF RangeRightsKept
<1>14. u # t => RangeRightsNoMore(u)
  BY <1>12 DEF RangeRightsNoMore
<1> QED
  BY <1>13, <1>14

\* A range lock taken out concerns its own transaction, and gives nobody anything.
LEMMA DropSpanRights ==
  ASSUME IInv, NEW s \in Shards, NEW t, NEW sp, NEW k, DropsSpan(s, sp, t, k), NEW u \in TxnId
  PROVE  RangeRightsNoMore(u) /\ (u # t => RangeRightsKept(u))
<1>1. PICK M : M = ranges[s]
  OBVIOUS
<1>2. GoodRanges(M)
  BY <1>1 DEF IInv, RangesInv
<1>3. PICK h \in Seq(RangeHolder) : h = entry_or_new(M, sp)
  BY <1>2, RangeEntryGood
<1>4. PICK P : P = RangePositions(h, t, k)
  OBVIOUS
<1>5. PICK pos : pos = first(P)
  OBVIOUS
<1>6. PICK n : n = drop(M, sp, pos)
  OBVIOUS
<1>7. P # {} /\ ReplacesSpan(s, n)
  BY <1>1, <1>3, <1>4, <1>5, <1>6 DEF DropsSpan, ReplacesSpan
<1>8. pos \in P
  <2>1. P \in SUBSET Nat
    BY <1>4 DEF RangePositions
  <2> QED
    BY <1>5, <1>7, <2>1, FirstIsLeast
<1>9. pos \in 1 .. Len(h) /\ h[pos].txn = t
  BY <1>4, <1>8 DEF RangePositions
<1>10. sp \in DOMAIN M /\ h = M[sp]
  BY <1>3, <1>9 DEF entry_or_new
<1>11. ASSUME NEW x \in SpaceIds, NEW key \in Key, NEW S \in {ReadModes, WriteModes}
       PROVE  /\ CoverCount(ranges', x, u, key, S) # 0 => CoverCount(ranges, x, u, key, S) # 0
              /\ u # t => CoverCount(ranges', x, u, key, S) = CoverCount(ranges, x, u, key, S)
  <2>1. CoverCount(ranges', x, u, key, S) =
          IF shard_index[x] = s THEN Tally(entry_or_new(n, x), Covering(u, key, S))
          ELSE CoverCount(ranges, x, u, key, S)
    BY <1>7, CoverElsewhere
  <2>2. CoverCount(ranges, x, u, key, S) =
          Tally(entry_or_new(ranges[shard_index[x]], x), Covering(u, key, S))
    BY DEF CoverCount
  <2>3. PICK C : C = Covering(u, key, S)
    OBVIOUS
  <2>4. Tally(entry_or_new(n, x), C) =
          Tally(entry_or_new(M, x), C) - (IF x = sp /\ M[sp][pos] \in C THEN 1 ELSE 0)
    BY <1>2, <1>6, <1>9, <1>10, DropTally DEF GoodRanges
  <2>5. Tally(entry_or_new(M, x), C) \in Nat
    <3>1. entry_or_new(M, x) \in Seq(RangeHolder)
      BY <1>2, RangeEntryGood
    <3> QED
      BY <3>1, PlacesFinite
  <2>6. x = sp /\ M[sp][pos] \in C => Tally(entry_or_new(M, x), C) # 0
    BY <1>3, <1>9, <1>10, TallyZero
  <2>7. u # t => M[sp][pos] \notin C
    BY <1>9, <1>10, <2>3 DEF Covering
  <2>8. CASE shard_index[x] = s
    BY <1>1, <2>1, <2>2, <2>3, <2>4, <2>5, <2>6, <2>7, <2>8
  <2>9. CASE shard_index[x] # s
    BY <2>1, <2>9
  <2> QED
    BY <2>8, <2>9
<1>12. RangeRightsNoMore(u)
  BY <1>11 DEF RangeRightsNoMore
<1>13. u # t => RangeRightsKept(u)
  BY <1>11 DEF RangeRightsKept
<1> QED
  BY <1>12, <1>13

\* So does a step of release_all.
LEMMA ReleaseAllSpanRights ==
  ASSUME IInv, NEW th \in Threads, ReleaseAllStep(th), NEW u \in TxnId
  PROVE  RangeRightsNoMore(u) /\ (u # sweep[th].txn => RangeRightsKept(u))
<1>1. CASE ReleaseAllSpan(th)
  <2>1. /\ sweep[th].shard \in Shards
        /\ sweep[th].spans \in Seq(ResourceId \X KeyRanges) /\ sweep[th].spans # <<>>
    BY <1>1, SweepFields DEF ReleaseAllSpan, IInv
  <2>2. PICK s, t, sp, k :
             /\ t = sweep[th].txn /\ s = sweep[th].shard
             /\ sp = Head(sweep[th].spans)[1] /\ k = Head(sweep[th].spans)[2]
    BY <2>1
  <2>3. ranges' = ranges \/ DropsSpan(s, sp, t, k)
    BY <1>1, <2>2 DEF ReleaseAllSpan, DropsSpan
  <2> QED
    BY <2>1, <2>2, <2>3, DropSpanRights, RangeRightsSame
<1>2. CASE ranges' = ranges
  BY <1>2, RangeRightsSame
<1> QED
  BY <1>1, <1>2
     DEF ReleaseAllStep, ReleaseAllLock, ReleaseAllPoint, ReleaseAllUnlock

-----------------------------------------------------------------------------
(* The order of the transactions.  An edge of precedes is drawn when the    *)
(* later transaction accesses the item; it is already certain when that     *)
(* transaction has locked the item, and at that time it takes locks still,  *)
(* while the earlier one takes none any more.  So a new edge leads to a     *)
(* transaction that takes locks, and no edge leads on from there.           *)

\* t has x locked in conflict with an access of u.
Conflicts(u, t, x) ==
  \/ u \in writers[x] /\ HasOn(t, x, ReadModes)
  \/ u \in readers[x] /\ HasOn(t, x, WriteModes)

Before(u, t) ==
  \/ <<u, t>> \in precedes
  \/ u # t /\ phase[t] # "ended" /\ \E x \in Items : Conflicts(u, t, x)

BeforeEdges == {e \in TxnId \X TxnId : Before(e[1], e[2])}

DataTyped ==
  /\ readers \in [Items -> SUBSET TxnId]
  /\ writers \in [Items -> SUBSET TxnId]
  /\ precedes \subseteq TxnId \X TxnId

\* Who takes locks still has those on what it has accessed.
KeepsLocks ==
  \A t \in TxnId, x \in Items : phase[t] = "growing" =>
     /\ t \in readers[x] => HasOn(t, x, ReadModes)
     /\ t \in writers[x] => HasOn(t, x, WriteModes)

\* Who takes locks still precedes nobody.
EdgesFromDone == \A u, t \in TxnId : Before(u, t) => phase[u] # "growing"

Acyclic(E) == ~\E c \in Paths : IsCycle(E, c)

SInv == HInv /\ DataTyped /\ KeepsLocks /\ EdgesFromDone /\ Acyclic(BeforeEdges)

\* Edges into G, when none leads out of it, close no cycle.
LEMMA NoNewCycle ==
  ASSUME NEW E, NEW F, NEW G, Acyclic(E),
         \A e \in F : (e \in E \/ e[2] \in G) /\ e[1] \notin G
  PROVE  Acyclic(F)
<1> SUFFICES ASSUME NEW c \in Paths, IsCycle(F, c) PROVE FALSE
  BY DEF Acyclic
<1>1. PICK n \in 1 .. Cardinality(TxnId) : c \in [1 .. n -> TxnId]
  BY DEF Paths
<1>2. n \in Nat /\ c \in Seq(TxnId) /\ Len(c) = n
  BY <1>1
<1>3. \A i \in 1 .. n : <<c[i], Next1(c, i)>> \in F
  BY <1>2 DEF IsCycle
<1>4. \A i \in 1 .. n : c[i] \notin G
  <2> TAKE i \in 1 .. n
  <2>1. PICK e \in F : e = <<c[i], Next1(c, i)>>
    BY <1>3
  <2> QED
    BY <2>1
<1>5. \A i \in 1 .. n : Next1(c, i) \notin G
  BY <1>2, <1>4 DEF Next1
<1>6. \A i \in 1 .. n : <<c[i], Next1(c, i)>> \in E
  <2> TAKE i \in 1 .. n
  <2>1. PICK e \in F : e = <<c[i], Next1(c, i)>>
    BY <1>3
  <2> QED
    BY <1>5, <2>1
<1>7. IsCycle(E, c)
  BY <1>2, <1>6 DEF IsCycle
<1> QED
  BY <1>7 DEF Acyclic

\* A step draws edges into a transaction that takes locks, if any.
LEMMA OrderKept ==
  ASSUME SInv, HInv', DataTyped', KeepsLocks', EdgesFromDone',
         \A u, t \in TxnId : Before(u, t)' => Before(u, t) \/ phase'[t] = "growing"
  PROVE  SInv'
<1>1. PICK E : E = BeforeEdges
  OBVIOUS
<1>2. PICK F : F = BeforeEdges'
  OBVIOUS
<1>3. PICK G : G = {t \in TxnId : phase'[t] = "growing"}
  OBVIOUS
<1>4. ASSUME NEW e \in F
      PROVE  (e \in E \/ e[2] \in G) /\ e[1] \notin G
  <2>1. e \in TxnId \X TxnId /\ Before(e[1], e[2])'
    BY <1>2, <1>4 DEF BeforeEdges
  <2>2. PICK u \in TxnId, t \in TxnId : e = <<u, t>> /\ Before(u, t)'
    BY <2>1
  <2>3. phase'[u] # "growing"
    BY <2>2 DEF EdgesFromDone
  <2>4. Before(u, t) \/ phase'[t] = "growing"
    BY <2>2
  <2> QED
    BY <1>1, <1>3, <2>2, <2>3, <2>4 DEF BeforeEdges
<1>5. Acyclic(E)
  BY <1>1 DEF SInv
<1>6. Acyclic(F)
  BY <1>4, <1>5, NoNewCycle
<1>7. Acyclic(BeforeEdges)'
  BY <1>2, <1>6 DEF Acyclic
<1> QED
  BY <1>7 DEF SInv

\* HasOn is what MayRead and MayWrite ask for.
LEMMA RightsNamed ==
  ASSUME NEW t, NEW x
  PROVE  /\ MayRead(t, x) <=> HasOn(t, x, ReadModes)
         /\ MayWrite(t, x) <=> HasOn(t, x, WriteModes)
         /\ HasOn(t, x, WriteModes) => HasOn(t, x, ReadModes)
BY DEF MayRead, MayWrite, HasOn, ReadModes, WriteModes, ReadsAll, WritesAll, is_exclusive

\* Isolation, in the same terms.
ItemsApart ==
  \A x \in Items, t, u \in TxnId :
     t # u /\ phase[t] # "ended" /\ phase[u] # "ended"
       => ~(HasOn(t, x, WriteModes) /\ HasOn(u, x, ReadModes))

\* It holds of every state of the invariant.
LEMMA InvApart == HInv => ItemsApart
BY InvIsolates, RightsNamed DEF ItemsIsolated, ItemsApart

\* A lock taken: by a transaction that takes locks, with no right lost and none gained
\* by another.
LEMMA LockingSerial ==
  ASSUME SInv, HInv', NEW t \in TxnId, phase[t] = "growing",
         \A u \in TxnId : Keeps(u) /\ (u # t => GainsNothing(u)),
         UNCHANGED <<phase, readers, writers, precedes>>
  PROVE  SInv'
<1>1. ItemsApart'
  BY InvApart, PTL
<1>2. DataTyped'
  BY DEF SInv, DataTyped
<1>3. KeepsLocks'
  BY DEF SInv, KeepsLocks, Keeps
<1>4. ASSUME NEW u \in TxnId, NEW v \in TxnId, Before(u, v)'
      PROVE  \/ Before(u, v)
             \/ v = t /\ u # t /\ \E x \in Items : Conflicts(u, t, x)'
  BY <1>4 DEF Before, Conflicts, GainsNothing
<1>5. ASSUME NEW u \in TxnId, u # t, NEW x \in Items, Conflicts(u, t, x)', phase[u] = "growing"
      PROVE  FALSE
  <2>1. CASE u \in writers[x] /\ HasOn(t, x, ReadModes)'
    <3>1. HasOn(u, x, WriteModes)
      BY <1>5, <2>1 DEF SInv, KeepsLocks
    <3>2. HasOn(u, x, WriteModes)'
      BY <3>1 DEF Keeps
    <3> QED
      BY <1>1, <1>5, <2>1, <3>2 DEF ItemsApart
  <2>2. CASE u \in readers[x] /\ HasOn(t, x, WriteModes)'
    <3>1. HasOn(u, x, ReadModes)
      BY <1>5, <2>2 DEF SInv, KeepsLocks
    <3>2. HasOn(u, x, ReadModes)'
      BY <3>1 DEF Keeps
    <3> QED
      BY <1>1, <1>5, <2>2, <3>2 DEF ItemsApart
  <2> QED
    BY <1>5, <2>1, <2>2 DEF Conflicts
<1>6. EdgesFromDone'
  <2> SUFFICES ASSUME NEW u \in TxnId, NEW v \in TxnId, Before(u, v)'
               PROVE  phase'[u] # "growing"
    BY DEF EdgesFromDone
  <2>1. CASE Before(u, v)
    BY <2>1 DEF SInv, EdgesFromDone
  <2>2. CASE ~Before(u, v)
    BY <1>4, <1>5, <2>2
  <2> QED
    BY <2>1, <2>2
<1>7. \A u, v \in TxnId : Before(u, v)' => Before(u, v) \/ phase'[v] = "growing"
  BY <1>4
<1> QED
  BY <1>2, <1>3, <1>6, <1>7, OrderKept

\* Locks given up, or a transaction ended: no right gained, and none lost by one that
\* takes locks still.
LEMMA UnlockingSerial ==
  ASSUME SInv, HInv',
         \A u \in TxnId :
            /\ GainsNothing(u)
            /\ phase'[u] # "ended" => phase[u] # "ended"
            /\ phase'[u] = "growing" => phase[u] = "growing" /\ Keeps(u),
         UNCHANGED <<readers, writers, precedes>>
  PROVE  SInv'
<1>1. DataTyped'
  BY DEF SInv, DataTyped
<1>2. KeepsLocks'
  BY DEF SInv, KeepsLocks, Keeps
<1>3. \A u, v \in TxnId : Before(u, v)' => Before(u, v)
  BY DEF Before, Conflicts, GainsNothing
<1>4. EdgesFromDone'
  BY <1>3 DEF SInv, EdgesFromDone
<1> QED
  BY <1>1, <1>2, <1>3, <1>4, OrderKept
\* A read or a write leaves everybody's rights.
LEMMA RightsSame ==
  ASSUME HInv, HInv', UNCHANGED tableVars, NEW u \in TxnId
  PROVE  Keeps(u) /\ GainsNothing(u)
<1>1. IInv /\ IInv' /\ locks' = locks /\ ranges' = ranges
  BY DEF HInv, tableVars
<1>2. PointRightsKept(u) /\ PointRightsNoMore(u)
  BY <1>1, PointRightsSame
<1>3. RangeRightsKept(u) /\ RangeRightsNoMore(u)
  BY <1>1, RangeRightsSame
<1> QED
  BY <1>1, <1>2, <1>3, RightsFollowLocks

\* An edge that an access draws is no news: the lock it is made under is held already,
\* and nobody else holds one against it.
LEMMA ReadSerial ==
  ASSUME SInv, HInv', NEW t \in TxnId, NEW x \in Items, Read(t, x)
  PROVE  SInv'
<1>1. /\ phase[t] # "ended" /\ HasOn(t, x, ReadModes)
      /\ readers' = [readers EXCEPT ![x] = @ \cup {t}]
      /\ precedes' = precedes \cup {<<u, t>> : u \in writers[x] \ {t}}
      /\ UNCHANGED <<phase, writers>> /\ UNCHANGED tableVars
  BY RightsNamed DEF Read
<1>2. \A u \in TxnId : Keeps(u) /\ GainsNothing(u)
  BY <1>1, RightsSame DEF SInv
<1>3. ItemsApart /\ DataTyped
  BY InvApart DEF SInv
<1>4. \A y \in Items, u \in TxnId : u \in readers'[y] => u \in readers[y] \/ (u = t /\ y = x)
  BY <1>1, <1>3 DEF DataTyped
<1>5. DataTyped'
  BY <1>1, <1>3 DEF DataTyped
<1>6. KeepsLocks'
  <2> SUFFICES ASSUME NEW u \in TxnId, NEW y \in Items, phase'[u] = "growing"
               PROVE  /\ u \in readers'[y] => HasOn(u, y, ReadModes)'
                      /\ u \in writers'[y] => HasOn(u, y, WriteModes)'
    BY DEF KeepsLocks
  <2>1. u \in readers'[y] => HasOn(u, y, ReadModes)
    BY <1>1, <1>4 DEF SInv, KeepsLocks
  <2>2. u \in writers'[y] => HasOn(u, y, WriteModes)
    BY <1>1 DEF SInv, KeepsLocks
  <2> QED
    BY <1>2, <2>1, <2>2 DEF Keeps
<1>7. ASSUME NEW u \in TxnId, NEW v \in TxnId, Before(u, v)'
      PROVE  Before(u, v)
  <2>1. CASE <<u, v>> \in precedes'
    <3>1. CASE <<u, v>> \in precedes
      BY <3>1 DEF Before
    <3>2. CASE v = t /\ u # t /\ u \in writers[x]
      BY <1>1, <3>2 DEF Before, Conflicts
    <3> QED
      BY <1>1, <2>1, <3>1, <3>2
  <2>2. ASSUME u # v, phase[v] # "ended", NEW y \in Items, Conflicts(u, v, y)'
        PROVE  Conflicts(u, v, y)
    <3>1. /\ HasOn(v, y, ReadModes)' => HasOn(v, y, ReadModes)
          /\ HasOn(v, y, WriteModes)' => HasOn(v, y, WriteModes)
      BY <1>2 DEF GainsNothing
    <3>2. ~(u = t /\ y = x /\ HasOn(v, y, WriteModes))
      BY <1>1, <1>3, <2>2 DEF ItemsApart
    <3> QED
      BY <1>1, <1>4, <2>2, <3>1, <3>2 DEF Conflicts
  <2> QED
    BY <1>1, <1>7, <2>1, <2>2 DEF Before
<1>8. EdgesFromDone'
  BY <1>1, <1>7 DEF SInv, EdgesFromDone
<1> QED
  BY <1>5, <1>6, <1>7, <1>8, OrderKept

\* The same of a write.
LEMMA WriteSerial ==
  ASSUME SInv, HInv', NEW t \in TxnId, NEW x \in Items, Write(t, x)
  PROVE  SInv'
<1>1. /\ phase[t] # "ended" /\ HasOn(t, x, WriteModes) /\ HasOn(t, x, ReadModes)
      /\ writers' = [writers EXCEPT ![x] = @ \cup {t}]
      /\ precedes' = precedes \cup {<<u, t>> : u \in (readers[x] \cup writers[x]) \ {t}}
      /\ UNCHANGED <<phase, readers>> /\ UNCHANGED tableVars
  BY RightsNamed DEF Write
<1>2. \A u \in TxnId : Keeps(u) /\ GainsNothing(u)
  BY <1>1, RightsSame DEF SInv
<1>3. ItemsApart /\ DataTyped
  BY InvApart DEF SInv
<1>4. \A y \in Items, u \in TxnId : u \in writers'[y] => u \in writers[y] \/ (u = t /\ y = x)
  BY <1>1, <1>3 DEF DataTyped
<1>5. DataTyped'
  BY <1>1, <1>3 DEF DataTyped
<1>6. KeepsLocks'
  <2> SUFFICES ASSUME NEW u \in TxnId, NEW y \in Items, phase'[u] = "growing"
               PROVE  /\ u \in readers'[y] => HasOn(u, y, ReadModes)'
                      /\ u \in writers'[y] => HasOn(u, y, WriteModes)'
    BY DEF KeepsLocks
  <2>1. u \in readers'[y] => HasOn(u, y, ReadModes)
    BY <1>1 DEF SInv, KeepsLocks
  <2>2. u \in writers'[y] => HasOn(u, y, WriteModes)
    BY <1>1, <1>4 DEF SInv, KeepsLocks
  <2> QED
    BY <1>2, <2>1, <2>2 DEF Keeps
<1>7. ASSUME NEW u \in TxnId, NEW v \in TxnId, Before(u, v)'
      PROVE  Before(u, v)
  <2>1. CASE <<u, v>> \in precedes'
    <3>1. CASE <<u, v>> \in precedes
      BY <3>1 DEF Before
    <3>2. CASE v = t /\ u # t /\ u \in readers[x] \cup writers[x]
      BY <1>1, <3>2 DEF Before, Conflicts
    <3> QED
      BY <1>1, <2>1, <3>1, <3>2
  <2>2. ASSUME u # v, phase[v] # "ended", NEW y \in Items, Conflicts(u, v, y)'
        PROVE  Conflicts(u, v, y)
    <3>1. /\ HasOn(v, y, ReadModes)' => HasOn(v, y, ReadModes)
          /\ HasOn(v, y, WriteModes)' => HasOn(v, y, WriteModes)
      BY <1>2 DEF GainsNothing
    <3>2. ~(u = t /\ y = x /\ HasOn(v, y, ReadModes))
      BY <1>1, <1>3, <2>2 DEF ItemsApart
    <3> QED
      BY <1>1, <1>4, <2>2, <3>1, <3>2 DEF Conflicts
  <2> QED
    BY <1>1, <1>7, <2>1, <2>2 DEF Before
<1>8. EdgesFromDone'
  BY <1>1, <1>7 DEF SInv, EdgesFromDone
<1> QED
  BY <1>5, <1>6, <1>7, <1>8, OrderKept
\* Every step preserves the order.
LEMMA NextSInv == SInv /\ [HierarchyNext]_hierarchyVars => SInv'
<1> SUFFICES ASSUME SInv, [HierarchyNext]_hierarchyVars PROVE SInv'
  OBVIOUS
<1>1. HInv /\ HInv' /\ IInv /\ IInv'
  BY NextHInv DEF SInv, HInv
<1>2. \A u, t \in TxnId, p \in {"growing", "shrinking", "ended"} :
         phase' = [phase EXCEPT ![t] = p] => phase'[u] = IF u = t THEN p ELSE phase[u]
  BY <1>1 DEF HInv, Protocol
<1>3. ASSUME NEW t \in TxnId, NEW n \in PointIds, NEW m \in RequestModes, LockNode(t, n, m)
      PROVE  SInv'
  <2>1. /\ phase[t] = "growing" /\ try_acquire(t, n, m) /\ ranges' = ranges
        /\ UNCHANGED <<phase, readers, writers, precedes>>
    BY <1>3 DEF LockNode, may_lock, try_acquire
  <2>2. ASSUME NEW u \in TxnId
        PROVE  Keeps(u) /\ (u # t => GainsNothing(u))
    <3>1. PointRightsKept(u) /\ (u # t => PointRightsNoMore(u))
      BY <1>1, <2>1, TryAcquireRights
    <3>2. RangeRightsKept(u) /\ RangeRightsNoMore(u)
      BY <2>1, RangeRightsSame
    <3> QED
      BY <1>1, <3>1, <3>2, RightsFollowLocks
  <2> QED
    BY <1>1, <2>1, <2>2, LockingSerial
<1>4. ASSUME NEW t \in TxnId, NEW sp \in SpaceIds, NEW k \in RequestRanges,
             NEW m \in RequestModes, LockRange(t, sp, k, m)
      PROVE  SInv'
  <2>1. /\ phase[t] = "growing" /\ try_acquire_range(t, sp, k, m) /\ locks' = locks
        /\ UNCHANGED <<phase, readers, writers, precedes>>
    BY <1>4 DEF LockRange, may_lock, try_acquire_range
  <2>2. ASSUME NEW u \in TxnId
        PROVE  Keeps(u) /\ (u # t => GainsNothing(u))
    <3>1. PointRightsKept(u) /\ PointRightsNoMore(u)
      BY <2>1, PointRightsSame
    <3>2. RangeRightsKept(u) /\ (u # t => RangeRightsNoMore(u))
      BY <1>1, <2>1, TryAcquireRangeRights
    <3> QED
      BY <1>1, <3>1, <3>2, RightsFollowLocks
  <2> QED
    BY <1>1, <2>1, <2>2, LockingSerial
<1>5. ASSUME NEW t \in TxnId, NEW n \in PointIds, UnlockNode(t, n)
      PROVE  SInv'
  <2>1. /\ phase[t] # "ended" /\ release(t, n) /\ ranges' = ranges
        /\ phase' = [phase EXCEPT ![t] = "shrinking"]
        /\ UNCHANGED <<readers, writers, precedes>>
    BY <1>5 DEF UnlockNode, release
  <2>2. ASSUME NEW u \in TxnId
        PROVE  GainsNothing(u) /\ (u # t => Keeps(u))
    <3>1. PointRightsNoMore(u) /\ (u # t => PointRightsKept(u))
      BY <1>1, <2>1, ReleaseRights
    <3>2. RangeRightsKept(u) /\ RangeRightsNoMore(u)
      BY <2>1, RangeRightsSame
    <3> QED
      BY <1>1, <3>1, <3>2, RightsFollowLocks
  <2>3. \A u \in TxnId : phase'[u] = IF u = t THEN "shrinking" ELSE phase[u]
    BY <1>2, <2>1
  <2> QED
    BY <1>1, <2>1, <2>2, <2>3, UnlockingSerial
<1>6. ASSUME NEW t \in TxnId, NEW sp \in SpaceIds, NEW k \in RequestRanges,
             UnlockRange(t, sp, k)
      PROVE  SInv'
  <2>1. /\ phase[t] # "ended" /\ locks' = locks
        /\ ranges' = ranges \/ DropsSpan(shard_index[sp], sp, t, k)
        /\ phase' = [phase EXCEPT ![t] = "shrinking"]
        /\ UNCHANGED <<readers, writers, precedes>>
    BY <1>6 DEF UnlockRange, release_range, DropsSpan
  <2>2. ASSUME NEW u \in TxnId
        PROVE  GainsNothing(u) /\ (u # t => Keeps(u))
    <3>1. PointRightsKept(u) /\ PointRightsNoMore(u)
      BY <2>1, PointRightsSame
    <3>2. RangeRightsNoMore(u) /\ (u # t => RangeRightsKept(u))
      BY <1>1, <2>1, DropSpanRights, RangeRightsSame, Arguments
    <3> QED
      BY <1>1, <3>1, <3>2, RightsFollowLocks
  <2>3. \A u \in TxnId : phase'[u] = IF u = t THEN "shrinking" ELSE phase[u]
    BY <1>2, <2>1
  <2> QED
    BY <1>1, <2>1, <2>2, <2>3, UnlockingSerial
<1>7. ASSUME NEW t \in TxnId, NEW th \in Threads, End(th, t)
      PROVE  SInv'
  <2>1. /\ phase[t] # "ended" /\ locks' = locks /\ ranges' = ranges
        /\ phase' = [phase EXCEPT ![t] = "ended"]
        /\ UNCHANGED <<readers, writers, precedes>>
    BY <1>7 DEF End, ReleaseAllCall
  <2>2. ASSUME NEW u \in TxnId
        PROVE  GainsNothing(u) /\ Keeps(u)
    BY <1>1, <2>1, PointRightsSame, RangeRightsSame, RightsFollowLocks
  <2>3. \A u \in TxnId : phase'[u] = IF u = t THEN "ended" ELSE phase[u]
    BY <1>2, <2>1
  <2> QED
    BY <1>1, <2>1, <2>2, <2>3, UnlockingSerial
<1>8. ASSUME NEW th \in Threads, ReleaseAllStep(th), UNCHANGED <<phase, readers, writers, precedes>>
      PROVE  SInv'
  <2>1. phase[sweep[th].txn] = "ended"
    <3>1. sweep[th] # Idle
      BY <1>1, <1>8, SweepStep
    <3> QED
      BY <1>1, <3>1 DEF HInv, Protocol, SweepsEnded
  <2>2. ASSUME NEW u \in TxnId
        PROVE  GainsNothing(u) /\ (u # sweep[th].txn => Keeps(u))
    <3>1. PointRightsNoMore(u) /\ (u # sweep[th].txn => PointRightsKept(u))
      BY <1>1, <1>8, ReleaseAllPointRights
    <3>2. RangeRightsNoMore(u) /\ (u # sweep[th].txn => RangeRightsKept(u))
      BY <1>1, <1>8, ReleaseAllSpanRights
    <3> QED
      BY <1>1, <3>1, <3>2, RightsFollowLocks
  <2> QED
    BY <1>1, <1>8, <2>1, <2>2, UnlockingSerial
<1>9. ASSUME UNCHANGED hierarchyVars
      PROVE  SInv'
  <2>1. UNCHANGED tableVars /\ UNCHANGED <<phase, readers, writers, precedes>>
    BY <1>9 DEF hierarchyVars
  <2>2. \A u \in TxnId : GainsNothing(u) /\ Keeps(u)
    BY <1>1, <2>1, RightsSame
  <2> QED
    BY <1>1, <2>1, <2>2, UnlockingSerial
<1> QED
  BY <1>1, <1>3, <1>4, <1>5, <1>6, <1>7, <1>8, <1>9, ReadSerial, WriteSerial DEF HierarchyNext

\* Nobody has accessed anything, nobody precedes anybody.
LEMMA InitSInv == HierarchyInit => SInv
<1> SUFFICES ASSUME HierarchyInit PROVE SInv
  OBVIOUS
<1>1. HInv
  BY InitHInv
<1>2. DataTyped /\ KeepsLocks
  BY DEF HierarchyInit, DataTyped, KeepsLocks
<1>3. \A u, t \in TxnId : ~Before(u, t)
  BY DEF HierarchyInit, Before, Conflicts
<1>4. EdgesFromDone
  BY <1>3 DEF EdgesFromDone
<1>5. BeforeEdges = {}
  BY <1>3 DEF BeforeEdges
<1>6. Acyclic(BeforeEdges)
  <2> SUFFICES ASSUME NEW c \in Paths, IsCycle({}, c) PROVE FALSE
    BY <1>5 DEF Acyclic
  <2>1. PICK n \in 1 .. Cardinality(TxnId) : c \in [1 .. n -> TxnId]
    BY DEF Paths
  <2>2. Len(c) = n /\ 1 \in 1 .. n
    BY <2>1
  <2> QED
    BY <2>2 DEF IsCycle
<1> QED
  BY <1>1, <1>2, <1>4, <1>6 DEF SInv

\* The invariant holds of every hierarchy, and whatever its transactions access.
THEOREM SerialInvariant == HierarchySpec => []SInv
BY InitSInv, NextSInv, PTL DEF HierarchySpec

\* Two-phase transactions are serializable, however many they are, however they
\* mix row, node and range locks, and whoever of them is halfway through its end.
THEOREM Serializability == HierarchySpec => []Serializable
<1>1. SInv => Serializable
  <2> SUFFICES ASSUME SInv, NEW c \in Paths, IsCycle(precedes, c) PROVE FALSE
    BY DEF Serializable
  <2>1. \A e \in precedes : e \in BeforeEdges
    <3> TAKE e \in precedes
    <3>1. e \in TxnId \X TxnId /\ e = <<e[1], e[2]>>
      BY DEF SInv, DataTyped
    <3> QED
      BY <3>1 DEF Before, BeforeEdges
  <2>2. IsCycle(BeforeEdges, c)
    BY <2>1 DEF IsCycle
  <2> QED
    BY <2>2 DEF SInv, Acyclic
<1> QED
  BY <1>1, SerialInvariant, PTL

\* The types of the hierarchy's state.
THEOREM HierarchyTypeCorrect == HierarchySpec => []HierarchyTypeOK
<1>1. SInv => HierarchyTypeOK
  <2>1. IInv => TypeOK
    BY DEF IInv, LocksInv, IndexInv, RangesInv, RangeIndexInv, SweepInv, GoodLocks,
           GoodRanges, TypeOK
  <2> QED
    BY <2>1 DEF SInv, HInv, Protocol, DataTyped, HierarchyTypeOK
<1> QED
  BY <1>1, SerialInvariant, PTL

=============================================================================
