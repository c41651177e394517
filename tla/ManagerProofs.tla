--------------------------- MODULE ManagerProofs ---------------------------
(***************************************************************************)
(* What holds of the registry and of the detection that reads it, whoever  *)
(* uses the manager: their types, and the victim of a deadlock.            *)
(***************************************************************************)
EXTENDS LockManager, LockTableProofs

-----------------------------------------------------------------------------
(* Cycles. *)

\* A path is a sequence of transactions.
LEMMA PathType ==
  ASSUME NEW c \in Paths
  PROVE  c \in Seq(TxnId) /\ Len(c) \in Nat /\ Len(c) > 0
<1>1. PICK n \in 1 .. Cardinality(TxnId) : c \in [1 .. n -> TxnId]
  BY DEF Paths
<1>2. n \in Nat /\ n > 0
  BY <1>1
<1>3. c \in Seq(TxnId)
  BY <1>1, <1>2
<1>4. Len(c) = n
  BY <1>1, <1>2, <1>3
<1> QED
  BY <1>2, <1>3, <1>4

\* Every cycle that a search returns is one of transactions.
LEMMA CycleType ==
  ASSUME NEW E, NEW R, NEW c \in cycle_from(E, R)
  PROVE  c \in Seq(TxnId)
<1>1. c \in Paths \/ c = <<>>
  BY DEF cycle_from
<1>2. CASE c \in Paths
  BY <1>2, PathType
<1>3. CASE c = <<>>
  <2>1. <<>> \in Seq(TxnId)
    OBVIOUS
  <2> QED
    BY <1>3, <2>1, Zenon
<1> QED
  BY <1>1, <1>2, <1>3

\* A non-empty finite set of numbers has a largest and a smallest member.
LEMMA Extremes ==
  ASSUME NEW T \in SUBSET Nat, IsFiniteSet(T), T # {}
  PROVE  /\ \E v \in T : \A u \in T : u <= v
         /\ \E v \in T : \A u \in T : v <= u
<1> DEFINE Above == {{u \in T : u > v} : v \in T}
           Below == {{u \in T : u < v} : v \in T}
<1>1. IsWellFoundedOn(StrictSubsetOrdering(T), FiniteSubsetsOf(T))
  BY FS_StrictSubsetOrderingWellFounded
<1>2. ASSUME NEW S \in SUBSET T
      PROVE  S \in FiniteSubsetsOf(T)
  BY FS_Subset DEF FiniteSubsetsOf
<1>3. Above \subseteq FiniteSubsetsOf(T) /\ Above # {}
  BY <1>2
<1>4. Below \subseteq FiniteSubsetsOf(T) /\ Below # {}
  BY <1>2
<1>5. PICK A \in Above : \A B \in Above : <<B, A>> \notin StrictSubsetOrdering(T)
  <2> HIDE DEF Above
  <2> QED
    BY <1>1, <1>3, WFMin
<1>6. PICK C \in Below : \A B \in Below : <<B, C>> \notin StrictSubsetOrdering(T)
  <2> HIDE DEF Below
  <2> QED
    BY <1>1, <1>4, WFMin
<1>7. \E v \in T : \A u \in T : u <= v
  <2>1. PICK v \in T : A = {u \in T : u > v}
    OBVIOUS
  <2>2. ASSUME NEW u \in T, u > v
        PROVE  FALSE
    <3>1. PICK B : B = {x \in T : x > u}
      OBVIOUS
    <3>2. B \in Above /\ B \subseteq A /\ B # A
      <4>1. u \in A /\ u \notin B
        BY <2>1, <2>2, <3>1
      <4>2. \A x \in T : x > u => x > v
        <5>1. \A x, y, z \in Nat : x > y /\ y > z => x > z
          OBVIOUS
        <5> QED
          BY <2>2, <5>1
      <4>3. B \subseteq A
        BY <2>1, <3>1, <4>2
      <4> QED
        BY <3>1, <4>1, <4>3
    <3>3. <<B, A>> \in StrictSubsetOrdering(T)
      BY <2>1, <3>1, <3>2 DEF StrictSubsetOrdering
    <3> QED
      BY <1>5, <3>2, <3>3
  <2> QED
    BY <2>2
<1>8. \E v \in T : \A u \in T : v <= u
  <2>1. PICK v \in T : C = {u \in T : u < v}
    OBVIOUS
  <2>2. ASSUME NEW u \in T, u < v
        PROVE  FALSE
    <3>1. PICK B : B = {x \in T : x < u}
      OBVIOUS
    <3>2. B \in Below /\ B \subseteq C /\ B # C
      <4>1. u \in C /\ u \notin B
        BY <2>1, <2>2, <3>1
      <4>2. \A x \in T : x < u => x < v
        <5>1. \A x, y, z \in Nat : x < y /\ y < z => x < z
          OBVIOUS
        <5> QED
          BY <2>2, <5>1
      <4>3. B \subseteq C
        BY <2>1, <3>1, <4>2
      <4> QED
        BY <3>1, <4>1, <4>3
    <3>3. <<B, C>> \in StrictSubsetOrdering(T)
      BY <2>1, <3>1, <3>2 DEF StrictSubsetOrdering
    <3> QED
      BY <1>6, <3>2, <3>3
  <2> QED
    BY <2>2
<1> QED
  BY <1>7, <1>8

\* The victim of a deadlock is one of its members, the youngest or the oldest
\* (pick_victim).
THEOREM VictimMember ==
  ASSUME TxnId \subseteq Nat, NEW c \in Seq(TxnId), c # <<>>, NEW policy
  PROVE  /\ pick_victim(c, policy) \in Elems(c)
         /\ pick_victim(c, policy) \in TxnId
         /\ \A u \in Elems(c) : IF policy = "Youngest" THEN u <= pick_victim(c, policy)
                                ELSE pick_victim(c, policy) <= u
<1>1. Len(c) \in Nat /\ Len(c) > 0 /\ \A i \in 1 .. Len(c) : c[i] \in TxnId
  OBVIOUS
<1>2. Elems(c) = {c[i] : i \in 1 .. Len(c)}
  BY DEF Elems
<1>3. Elems(c) \in SUBSET Nat /\ Elems(c) \subseteq TxnId /\ Elems(c) # {}
  <2>1. Elems(c) \subseteq TxnId
    BY <1>1, <1>2
  <2>2. c[1] \in Elems(c)
    BY <1>1, <1>2
  <2> QED
    BY <2>1, <2>2
<1>4. IsFiniteSet(Elems(c))
  <2>1. IsFiniteSet(1 .. Len(c))
    BY <1>1, FS_Interval
  <2> DEFINE f == [i \in 1 .. Len(c) |-> c[i]]
  <2>2. f \in Surjection(1 .. Len(c), Elems(c))
    BY <1>2 DEF Surjection
  <2> QED
    BY <2>1, <2>2, FS_Surjection
<1>5. \E v \in Elems(c) : \A u \in Elems(c) : IF policy = "Youngest" THEN u <= v ELSE v <= u
  BY <1>3, <1>4, Extremes
<1> QED
  BY <1>3, <1>5 DEF pick_victim

-----------------------------------------------------------------------------
(* The registry and the detection. *)

\* The steps of a detection write the fields they are about.
LEMMA ScanFields ==
  ASSUME NEW R, NEW T, NEW E, NEW c, NEW d,
         d = [pc |-> "scan", roots |-> R, todo |-> T, edges |-> E, cycle |-> c]
  PROVE  /\ \A X, Y : [d EXCEPT !.todo = X, !.edges = Y] =
               [pc |-> "scan", roots |-> R, todo |-> X, edges |-> Y, cycle |-> c]
         /\ \A x : [d EXCEPT !.pc = "done", !.cycle = x] =
               [pc |-> "done", roots |-> R, todo |-> T, edges |-> E, cycle |-> x]
<1>1. ASSUME NEW X, NEW Y
      PROVE  [d EXCEPT !.todo = X, !.edges = Y] =
               [pc |-> "scan", roots |-> R, todo |-> X, edges |-> Y, cycle |-> c]
  <2> DEFINE d1 == [d EXCEPT !.todo = X]
  <2>1. d1 = [pc |-> "scan", roots |-> R, todo |-> X, edges |-> E, cycle |-> c]
    OBVIOUS
  <2>2. [d EXCEPT !.todo = X, !.edges = Y] = [d1 EXCEPT !.edges = Y]
    BY Zenon
  <2> HIDE DEF d1
  <2>3. [d1 EXCEPT !.edges = Y] =
          [pc |-> "scan", roots |-> R, todo |-> X, edges |-> Y, cycle |-> c]
    BY <2>1
  <2> QED
    BY <2>2, <2>3, Zenon
<1>2. ASSUME NEW x
      PROVE  [d EXCEPT !.pc = "done", !.cycle = x] =
               [pc |-> "done", roots |-> R, todo |-> T, edges |-> E, cycle |-> x]
  <2> DEFINE d1 == [d EXCEPT !.pc = "done"]
  <2>1. d1 = [pc |-> "done", roots |-> R, todo |-> T, edges |-> E, cycle |-> c]
    OBVIOUS
  <2>2. [d EXCEPT !.pc = "done", !.cycle = x] = [d1 EXCEPT !.cycle = x]
    BY Zenon
  <2> HIDE DEF d1
  <2>3. [d1 EXCEPT !.cycle = x] =
          [pc |-> "done", roots |-> R, todo |-> T, edges |-> E, cycle |-> x]
    BY <2>1
  <2> QED
    BY <2>2, <2>3, Zenon
<1> QED
  BY <1>1, <1>2, Zenon

\* What is registered, and the state of the call that holds the registry's mutex.
ManagerInv ==
  /\ IsHashMap(waits, TxnId, PointIds \X RequestModes)
  /\ det \in Detection \cup {Free}
  /\ det # Free => det.todo \subseteq DOMAIN waits

\* What the manager does to them, whoever calls it.
ManagerNext ==
  \/ \E t \in TxnId, r \in PointIds, m \in RequestModes :
        request_granted(t, r, m) \/ request_blocked(t, r, m)
  \/ find_deadlock_call
  \/ \E w \in TxnId : ScanWaiter(w)
  \/ DetectCycle
  \/ DetectReturn
  \/ \E t \in TxnId : cancel_wait(t) \/ \E th \in Threads : release_all_call(th, t)
  \/ UNCHANGED <<waits, det>>

\* A detection starts with every waiter still to be visited.
LEMMA ScanStarts ==
  ASSUME NEW old, NEW cur, DOMAIN cur \subseteq TxnId, NEW R \in SUBSET TxnId
  PROVE  scan_from(old, cur, R) \in Detection /\ scan_from(old, cur, R).todo = DOMAIN cur
BY DEF scan_from, Detection

\* The blockers of a request are transactions (holders_blocking).
LEMMA BlockersType ==
  ASSUME IInv, NEW t, NEW r \in PointIds, NEW m
  PROVE  holders_blocking(t, r, m) \subseteq TxnId
<1>1. shard_index[r] \in Shards /\ r \in ResourceId
  BY Arguments
<1>2. GoodLocks(locks[shard_index[r]])
  BY <1>1 DEF IInv, LocksInv
<1>3. PICK h \in Seq(Holder) : h = entry_or_new(locks[shard_index[r]], r)
  BY <1>1, <1>2, EntryGood
<1>4. \A i \in 1 .. Len(h) : h[i].txn \in TxnId
  <2>1. \A i \in 1 .. Len(h) : h[i] \in Holder
    OBVIOUS
  <2> QED
    BY <2>1 DEF Holder
<1> QED
  BY <1>3, <1>4 DEF holders_blocking

\* Every call of the manager keeps the types, and a detection visits nobody whose
\* wait is no longer registered: while it runs the registry does not change.
LEMMA ManagerStep ==
  ASSUME IInv, ManagerInv, ManagerNext
  PROVE  ManagerInv'
<1> DEFINE Pairs == PointIds \X RequestModes
<1>1. IsHashMap(waits, TxnId, Pairs) /\ DOMAIN waits \subseteq TxnId
  BY DEF ManagerInv, IsHashMap
<1>2. ASSUME NEW t \in TxnId
      PROVE  IsHashMap(remove(waits, t), TxnId, Pairs)
  BY <1>1, RemoveType
<1>3. ASSUME NEW t \in TxnId, NEW r \in PointIds, NEW m \in RequestModes,
             request_granted(t, r, m)
      PROVE  ManagerInv'
  <2>1. det = Free /\ det' = Free /\ waits' = remove(waits, t)
    BY <1>3 DEF request_granted
  <2> QED
    BY <1>2, <2>1 DEF ManagerInv
<1>4. ASSUME NEW t \in TxnId, NEW r \in PointIds, NEW m \in RequestModes,
             request_blocked(t, r, m)
      PROVE  ManagerInv'
  <2>1. waits' = insert(waits, t, <<r, m>>) /\ det' = scan_from(waits, waits', {t})
    BY <1>4 DEF request_blocked, registered
  <2>2. <<r, m>> \in Pairs
    OBVIOUS
  <2>3. IsHashMap(waits', TxnId, Pairs)
    BY <1>1, <2>1, <2>2, InsertType
  <2>4. DOMAIN waits' \subseteq TxnId /\ {t} \in SUBSET TxnId
    BY <2>3 DEF IsHashMap
  <2>5. det' \in Detection /\ det'.todo = DOMAIN waits'
    BY <2>1, <2>4, ScanStarts
  <2> QED
    BY <2>3, <2>5 DEF ManagerInv
<1>5. CASE find_deadlock_call
  <2>1. waits' = waits /\ det' = scan_from(waits, waits, DOMAIN waits)
    BY <1>5 DEF find_deadlock_call
  <2>2. det' \in Detection /\ det'.todo = DOMAIN waits
    BY <1>1, <2>1, ScanStarts
  <2> QED
    BY <1>1, <2>1, <2>2 DEF ManagerInv
<1>6. ASSUME det.pc = "scan"
      PROVE  \E R \in SUBSET TxnId, T \in SUBSET TxnId, E \in SUBSET (TxnId \X TxnId),
                c \in Seq(TxnId) :
               /\ det = [pc |-> "scan", roots |-> R, todo |-> T, edges |-> E, cycle |-> c]
               /\ T \subseteq DOMAIN waits
  <2>1. det # Free
    BY <1>6 DEF Free
  <2>2. det \in Detection /\ det.todo \subseteq DOMAIN waits
    BY <2>1 DEF ManagerInv
  <2>3. det = [pc |-> det.pc, roots |-> det.roots, todo |-> det.todo, edges |-> det.edges,
               cycle |-> det.cycle]
        /\ det.roots \in SUBSET TxnId /\ det.todo \in SUBSET TxnId
        /\ det.edges \in SUBSET (TxnId \X TxnId) /\ det.cycle \in Seq(TxnId)
    BY <2>2 DEF Detection
  <2> QED
    BY <1>6, <2>2, <2>3
<1>7. ASSUME NEW w \in TxnId, ScanWaiter(w)
      PROVE  ManagerInv'
  <2>1. det.pc = "scan" /\ w \in det.todo /\ waits' = waits
    BY <1>7 DEF ScanWaiter
  <2>2. PICK R \in SUBSET TxnId, T \in SUBSET TxnId, E \in SUBSET (TxnId \X TxnId),
             c \in Seq(TxnId) :
               /\ det = [pc |-> "scan", roots |-> R, todo |-> T, edges |-> E, cycle |-> c]
               /\ T \subseteq DOMAIN waits
    BY <1>6, <2>1
  <2>3. PICK B : B = {<<w, h>> : h \in holders_blocking(w, waits[w][1], waits[w][2])}
    OBVIOUS
  <2>4. B \in SUBSET (TxnId \X TxnId)
    <3>1. w \in DOMAIN waits
      BY <2>1, <2>2
    <3>2. waits[w][1] \in PointIds
      BY <1>1, <3>1 DEF IsHashMap
    <3>3. holders_blocking(w, waits[w][1], waits[w][2]) \subseteq TxnId
      BY <3>2, BlockersType
    <3> QED
      BY <2>3, <3>3
  <2>5. det' = [det EXCEPT !.todo = det.todo \ {w}, !.edges = det.edges \cup B]
    BY <1>7, <2>3 DEF ScanWaiter
  <2>6. det' = [pc |-> "scan", roots |-> R, todo |-> T \ {w}, edges |-> E \cup B, cycle |-> c]
    BY <2>2, <2>5, ScanFields
  <2>7. T \ {w} \in SUBSET TxnId /\ E \cup B \in SUBSET (TxnId \X TxnId)
    BY <2>4
  <2>8. det' \in Detection /\ det'.todo \subseteq DOMAIN waits
    BY <2>2, <2>6, <2>7 DEF Detection
  <2> QED
    BY <1>1, <2>1, <2>8 DEF ManagerInv
<1>8. CASE DetectCycle
  <2>1. det.pc = "scan" /\ waits' = waits
    BY <1>8 DEF DetectCycle
  <2>2. PICK R \in SUBSET TxnId, T \in SUBSET TxnId, E \in SUBSET (TxnId \X TxnId),
             c \in Seq(TxnId) :
               /\ det = [pc |-> "scan", roots |-> R, todo |-> T, edges |-> E, cycle |-> c]
               /\ T \subseteq DOMAIN waits
    BY <1>6, <2>1
  <2>3. PICK x : x \in cycle_from(det.edges, det.roots)
                 /\ det' = [det EXCEPT !.pc = "done", !.cycle = x]
    BY <1>8 DEF DetectCycle
  <2>4. x \in Seq(TxnId)
    BY <2>3, CycleType
  <2>5. det' = [pc |-> "done", roots |-> R, todo |-> T, edges |-> E, cycle |-> x]
    BY <2>2, <2>3, ScanFields
  <2>6. det' \in Detection /\ det'.todo \subseteq DOMAIN waits
    BY <2>2, <2>4, <2>5 DEF Detection
  <2> QED
    BY <1>1, <2>1, <2>6 DEF ManagerInv
<1>9. CASE DetectReturn
  BY <1>1, <1>9 DEF DetectReturn, ManagerInv
<1>10. ASSUME NEW t \in TxnId, cancel_wait(t) \/ \E th \in Threads : release_all_call(th, t)
       PROVE  ManagerInv'
  <2>1. det = Free /\ det' = Free /\ waits' = remove(waits, t)
    BY <1>10 DEF cancel_wait, release_all_call, wait_cleared
  <2> QED
    BY <1>2, <2>1 DEF ManagerInv
<1>11. CASE UNCHANGED <<waits, det>>
  BY <1>11 DEF ManagerInv
<1> QED
  BY <1>3, <1>4, <1>5, <1>7, <1>8, <1>9, <1>10, <1>11 DEF ManagerNext

\* The registry starts empty.
LEMMA InitManagerInv == ManagerInit => ManagerInv
BY EmptyMapType DEF ManagerInit, ManagerInv, Free

\* With the table's invariant the manager's state has the types of its structs.
LEMMA ManagerTyped == IInv /\ ManagerInv => ManagerTypeOK
<1> SUFFICES ASSUME IInv, ManagerInv PROVE ManagerTypeOK
  OBVIOUS
<1>1. TypeOK
  BY TypedTable
<1>2. IsHashMap(waits, TxnId, ResourceId \X LockModes)
  BY TableAssumption DEF ManagerInv, IsHashMap
<1> QED
  BY <1>1, <1>2 DEF ManagerInv, ManagerTypeOK

=============================================================================
