------------------------- MODULE LockClientsProofs -------------------------
(***************************************************************************)
(* The manager under its clients, for every number of transactions,        *)
(* resources, shards and threads: the table stays safe, the registry lists *)
(* exactly the suspended transactions and the strays, a reported cycle     *)
(* without a stray was a deadlock when its detection began and is undone   *)
(* by nothing but a release_all that was running then, although the graph  *)
(* was read shard by shard while others went on, and no deadlock goes      *)
(* unnoticed.                                                              *)
(***************************************************************************)
EXTENDS LockClients, ManagerProofs

-----------------------------------------------------------------------------
(* The inductive invariant. *)

SuspendedStatus == {"asking", "waiting"}

RegistryInv ==
  /\ status \in [TxnId -> {"running", "asking", "waiting", "stray"}]
  /\ IsHashMap(waits, TxnId, PointIds \X RequestModes)
  /\ RegistryExact

\* The fields of the call that holds the registry's mutex.
DetectionType ==
  \/ det = Free
  \/ \E R, T, E, c :
       /\ det = [pc |-> "scan", roots |-> R, todo |-> T, edges |-> E, cycle |-> c]
       /\ T \subseteq DOMAIN waits
  \/ \E R, T, E, c :
       det = [pc |-> "done", roots |-> R, todo |-> T, edges |-> E, cycle |-> c]

\* Since the detection began nobody has come to wait for a suspended transaction,
\* and no release_all has begun.
BegunInv ==
  /\ begun \in [graph : SUBSET (TxnId \X TxnId), released : SUBSET TxnId]
  /\ det # Free => WaitsFor \subseteq begun.graph /\ BeingReleased \subseteq begun.released

\* What is known of an edge read: between suspended transactions it was there when
\* the detection began, and it still is unless its holder is being released.
Genuine(e) ==
  /\ e \in TxnId \X TxnId
  /\ e[1] \in DOMAIN waits
  /\ (status[e[1]] \in SuspendedStatus /\ status[e[2]] \in SuspendedStatus) =>
       /\ e \in begun.graph
       /\ e \in WaitsFor \/ e[2] \in begun.released

EdgesGenuine == det # Free => \A e \in det.edges : Genuine(e)

CycleFound ==
  det.pc = "done" /\ det.cycle # <<>> => IsCycle(det.edges, det.cycle)

CInv == IInv /\ RegistryInv /\ DetectionType /\ BegunInv /\ EdgesGenuine /\ CycleFound

-----------------------------------------------------------------------------
(* The clients' calls are calls of the table. *)

\* What t may want is a resource of the table, in a mode it knows.
LEMMA WantsType ==
  ASSUME NEW w \in Wants
  PROVE  w[1] \in TxnId /\ w[2] \in PointIds /\ w[3] \in RequestModes
BY ClientAssumption

\* What a registered transaction waits for is a resource of the table (waits).
LEMMA WaitsType ==
  ASSUME RegistryInv, NEW t \in DOMAIN waits
  PROVE  t \in TxnId /\ waits[t][1] \in PointIds /\ waits[t][2] \in RequestModes
<1>1. t \in TxnId /\ waits[t] \in PointIds \X RequestModes
  BY DEF RegistryInv, IsHashMap
<1> QED
  BY <1>1

\* request tries exactly as try_acquire does, whatever comes of it.
LEMMA RequestTries ==
  ASSUME NEW t, NEW r, NEW m, request_granted(t, r, m) \/ request_blocked(t, r, m)
  PROVE  try_acquire(t, r, m)
BY DEF request_granted, request_blocked, try_acquire

\* No step of the clients does to the table what TableNext does not.
LEMMA ClientsUseTable ==
  ASSUME RegistryInv, [Next]_vars
  PROVE  [TableNext]_tableVars
<1>1. ASSUME NEW w \in Wants,
             AskGranted(w[1], w[2], w[3]) \/ AskBlocked(w[1], w[2], w[3])
               \/ TryAcquire(w[1], w[2], w[3])
      PROVE  TableNext
  <2>1. w[1] \in TxnId /\ w[2] \in PointIds /\ w[3] \in RequestModes
    BY <1>1, WantsType
  <2>2. try_acquire(w[1], w[2], w[3])
    BY <1>1, RequestTries DEF AskGranted, AskBlocked, TryAcquire, TableOnly
  <2> QED
    BY <2>1, <2>2 DEF TableNext
<1>2. ASSUME NEW t \in TxnId, NEW r \in PointIds, Release(t, r)
      PROVE  TableNext
  BY <1>2 DEF Release, TableOnly, TableNext
<1>3. ASSUME NEW t \in TxnId, Poll(t)
      PROVE  TableNext
  <2>1. waits[t][1] \in PointIds /\ waits[t][2] \in RequestModes
    BY <1>3, WaitsType DEF Poll
  <2>2. try_acquire(t, waits[t][1], waits[t][2])
    BY <1>3 DEF Poll, TableOnly
  <2> QED
    BY <2>1, <2>2 DEF TableNext
<1>4. ASSUME NEW t \in TxnId, Cancel(t)
      PROVE  UNCHANGED tableVars
  BY <1>4 DEF Cancel, cancel_wait
<1>5. ASSUME NEW th \in Threads, NEW t \in TxnId, ReleaseAll(th, t)
      PROVE  TableNext
  BY <1>5 DEF ReleaseAll, release_all_call, TableNext
<1>6. ASSUME NEW th \in Threads, Sweeping(th)
      PROVE  TableNext
  BY <1>6 DEF Sweeping, release_all_step, TableOnly, TableNext
<1>7. CASE FindDeadlock \/ Detect \/ Answer
  BY <1>7 DEF FindDeadlock, find_deadlock_call, Detect, DetectCycle, ScanWaiter, Answer,
              DetectReturn
<1>8. CASE UNCHANGED vars
  BY <1>8 DEF vars, managerVars
<1> QED
  BY <1>1, <1>2, <1>3, <1>4, <1>5, <1>6, <1>7, <1>8 DEF Next
-----------------------------------------------------------------------------
(* The registry. *)

\* A change of the status of t alone, and of its registration with it, keeps the
\* registry exact (request, cancel_wait, release_all).
LEMMA RegistryChange ==
  ASSUME RegistryInv, NEW t \in TxnId,
         NEW st \in {"running", "asking", "waiting", "stray"},
         status' = [status EXCEPT ![t] = st],
         \/ waits' = remove(waits, t) /\ st = "running"
         \/ /\ st = "asking"
            /\ \E r \in PointIds, m \in RequestModes : waits' = insert(waits, t, <<r, m>>)
         \/ waits' = waits /\ t \in DOMAIN waits /\ st = "stray"
  PROVE  RegistryInv'
<1>1. status' \in [TxnId -> {"running", "asking", "waiting", "stray"}]
  BY DEF RegistryInv
<1>2. IsHashMap(waits', TxnId, PointIds \X RequestModes)
  <2>1. IsHashMap(waits, TxnId, PointIds \X RequestModes)
    BY DEF RegistryInv
  <2>2. CASE waits' = remove(waits, t)
    BY <2>1, <2>2, RemoveType
  <2>3. ASSUME NEW r \in PointIds, NEW m \in RequestModes, waits' = insert(waits, t, <<r, m>>)
        PROVE  IsHashMap(waits', TxnId, PointIds \X RequestModes)
    <3>1. <<r, m>> \in PointIds \X RequestModes
      OBVIOUS
    <3>2. IsHashMap(insert(waits, t, <<r, m>>), TxnId, PointIds \X RequestModes)
      BY <2>1, <3>1, InsertType
    <3> QED
      BY <2>3, <3>2
  <2> QED
    BY <2>1, <2>2, <2>3
<1>3. RegistryExact'
  <2>1. DOMAIN waits = {u \in TxnId : status[u] \in {"asking", "waiting", "stray"}}
    BY DEF RegistryInv, RegistryExact
  <2>2. \A u \in TxnId : status'[u] = IF u = t THEN st ELSE status[u]
    BY DEF RegistryInv
  <2>3. DOMAIN waits' = IF st \in {"asking", "stray"} THEN DOMAIN waits \cup {t}
                        ELSE DOMAIN waits \ {t}
    BY DEF remove, insert
  <2>4. DOMAIN waits' = {u \in TxnId : status'[u] \in {"asking", "waiting", "stray"}}
    BY <2>1, <2>2, <2>3
  <2> QED
    BY <2>4 DEF RegistryExact
<1> QED
  BY <1>1, <1>2, <1>3 DEF RegistryInv

\* Every step keeps the registry exact.
LEMMA NextRegistry ==
  ASSUME RegistryInv, [Next]_vars
  PROVE  RegistryInv'
<1>1. ASSUME NEW w \in Wants, AskGranted(w[1], w[2], w[3])
      PROVE  RegistryInv'
  <2>1. w[1] \in TxnId
    BY WantsType
  <2>2. status' = [status EXCEPT ![w[1]] = "running"] /\ waits' = remove(waits, w[1])
    BY <1>1 DEF AskGranted, request_granted
  <2> QED
    BY <2>1, <2>2, RegistryChange
<1>2. ASSUME NEW w \in Wants, AskBlocked(w[1], w[2], w[3])
      PROVE  RegistryInv'
  <2>1. w[1] \in TxnId /\ w[2] \in PointIds /\ w[3] \in RequestModes
    BY WantsType
  <2>2. /\ status' = [status EXCEPT ![w[1]] = "asking"]
        /\ waits' = insert(waits, w[1], <<w[2], w[3]>>)
    BY <1>2 DEF AskBlocked, request_blocked, registered
  <2> QED
    BY <2>1, <2>2, RegistryChange
<1>3. ASSUME NEW t \in TxnId, Poll(t)
      PROVE  RegistryInv'
  <2>1. status' = [status EXCEPT ![t] = "stray"] /\ waits' = waits /\ t \in DOMAIN waits
    BY <1>3 DEF Poll, TableOnly
  <2> QED
    BY <2>1, RegistryChange
<1>4. ASSUME NEW t \in TxnId, Cancel(t) \/ \E th \in Threads : ReleaseAll(th, t)
      PROVE  RegistryInv'
  <2>1. status' = [status EXCEPT ![t] = "running"] /\ waits' = remove(waits, t)
    BY <1>4 DEF Cancel, cancel_wait, ReleaseAll, release_all_call, wait_cleared
  <2> QED
    BY <2>1, RegistryChange
<1>5. CASE Answer
  <2>1. /\ status' = [t \in TxnId |-> IF status[t] = "asking" THEN "waiting" ELSE status[t]]
        /\ waits' = waits
    BY <1>5 DEF Answer, DetectReturn
  <2>2. status' \in [TxnId -> {"running", "asking", "waiting", "stray"}]
    BY <2>1 DEF RegistryInv
  <2>3. RegistryExact'
    BY <2>1 DEF RegistryInv, RegistryExact
  <2> QED
    BY <2>1, <2>2, <2>3 DEF RegistryInv
<1>6. CASE UNCHANGED <<status, waits>>
  BY <1>6 DEF RegistryInv, RegistryExact
<1>7. ASSUME NEW t, NEW r, NEW m, TryAcquire(t, r, m) \/ Release(t, r)
      PROVE  UNCHANGED <<status, waits>>
  BY <1>7 DEF TryAcquire, Release, TableOnly, clientVars
<1>8. ASSUME NEW th \in Threads, Sweeping(th)
      PROVE  UNCHANGED <<status, waits>>
  BY <1>8 DEF Sweeping, release_all_step, TableOnly, clientVars
<1>9. CASE FindDeadlock \/ Detect \/ UNCHANGED vars
  BY <1>6, <1>9 DEF FindDeadlock, find_deadlock_call, Detect, DetectCycle, ScanWaiter,
                    clientVars, vars, managerVars
<1> QED
  BY <1>1, <1>2, <1>3, <1>4, <1>5, <1>6, <1>7, <1>8, <1>9 DEF Next

-----------------------------------------------------------------------------
(* The wait-for graph. *)

\* The holders of a vector that block a request of w.
BlockersIn(v, w, m) ==
  {v[i].txn : i \in {j \in 1 .. Len(v) :
     v[j].txn # w /\ ~compatible_with(v[j].mode, m)}}

\* Who blocks a request is a matter of the modes held on the resource alone, not
\* of the order of its holders (holders_blocking).
LEMMA BlockingModes ==
  ASSUME NEW v, NEW w, NEW h, NEW m
  PROVE  h \in BlockersIn(v, w, m)
           <=> h # w /\ \E c \in ModesOfVector(v, h) : ~compatible_with(c, m)
BY DEF BlockersIn, ModesOfVector, Positions

\* h is suspended before a step, which leaves its registration alone, and its locks
\* too unless it is being released; and then they only become fewer.
Stays(h) ==
  /\ status[h] \in SuspendedStatus
  /\ h \in DOMAIN waits /\ h \in DOMAIN waits' /\ waits'[h] = waits[h]
  /\ \A x \in ResourceId : /\ ModesOf(h, x)' \subseteq ModesOf(h, x)
                           /\ h \notin BeingReleased => ModesOf(h, x)' = ModesOf(h, x)

\* Whoever goes on changes only registrations of its own, and locks of its own or
\* of a transaction it releases, so that after a step the suspended transactions are
\* those that were before, but for the one whose request has just been refused.
LEMMA SuspendedStay ==
  ASSUME IInv, RegistryInv, Next, NEW h \in TxnId, status'[h] \in SuspendedStatus
  PROVE  Stays(h) \/ \E w \in Wants : w[1] = h /\ AskBlocked(w[1], w[2], w[3])
<1>0. status[h] \in SuspendedStatus => h \in DOMAIN waits
  BY DEF RegistryInv, RegistryExact, SuspendedStatus
<1>1. ASSUME NEW w \in Wants, \/ AskGranted(w[1], w[2], w[3])
                              \/ AskBlocked(w[1], w[2], w[3])
                              \/ TryAcquire(w[1], w[2], w[3])
      PROVE  Stays(h) \/ (w[1] = h /\ AskBlocked(w[1], w[2], w[3]))
  <2> PICK t \in TxnId, r \in PointIds, m \in RequestModes : t = w[1] /\ r = w[2] /\ m = w[3]
    BY WantsType
  <2>1. try_acquire(t, r, m)
    BY <1>1, RequestTries DEF AskGranted, AskBlocked, TryAcquire, TableOnly
  <2>2. h # t => \A x \in ResourceId : ModesOf(h, x)' = ModesOf(h, x)
    BY <2>1, TryAcquireModes
  <2>3. CASE AskGranted(t, r, m)
    <3>1. status' = [status EXCEPT ![t] = "running"] /\ waits' = remove(waits, t)
      BY <2>3 DEF AskGranted, request_granted
    <3>2. h # t /\ status[h] \in SuspendedStatus
      BY <3>1 DEF RegistryInv, SuspendedStatus
    <3> QED
      BY <1>0, <2>2, <3>1, <3>2 DEF Stays, remove
  <2>4. CASE AskBlocked(t, r, m) /\ h # t
    <3>1. status' = [status EXCEPT ![t] = "asking"] /\ waits' = insert(waits, t, <<r, m>>)
      BY <2>4 DEF AskBlocked, request_blocked, registered
    <3>2. status[h] \in SuspendedStatus
      BY <2>4, <3>1 DEF RegistryInv, SuspendedStatus
    <3> QED
      BY <1>0, <2>2, <2>4, <3>1, <3>2 DEF Stays, insert
  <2>5. CASE TryAcquire(t, r, m)
    <3>1. Running(t) /\ UNCHANGED <<waits, status>>
      BY <2>5 DEF TryAcquire, TableOnly, clientVars
    <3>2. h # t
      BY <3>1 DEF Running, SuspendedStatus
    <3> QED
      BY <1>0, <2>2, <3>1, <3>2 DEF Stays
  <2> QED
    BY <1>1, <2>3, <2>4, <2>5
<1>2. ASSUME NEW t \in TxnId, NEW r \in PointIds, Release(t, r)
      PROVE  Stays(h)
  <2>1. release(t, r) /\ Running(t) /\ UNCHANGED <<waits, status>>
    BY <1>2 DEF Release, TableOnly, clientVars
  <2>2. h # t
    BY <2>1 DEF Running, SuspendedStatus
  <2>3. ASSUME NEW x \in ResourceId
        PROVE  ModesOf(h, x)' = ModesOf(h, x)
    BY <2>1, <2>2, ReleaseModes DEF ModesOf
  <2> QED
    BY <1>0, <2>1, <2>3 DEF Stays
<1>3. ASSUME NEW t \in TxnId, Poll(t)
      PROVE  Stays(h)
  <2> PICK r \in PointIds, m \in RequestModes : r = waits[t][1] /\ m = waits[t][2]
    BY <1>3, WaitsType DEF Poll
  <2>1. /\ try_acquire(t, r, m) /\ waits' = waits
        /\ status' = [status EXCEPT ![t] = "stray"]
    BY <1>3 DEF Poll, TableOnly
  <2>2. h # t /\ status[h] \in SuspendedStatus
    BY <2>1 DEF RegistryInv, SuspendedStatus
  <2>3. \A x \in ResourceId : ModesOf(h, x)' = ModesOf(h, x)
    BY <2>1, <2>2, TryAcquireModes
  <2> QED
    BY <1>0, <2>1, <2>2, <2>3 DEF Stays
<1>4. ASSUME NEW th \in Threads, Sweeping(th)
      PROVE  Stays(h)
  <2>1. ReleaseAllStep(th) /\ UNCHANGED <<waits, status>>
    BY <1>4 DEF Sweeping, release_all_step, TableOnly, clientVars
  <2>2. sweep[th].txn \in BeingReleased
    BY <2>1, SweepStep DEF BeingReleased
  <2> PICK t : t = sweep[th].txn
    OBVIOUS
  <2>3. ASSUME NEW x \in ResourceId
        PROVE  /\ ModesOf(h, x)' \subseteq ModesOf(h, x)
               /\ h # t => ModesOf(h, x)' = ModesOf(h, x)
    BY <2>1, ReleaseAllModes DEF ModesOf
  <2> QED
    BY <1>0, <2>1, <2>2, <2>3 DEF Stays
<1>5. ASSUME NEW t \in TxnId, Cancel(t) \/ \E th \in Threads : ReleaseAll(th, t)
      PROVE  Stays(h)
  <2>1. /\ locks' = locks /\ waits' = remove(waits, t)
        /\ status' = [status EXCEPT ![t] = "running"]
    BY <1>5 DEF Cancel, cancel_wait, tableVars, ReleaseAll, release_all_call, wait_cleared,
                ReleaseAllCall
  <2>2. h # t /\ status[h] \in SuspendedStatus
    BY <2>1 DEF RegistryInv, SuspendedStatus
  <2> QED
    BY <1>0, <2>1, <2>2 DEF Stays, remove, ModesOf
<1>6. CASE FindDeadlock \/ Detect \/ Answer
  <2>1. locks' = locks /\ waits' = waits
    BY <1>6 DEF FindDeadlock, find_deadlock_call, Detect, DetectCycle, ScanWaiter, Answer,
                DetectReturn, tableVars
  <2>2. status[h] \in SuspendedStatus
    BY <1>6 DEF FindDeadlock, Detect, Answer, clientVars, SuspendedStatus
  <2> QED
    BY <1>0, <2>1, <2>2 DEF Stays, ModesOf
<1> QED
  BY <1>1, <1>2, <1>3, <1>4, <1>5, <1>6 DEF Next

\* Who blocks the waiter w after a step did so before it, and does so after it who
\* did so before it and is not being released, as long as both stay suspended.
LEMMA BlockerStays ==
  ASSUME RegistryInv, NEW w, NEW h, w \in DOMAIN waits, w \in DOMAIN waits',
         waits'[w] = waits[w], Stays(h)
  PROVE  /\ h \in holders_blocking(w, waits[w][1], waits[w][2])'
              => h \in holders_blocking(w, waits[w][1], waits[w][2])
         /\ (h \in holders_blocking(w, waits[w][1], waits[w][2]) /\ h \notin BeingReleased)
              => h \in holders_blocking(w, waits[w][1], waits[w][2])'
<1> PICK r \in ResourceId, m \in RequestModes : r = waits[w][1] /\ m = waits[w][2]
  BY WaitsType, Arguments
<1> PICK v, n : /\ v = entry_or_new(locks[shard_index[r]], r)
                /\ n = entry_or_new(locks'[shard_index[r]], r)
  OBVIOUS
<1>1. ModesOf(h, r) = ModesOfVector(v, h)
  BY DEF ModesOf, ModesIn, ModesOfVector
<1>2. ModesOf(h, r)' = ModesOfVector(n, h)
  BY DEF ModesOf, ModesIn, ModesOfVector
<1>3. /\ ModesOfVector(n, h) \subseteq ModesOfVector(v, h)
      /\ h \notin BeingReleased => ModesOfVector(n, h) = ModesOfVector(v, h)
  BY <1>1, <1>2 DEF Stays
<1>4. /\ h \in BlockersIn(n, w, m) => h \in BlockersIn(v, w, m)
      /\ (h \in BlockersIn(v, w, m) /\ h \notin BeingReleased) => h \in BlockersIn(n, w, m)
  BY <1>3, BlockingModes
<1>5. holders_blocking(w, waits[w][1], waits[w][2]) = BlockersIn(v, w, m)
  BY DEF holders_blocking, BlockersIn
<1>6. holders_blocking(w, waits[w][1], waits[w][2])' = BlockersIn(n, w, m)
  BY DEF holders_blocking, BlockersIn
<1> QED
  BY <1>4, <1>5, <1>6

\* An edge between transactions that stay suspended was one before the step, and
\* one before the step remains unless the transaction it leads to is being released.
LEMMA EdgeStays ==
  ASSUME RegistryInv, NEW w \in TxnId, NEW h \in TxnId, Stays(w), Stays(h),
         status'[w] \in SuspendedStatus, status'[h] \in SuspendedStatus
  PROVE  /\ <<w, h>> \in WaitsFor' => <<w, h>> \in WaitsFor
         /\ <<w, h>> \in WaitsFor /\ h \notin BeingReleased => <<w, h>> \in WaitsFor'
<1>1. /\ status[w] \in SuspendedStatus /\ status[h] \in SuspendedStatus
      /\ w \in DOMAIN waits /\ w \in DOMAIN waits' /\ waits'[w] = waits[w]
      /\ h \in DOMAIN waits /\ h \in DOMAIN waits'
  BY DEF Stays
<1>2. <<w, h>> \in WaitsFor <=> h \in holders_blocking(w, waits[w][1], waits[w][2])
  BY <1>1 DEF WaitsFor, Suspended, SuspendedStatus
<1>3. <<w, h>> \in WaitsFor' <=> h \in holders_blocking(w, waits[w][1], waits[w][2])'
  BY <1>1 DEF WaitsFor, Suspended, SuspendedStatus
<1> QED
  BY <1>1, <1>2, <1>3, BlockerStays

-----------------------------------------------------------------------------
(* Detection. *)

\* Nobody gets at the registry while a detection runs, and no release_all begins.
LEMMA OthersMove ==
  ASSUME Next, det # Free, det' = det
  PROVE  /\ waits' = waits /\ begun' = begun
         /\ sweep' = sweep \/ \E th \in Threads : Sweeping(th)
         /\ \A w \in Wants : ~AskBlocked(w[1], w[2], w[3])
<1>1. ASSUME NEW w \in Wants
      PROVE  /\ ~AskGranted(w[1], w[2], w[3]) /\ ~AskBlocked(w[1], w[2], w[3])
             /\ TryAcquire(w[1], w[2], w[3]) => UNCHANGED <<waits, begun, sweep>>
  BY DEF AskGranted, request_granted, AskBlocked, request_blocked, TryAcquire, TableOnly,
         try_acquire, clientVars
<1>2. ASSUME NEW t \in TxnId
      PROVE  /\ ~Cancel(t) /\ \A th \in Threads : ~ReleaseAll(th, t)
             /\ Poll(t) => UNCHANGED <<waits, begun, sweep>>
             /\ \A r \in PointIds : Release(t, r) => UNCHANGED <<waits, begun, sweep>>
  BY DEF Cancel, cancel_wait, ReleaseAll, release_all_call, Poll, Release, TableOnly,
         try_acquire, release, clientVars
<1>3. ASSUME NEW th \in Threads, Sweeping(th)
      PROVE  UNCHANGED <<waits, begun>>
  BY <1>3 DEF Sweeping, release_all_step, TableOnly, clientVars
<1>4. ~FindDeadlock /\ ~Answer
  BY DEF FindDeadlock, find_deadlock_call, Answer, DetectReturn
<1>5. Detect => UNCHANGED <<waits, begun, sweep>>
  BY DEF Detect, DetectCycle, ScanWaiter, tableVars, clientVars
<1> QED
  BY <1>1, <1>2, <1>3, <1>4, <1>5 DEF Next

\* What a step may be to the call that holds the registry's mutex.
LEMMA DetectionMoves ==
  ASSUME Next
  PROVE  \/ det = Free /\ det' = Free /\ begun' = begun
         \/ \E w \in Wants : AskBlocked(w[1], w[2], w[3])
         \/ FindDeadlock
         \/ det # Free /\ det' = det
         \/ Detect
         \/ Answer
<1>1. ASSUME NEW w \in Wants, AskGranted(w[1], w[2], w[3])
      PROVE  det = Free /\ det' = Free /\ begun' = begun
  BY <1>1 DEF AskGranted, request_granted
<1>2. ASSUME NEW t \in TxnId, Cancel(t) \/ \E th \in Threads : ReleaseAll(th, t)
      PROVE  det = Free /\ det' = Free /\ begun' = begun
  BY <1>2 DEF Cancel, cancel_wait, ReleaseAll, release_all_call
<1>3. ASSUME NEW w \in Wants, TryAcquire(w[1], w[2], w[3])
      PROVE  det' = det /\ begun' = begun
  BY <1>3 DEF TryAcquire, TableOnly, clientVars
<1>4. ASSUME NEW t \in TxnId, Poll(t) \/ \E r \in PointIds : Release(t, r)
      PROVE  det' = det /\ begun' = begun
  BY <1>4 DEF Poll, Release, TableOnly, clientVars
<1>5. ASSUME NEW th \in Threads, Sweeping(th)
      PROVE  det' = det /\ begun' = begun
  BY <1>5 DEF Sweeping, release_all_step, TableOnly, clientVars
<1> QED
  BY <1>1, <1>2, <1>3, <1>4, <1>5 DEF Next

\* The true graph and the releases as they stand after a step are of their types.
LEMMA BegunType ==
  ASSUME IInv'
  PROVE  /\ WaitsFor' \in SUBSET (TxnId \X TxnId)
         /\ BeingReleased' \in SUBSET TxnId
<1>1. \A th \in Threads : sweep'[th] # Idle => sweep'[th].txn \in TxnId
  BY DEF IInv, SweepInv, Sweep
<1> QED
  BY <1>1 DEF WaitsFor, BeingReleased

\* While a detection runs, no edge is added between suspended transactions and no
\* release_all to those in progress.
LEMMA NextBegun ==
  ASSUME CInv, Next, IInv', RegistryInv'
  PROVE  BegunInv'
<1> DEFINE Type == [graph : SUBSET (TxnId \X TxnId), released : SUBSET TxnId]
<1>1. ASSUME Begins
      PROVE  BegunInv'
  <2> PICK G \in SUBSET (TxnId \X TxnId), D \in SUBSET TxnId : G = WaitsFor' /\ D = BeingReleased'
    BY BegunType
  <2>1. begun' = [graph |-> G, released |-> D]
    BY <1>1 DEF Begins
  <2> QED
    BY <2>1 DEF BegunInv
<1>2. ASSUME begun' \in {begun, NoDetection}, det' = Free
      PROVE  BegunInv'
  BY <1>2 DEF CInv, BegunInv, NoDetection
<1>3. CASE det # Free /\ det' = det
  <2>1. /\ begun' = begun
        /\ sweep' = sweep \/ \E th \in Threads : Sweeping(th)
        /\ \A w \in Wants : ~AskBlocked(w[1], w[2], w[3])
    BY <1>3, OthersMove
  <2>2. WaitsFor' \subseteq WaitsFor
    <3> SUFFICES ASSUME NEW w \in TxnId, NEW h \in TxnId, <<w, h>> \in WaitsFor'
                 PROVE  <<w, h>> \in WaitsFor
      BY DEF WaitsFor
    <3>1. status'[w] \in SuspendedStatus /\ status'[h] \in SuspendedStatus
      BY DEF WaitsFor, Suspended, SuspendedStatus
    <3>2. Stays(w) /\ Stays(h)
      BY <2>1, <3>1, SuspendedStay DEF CInv
    <3> QED
      BY <3>1, <3>2, EdgeStays DEF CInv
  <2>3. BeingReleased' \subseteq BeingReleased
    <3>1. CASE sweep' = sweep
      BY <3>1 DEF BeingReleased
    <3>2. ASSUME NEW th \in Threads, Sweeping(th)
          PROVE  BeingReleased' \subseteq BeingReleased
      <4>1. /\ sweep[th] # Idle
            /\ \A o \in Threads : o # th => sweep'[o] = sweep[o]
            /\ sweep'[th] # Idle => sweep'[th].txn = sweep[th].txn
        BY <3>2, SweepStep DEF Sweeping, release_all_step, TableOnly, CInv
      <4> QED
        BY <4>1 DEF BeingReleased
    <3> QED
      BY <2>1, <3>1, <3>2
  <2> QED
    BY <1>3, <2>1, <2>2, <2>3 DEF CInv, BegunInv
<1>4. CASE Detect
  <2>1. UNCHANGED <<locks, sweep, waits, status, begun>>
    BY <1>4 DEF Detect, DetectCycle, ScanWaiter, tableVars, clientVars
  <2>2. WaitsFor' = WaitsFor /\ BeingReleased' = BeingReleased
    BY <2>1 DEF WaitsFor, Suspended, holders_blocking, BeingReleased
  <2>3. det # Free
    <3>1. det.pc = "scan"
      BY <1>4, Zenon DEF Detect, DetectCycle, ScanWaiter
    <3> QED
      BY <3>1 DEF Free
  <2> QED
    BY <2>1, <2>2, <2>3 DEF CInv, BegunInv
<1>5. ASSUME NEW w \in Wants, AskBlocked(w[1], w[2], w[3])
      PROVE  Begins
  BY <1>5 DEF AskBlocked
<1>6. FindDeadlock => Begins
  BY DEF FindDeadlock
<1>7. Answer => det' = Free /\ begun' = NoDetection
  BY DEF Answer, DetectReturn
<1> QED
  BY <1>1, <1>2, <1>3, <1>4, <1>5, <1>6, <1>7, DetectionMoves

\* A step that leaves the table, the registry and the clients alone leaves what is
\* known of an edge.
LEMMA GenuineKept ==
  ASSUME UNCHANGED <<locks, waits, status, begun>>, NEW e, Genuine(e)
  PROVE  Genuine(e)'
<1>1. WaitsFor' = WaitsFor
  BY DEF WaitsFor, Suspended, holders_blocking
<1> QED
  BY <1>1 DEF Genuine

\* The next waiter's blockers are read under the lock of the shard: at that moment
\* each of them does hold what it waits for (build_wait_graph).
LEMMA ScanStep ==
  ASSUME CInv, NEW w \in TxnId, ScanWaiter(w), UNCHANGED <<status, locks, begun>>
  PROVE  DetectionType' /\ EdgesGenuine' /\ CycleFound'
<1> DEFINE B == holders_blocking(w, waits[w][1], waits[w][2])
<1>1. PICK R, T, E, c :
         /\ det = [pc |-> "scan", roots |-> R, todo |-> T, edges |-> E, cycle |-> c]
         /\ T \subseteq DOMAIN waits
  BY DEF CInv, DetectionType, ScanWaiter, Free
<1>2. det' = [det EXCEPT !.todo = det.todo \ {w},
                         !.edges = det.edges \cup {<<w, h>> : h \in B}]
  BY DEF ScanWaiter
<1>3. w \in T /\ w \in DOMAIN waits /\ waits' = waits /\ det.todo = T /\ det.edges = E
  BY <1>1 DEF ScanWaiter
<1>4. B \subseteq TxnId
  <2>1. waits[w][1] \in PointIds
    BY <1>3, WaitsType DEF CInv
  <2>2. entry_or_new(locks[shard_index[waits[w][1]]], waits[w][1]) \in Seq(Holder)
    BY <2>1, Arguments, EntryGood DEF CInv, IInv, LocksInv
  <2> DEFINE h == entry_or_new(locks[shard_index[waits[w][1]]], waits[w][1])
  <2> HIDE DEF h
  <2>3. \A i \in 1 .. Len(h) : h[i].txn \in TxnId
    <3>1. h \in Seq(Holder)
      BY <2>2 DEF h
    <3>2. \A i \in 1 .. Len(h) : h[i] \in Holder
      BY <3>1
    <3> QED
      BY <3>2 DEF Holder
  <2>4. B \subseteq {h[i].txn : i \in 1 .. Len(h)}
    BY DEF holders_blocking, h
  <2> HIDE DEF B
  <2> QED
    BY <2>3, <2>4
<1> DEFINE F == E \cup {<<w, h>> : h \in B}
<1>5. det' = [pc |-> "scan", roots |-> R, todo |-> T \ {w}, edges |-> F, cycle |-> c]
  BY <1>1, <1>2, <1>3, ScanFields
<1>6. \A e \in E : Genuine(e)
  BY <1>1, <1>3 DEF CInv, EdgesGenuine, Free
<1>7. ASSUME NEW h \in B
      PROVE  Genuine(<<w, h>>)
  <2>1. /\ RegistryExact
        /\ WaitsFor \subseteq begun.graph
    BY <1>1 DEF CInv, RegistryInv, BegunInv, Free
  <2>2. ASSUME status[w] \in SuspendedStatus, status[h] \in SuspendedStatus
        PROVE  <<w, h>> \in WaitsFor
    <3>1. h \in TxnId
      BY <1>4, <1>7
    <3>2. w \in DOMAIN waits /\ h \in DOMAIN waits
      BY <1>3, <2>1, <2>2, <3>1 DEF RegistryExact, SuspendedStatus
    <3> QED
      BY <1>7, <2>2, <3>1, <3>2 DEF WaitsFor, Suspended, SuspendedStatus
  <2> HIDE DEF B
  <2> QED
    BY <1>3, <1>4, <1>7, <2>1, <2>2 DEF Genuine
<1>8. \A e \in F : Genuine(e)
  <2> HIDE DEF B
  <2> QED
    BY <1>6, <1>7
<1> HIDE DEF F, B
<1>9. DetectionType'
  <2>1. T \ {w} \subseteq DOMAIN waits'
    BY <1>1, <1>3
  <2>2. \E R2, T2, E2, c2 :
          /\ det' = [pc |-> "scan", roots |-> R2, todo |-> T2, edges |-> E2, cycle |-> c2]
          /\ T2 \subseteq DOMAIN waits'
    BY <1>5, <2>1, Zenon
  <2> QED
    BY <2>2, Zenon DEF DetectionType
<1>10. EdgesGenuine'
  <2>1. \A e \in F : Genuine(e)'
    BY <1>3, <1>8, GenuineKept
  <2> QED
    BY <1>5, <2>1 DEF EdgesGenuine
<1>11. CycleFound'
  BY <1>5 DEF CycleFound
<1> QED
  BY <1>9, <1>10, <1>11

\* The search returns a cycle of the edges read, if any (cycle_from, detect_cycle).
LEMMA CycleStep ==
  ASSUME CInv, DetectCycle, UNCHANGED <<status, locks, begun>>
  PROVE  DetectionType' /\ EdgesGenuine' /\ CycleFound'
<1>1. PICK R, T, E, c :
         det = [pc |-> "scan", roots |-> R, todo |-> T, edges |-> E, cycle |-> c]
  BY DEF CInv, DetectionType, DetectCycle, Free
<1>2. PICK x : /\ x \in cycle_from(det.edges, det.roots)
               /\ det' = [det EXCEPT !.pc = "done", !.cycle = x]
  BY DEF DetectCycle
<1>3. det' = [pc |-> "done", roots |-> R, todo |-> T, edges |-> E, cycle |-> x]
  BY <1>1, <1>2, ScanFields
<1>4. x # <<>> => IsCycle(E, x)
  BY <1>1, <1>2 DEF cycle_from
<1>5. DetectionType'
  BY <1>3 DEF DetectionType
<1>6. EdgesGenuine'
  <2>1. waits' = waits
    BY DEF DetectCycle
  <2>2. \A e \in E : Genuine(e)
    BY <1>1 DEF CInv, EdgesGenuine, Free
  <2>3. \A e \in E : Genuine(e)'
    BY <2>1, <2>2, GenuineKept
  <2> QED
    BY <1>3, <2>3 DEF EdgesGenuine
<1>7. CycleFound'
  BY <1>3, <1>4 DEF CycleFound
<1> QED
  BY <1>5, <1>6, <1>7

\* A detection begins with no edges and every registered transaction to visit.
LEMMA ScanBegins ==
  ASSUME NEW R, NEW old, det' = scan_from(old, waits', R)
  PROVE  DetectionType' /\ EdgesGenuine' /\ CycleFound'
<1> PICK T : T = DOMAIN waits'
  OBVIOUS
<1>1. det' = [pc |-> "scan", roots |-> R, todo |-> T, edges |-> {}, cycle |-> <<>>]
  BY DEF scan_from
<1>2. \E R2, T2, E2, c2 :
        /\ det' = [pc |-> "scan", roots |-> R2, todo |-> T2, edges |-> E2, cycle |-> c2]
        /\ T2 \subseteq DOMAIN waits'
  <2>1. T \subseteq DOMAIN waits'
    OBVIOUS
  <2> QED
    BY <1>1, <2>1, Zenon
<1>3. DetectionType'
  BY <1>2, Zenon DEF DetectionType
<1>4. EdgesGenuine' /\ CycleFound'
  BY <1>1 DEF EdgesGenuine, CycleFound
<1> QED
  BY <1>3, <1>4

\* While it runs, the steps of the others take away no edge of it between suspended
\* transactions, which hold on to what they hold, unless they are being released.
LEMMA OthersStep ==
  ASSUME CInv, Next, det # Free, det' = det
  PROVE  DetectionType' /\ EdgesGenuine' /\ CycleFound'
<1>1. /\ waits' = waits /\ begun' = begun
      /\ \A w \in Wants : ~AskBlocked(w[1], w[2], w[3])
  BY OthersMove
<1>2. DetectionType' /\ CycleFound'
  BY <1>1 DEF CInv, DetectionType, CycleFound
<1>3. ASSUME NEW e \in det.edges
      PROVE  Genuine(e)'
  <2>1. Genuine(e)
    BY DEF CInv, EdgesGenuine
  <2>2. PICK w \in TxnId, h \in TxnId : e = <<w, h>>
    BY <2>1 DEF Genuine
  <2>3. ASSUME status'[w] \in SuspendedStatus, status'[h] \in SuspendedStatus
        PROVE  e \in begun.graph /\ (e \in WaitsFor' \/ h \in begun.released)
    <3>1. Stays(w) /\ Stays(h)
      BY <1>1, <2>3, SuspendedStay DEF CInv
    <3>2. e \in begun.graph /\ (e \in WaitsFor \/ h \in begun.released)
      BY <2>1, <2>2, <3>1 DEF Genuine, Stays
    <3>3. h \in BeingReleased => h \in begun.released
      BY DEF CInv, BegunInv
    <3> QED
      BY <2>2, <2>3, <3>1, <3>2, <3>3, EdgeStays DEF CInv
  <2> QED
    BY <1>1, <2>1, <2>2, <2>3 DEF Genuine
<1>4. EdgesGenuine'
  BY <1>3 DEF EdgesGenuine
<1> QED
  BY <1>2, <1>4

\* Every step keeps what is known of the detection.
LEMMA NextDetection ==
  ASSUME CInv, Next
  PROVE  DetectionType' /\ EdgesGenuine' /\ CycleFound'
<1>1. CASE det' = Free
  <2>1. DetectionType'
    BY <1>1 DEF DetectionType
  <2> QED
    BY <1>1, <2>1 DEF EdgesGenuine, CycleFound, Free
<1>2. CASE det # Free /\ det' = det
  BY <1>2, OthersStep
<1>3. ASSUME NEW w \in Wants, AskBlocked(w[1], w[2], w[3])
      PROVE  DetectionType' /\ EdgesGenuine' /\ CycleFound'
  BY <1>3, ScanBegins DEF AskBlocked, request_blocked
<1>4. CASE FindDeadlock
  <2>1. waits' = waits /\ det' = scan_from(waits, waits, DOMAIN waits)
    BY <1>4 DEF FindDeadlock, find_deadlock_call
  <2> PICK R : R = DOMAIN waits
    OBVIOUS
  <2>2. det' = scan_from(waits, waits', R)
    BY <2>1
  <2> QED
    BY <2>2, ScanBegins
<1>5. CASE Detect
  <2>1. UNCHANGED <<status, locks, begun>>
    BY <1>5 DEF Detect, DetectCycle, ScanWaiter, tableVars, clientVars
  <2> QED
    BY <1>5, <2>1, ScanStep, CycleStep DEF Detect
<1>6. CASE Answer
  BY <1>1, <1>6 DEF Answer, DetectReturn
<1> QED
  BY <1>1, <1>2, <1>3, <1>4, <1>5, <1>6, DetectionMoves

-----------------------------------------------------------------------------
(* The theorems. *)

\* The invariant is inductive.
LEMMA NextCInv == CInv /\ [Next]_vars => CInv'
<1> SUFFICES ASSUME CInv, [Next]_vars PROVE CInv'
  OBVIOUS
<1>1. IInv'
  <2>1. [TableNext]_tableVars
    BY ClientsUseTable DEF CInv
  <2> QED
    BY <2>1, NextIInv DEF CInv
<1>2. RegistryInv'
  BY NextRegistry DEF CInv
<1>3. DetectionType' /\ BegunInv' /\ EdgesGenuine' /\ CycleFound'
  <2>1. CASE Next
    BY <1>1, <1>2, <2>1, NextDetection, NextBegun
  <2>2. CASE UNCHANGED vars
    <3>1. UNCHANGED <<locks, sweep, waits, det, status, begun>>
      BY <2>2 DEF vars, managerVars, tableVars, clientVars
    <3>2. DetectionType' /\ CycleFound'
      BY <3>1 DEF CInv, DetectionType, CycleFound
    <3>3. WaitsFor' = WaitsFor /\ BeingReleased' = BeingReleased
      BY <3>1 DEF WaitsFor, Suspended, holders_blocking, BeingReleased
    <3>4. BegunInv' /\ EdgesGenuine'
      BY <3>1, <3>3 DEF CInv, BegunInv, EdgesGenuine, Genuine
    <3> QED
      BY <3>2, <3>4
  <2> QED
    BY <2>1, <2>2
<1> QED
  BY <1>1, <1>2, <1>3 DEF CInv

\* The invariant holds of every instance, through every interleaving: clients may
\* retry, poll, give up or be aborted at any time, also while a release_all for them
\* is between two shards.
THEOREM ClientsInvariant == Spec => []CInv
<1>1. Init => CInv
  <2> SUFFICES ASSUME Init PROVE CInv
    OBVIOUS
  <2>1. IInv
    BY InitIInv DEF Init, ManagerInit
  <2>2. RegistryInv
    <3>1. IsHashMap(waits, TxnId, PointIds \X RequestModes) /\ DOMAIN waits = {}
      BY EmptyMapType DEF Init, ManagerInit
    <3> QED
      BY <3>1 DEF Init, RegistryInv, RegistryExact
  <2>3. DetectionType /\ BegunInv /\ EdgesGenuine /\ CycleFound
    BY DEF Init, ManagerInit, DetectionType, BegunInv, NoDetection, EdgesGenuine, CycleFound,
           Free
  <2> QED
    BY <2>1, <2>2, <2>3 DEF CInv
<1>2. CInv /\ [Next]_vars => CInv'
  BY NextCInv
<1> QED
  BY <1>1, <1>2, PTL DEF Spec

\* The registry lists exactly the suspended transactions and the strays: no grant,
\* cancel_wait, release_all or late answer leaves a wait behind or loses one.
THEOREM RegistryCorrect == Spec => []RegistryExact
<1>1. CInv => RegistryExact
  BY DEF CInv, RegistryInv
<1> QED
  BY <1>1, ClientsInvariant, PTL

\* Point locks stay compatible under request, retries, aborts and detections too.
THEOREM ClientsSafety == Spec => []HoldersCompatible
<1>1. CInv => HoldersCompatible
  BY DEF CInv, IInv, LocksInv, GoodLocks, HoldersCompatible
<1> QED
  BY <1>1, ClientsInvariant, PTL

\* A reported cycle without a stray was one of the true graph when its detection
\* began, and every edge of it is there still or leads to a transaction that was
\* being released then.
LEMMA ReportGenuine ==
  ASSUME CInv, Reporting, \A t \in Elems(det.cycle) : status[t] # "stray"
  PROVE  /\ IsCycle(begun.graph, det.cycle)
         /\ \A i \in 1 .. Len(det.cycle) :
              \/ <<det.cycle[i], Next1(det.cycle, i)>> \in WaitsFor
              \/ Next1(det.cycle, i) \in begun.released
<1> PICK c, E : c = det.cycle /\ E = det.edges
  OBVIOUS
<1>1. /\ c # <<>>
      /\ \A i \in 1 .. Len(c) : <<c[i], Next1(c, i)>> \in E
      /\ \A i, j \in 1 .. Len(c) : i # j => c[i] # c[j]
  BY DEF CInv, CycleFound, IsCycle, Reporting
<1>2. \A e \in E : Genuine(e)
  BY DEF CInv, EdgesGenuine, Free, Reporting
<1>3. \A i \in 1 .. Len(c) : status[c[i]] \in SuspendedStatus
  <2> TAKE i \in 1 .. Len(c)
  <2>1. <<c[i], Next1(c, i)>> \in E
    BY <1>1
  <2>2. c[i] \in DOMAIN waits
    BY <1>2, <2>1 DEF Genuine
  <2>3. status[c[i]] # "stray"
    BY DEF Elems
  <2> QED
    BY <2>2, <2>3 DEF CInv, RegistryInv, RegistryExact, SuspendedStatus
<1>4. \A i \in 1 .. Len(c) : \E j \in 1 .. Len(c) : Next1(c, i) = c[j]
  BY <1>1 DEF Next1
<1>5. ASSUME NEW i \in 1 .. Len(c)
      PROVE  /\ <<c[i], Next1(c, i)>> \in begun.graph
             /\ <<c[i], Next1(c, i)>> \in WaitsFor \/ Next1(c, i) \in begun.released
  <2>1. PICK w, h : w = c[i] /\ h = Next1(c, i)
    OBVIOUS
  <2>2. <<w, h>> \in E
    BY <1>1, <2>1
  <2>3. status[w] \in SuspendedStatus /\ status[h] \in SuspendedStatus
    BY <1>3, <1>4, <2>1
  <2>4. /\ <<w, h>> \in begun.graph
        /\ <<w, h>> \in WaitsFor \/ h \in begun.released
    BY <1>2, <2>2, <2>3 DEF Genuine
  <2> QED
    BY <2>1, <2>4
<1> QED
  BY <1>1, <1>5 DEF IsCycle

\* A reported cycle without a stray was a deadlock when request or find_deadlock took
\* the registry, whatever the other transactions did while the graph was being read.
THEOREM ReportsSound == Spec => []OthersGenuine
<1>1. CInv => OthersGenuine
  BY ReportGenuine DEF OthersGenuine
<1> QED
  BY <1>1, ClientsInvariant, PTL

\* Of such a cycle nothing is gone when it is reported but what a release_all that
\* was running already has taken away.
THEOREM ReportsUndoneByReleasesOnly == Spec => []OnlyReleaseUndoes
<1>1. CInv => OnlyReleaseUndoes
  BY ReportGenuine DEF OnlyReleaseUndoes
<1> QED
  BY <1>1, ClientsInvariant, PTL

\* Only a transaction that polls with try_acquire ever becomes a stray.
NoStrays == \A t \in TxnId : status[t] # "stray"

\* When suspended transactions do not retry behind the registry's back every reported
\* cycle, retries of a victim during its own abort included, was a deadlock when its
\* detection began.
THEOREM ReportsSoundWithoutPolling == ASSUME Pollers = {} PROVE Spec => []ReportsGenuine
<1>1. Init => NoStrays
  BY DEF Init, NoStrays
<1>2. CInv /\ NoStrays /\ [Next]_vars => NoStrays'
  <2> SUFFICES ASSUME CInv, NoStrays, [Next]_vars PROVE NoStrays'
    OBVIOUS
  <2>1. \A t \in TxnId : ~Poll(t)
    BY DEF Poll
  <2>2. status \in [TxnId -> {"running", "asking", "waiting", "stray"}]
    BY DEF CInv, RegistryInv
  <2>3. \/ \E t, st : st # "stray" /\ status' = [status EXCEPT ![t] = st]
        \/ status' = status
        \/ status' = [t \in TxnId |-> IF status[t] = "asking" THEN "waiting" ELSE status[t]]
    <3>1. ASSUME NEW w \in Wants, AskGranted(w[1], w[2], w[3])
          PROVE  status' = [status EXCEPT ![w[1]] = "running"]
      BY <3>1 DEF AskGranted
    <3>2. ASSUME NEW w \in Wants, AskBlocked(w[1], w[2], w[3])
          PROVE  status' = [status EXCEPT ![w[1]] = "asking"]
      BY <3>2 DEF AskBlocked
    <3>3. ASSUME NEW w \in Wants, TryAcquire(w[1], w[2], w[3])
          PROVE  status' = status
      BY <3>3 DEF TryAcquire, clientVars
    <3>4. ASSUME NEW t \in TxnId, \E r \in PointIds : Release(t, r)
          PROVE  status' = status
      BY <3>4 DEF Release, clientVars
    <3>5. ASSUME NEW t \in TxnId, Cancel(t) \/ \E th \in Threads : ReleaseAll(th, t)
          PROVE  status' = [status EXCEPT ![t] = "running"]
      BY <3>5 DEF Cancel, ReleaseAll
    <3>6. ASSUME NEW th \in Threads, Sweeping(th)
          PROVE  status' = status
      BY <3>6 DEF Sweeping, clientVars
    <3>7. CASE FindDeadlock \/ Detect \/ UNCHANGED vars
      BY <3>7 DEF FindDeadlock, Detect, clientVars, vars
    <3>8. CASE Answer
      BY <3>8 DEF Answer
    <3> QED
      BY <2>1, <3>1, <3>2, <3>3, <3>4, <3>5, <3>6, <3>7, <3>8 DEF Next
  <2> QED
    BY <2>2, <2>3 DEF NoStrays
<1>3. CInv /\ NoStrays => ReportsGenuine
  <2> SUFFICES ASSUME CInv, NoStrays, Reporting
               PROVE  IsCycle(begun.graph, det.cycle)
    BY DEF ReportsGenuine
  <2>1. \A t : status[t] = "stray" => t \notin TxnId
    BY DEF NoStrays
  <2>2. \A t \in Elems(det.cycle) : t \in TxnId
    <3> PICK c, E : c = det.cycle /\ E = det.edges
      OBVIOUS
    <3>1. \A i \in 1 .. Len(c) : <<c[i], Next1(c, i)>> \in E
      BY DEF CInv, CycleFound, IsCycle, Reporting
    <3>2. \A e \in E : e \in TxnId \X TxnId
      BY DEF CInv, EdgesGenuine, Genuine, Free, Reporting
    <3> QED
      BY <3>1, <3>2 DEF Elems
  <2> QED
    BY <2>1, <2>2, ReportGenuine
<1> QED
  BY <1>1, <1>2, <1>3, ClientsInvariant, PTL DEF Spec

-----------------------------------------------------------------------------
(* No deadlock goes unnoticed: a search that finds nothing says truly that   *)
(* there is nothing, and in every cycle of the true graph somebody was told. *)

\* Of the waiters visited so far no edge to a suspended transaction is missing.
EdgesComplete ==
  det # Free =>
    \A w \in DOMAIN waits, h \in TxnId :
       (/\ w \notin det.todo
        /\ status[h] \in SuspendedStatus
        /\ h \in holders_blocking(w, waits[w][1], waits[w][2])) => <<w, h>> \in det.edges

\* A search ends when every waiter has been visited, and without a cycle only if
\* the edges read have none that it can reach.
SearchExhausted ==
  det.pc = "done" =>
    /\ det.todo = {}
    /\ det.cycle = <<>> =>
         ~\E c \in Paths : IsCycle(det.edges, c) /\ c[1] \in Reachable(det.edges, det.roots)

\* Only the transaction a search starts from is inside a request.
AskerIsRoot ==
  \A t \in TxnId : status[t] = "asking" => det # Free /\ det.roots = {t}

\* Some member of every true cycle has been told, or is about to be.
DeadlockToldOrAsking ==
  \A c \in Paths : IsCycle(WaitsFor, c) =>
     \E i \in 1 .. Len(c) : told[c[i]] \/ status[c[i]] = "asking"

DInv ==
  /\ CInv
  /\ EdgesComplete /\ SearchExhausted /\ AskerIsRoot
  /\ told \in [TxnId -> BOOLEAN] /\ DeadlockToldOrAsking

-----------------------------------------------------------------------------
(* Cycles. *)

\* What follows a member of a cycle is a member of it.
LEMMA NextMember ==
  ASSUME NEW c \in Paths, NEW i \in 1 .. Len(c)
  PROVE  \E j \in 1 .. Len(c) : Next1(c, i) = c[j]
<1>1. Len(c) \in Nat /\ Len(c) > 0
  BY PathType
<1>2. CASE i = Len(c)
  BY <1>1, <1>2 DEF Next1
<1>3. CASE i # Len(c)
  <2>1. i + 1 \in 1 .. Len(c) /\ Next1(c, i) = c[i + 1]
    BY <1>1, <1>3 DEF Next1
  <2> QED
    BY <2>1
<1> QED
  BY <1>2, <1>3

\* From every member of a cycle its first one can be reached.
LEMMA FirstReachable ==
  ASSUME NEW E, NEW c \in Paths, IsCycle(E, c), NEW i \in 1 .. Len(c)
  PROVE  c[1] \in Reachable(E, {c[i]})
<1>1. c \in Seq(TxnId) /\ Len(c) \in Nat /\ Len(c) > 0
  BY PathType
<1>2. c[1] \in TxnId
  BY <1>1
<1>3. ASSUME NEW S \in SUBSET TxnId, c[i] \in S, \A e \in E : e[1] \in S => e[2] \in S
      PROVE  c[1] \in S
  <2> DEFINE J == {k \in i .. Len(c) : c[k] \notin S}
  <2>1. \A k \in 1 .. Len(c) : c[k] \in S => Next1(c, k) \in S
    <3> TAKE k \in 1 .. Len(c)
    <3>1. <<c[k], Next1(c, k)>> \in E
      BY DEF IsCycle
    <3> QED
      BY <1>3, <3>1
  <2>2. CASE J = {}
    <3>1. Len(c) \in i .. Len(c) /\ Len(c) \in 1 .. Len(c)
      BY <1>1
    <3>2. c[Len(c)] \in S
      BY <2>2, <3>1
    <3>3. Next1(c, Len(c)) = c[1]
      BY DEF Next1
    <3> QED
      BY <2>1, <3>1, <3>2, <3>3
  <2>3. CASE J # {}
    <3> DEFINE k == first(J)
    <3>1. J \in SUBSET Nat
      BY <1>1
    <3>2. k \in J /\ \A j \in J : k <= j
      <4> HIDE DEF J
      <4> QED
        BY <2>3, <3>1, FirstIsLeast
    <3> HIDE DEF k
    <3>3. k \in i .. Len(c) /\ c[k] \notin S /\ k # i
      BY <1>3, <3>2
    <3>4. k - 1 \in i .. Len(c) /\ k - 1 \in 1 .. Len(c) /\ k - 1 # Len(c) /\ ~(k <= k - 1)
      BY <1>1, <3>3
    <3>5. c[k - 1] \in S
      BY <3>2, <3>4
    <3>6. Next1(c, k - 1) = c[k]
      BY <3>3, <3>4 DEF Next1
    <3> QED
      BY <2>1, <3>3, <3>4, <3>5, <3>6
  <2> QED
    BY <2>2, <2>3
<1> QED
  BY <1>2, <1>3 DEF Reachable

-----------------------------------------------------------------------------
(* Detection. *)

\* A step of the scan or of the search writes nothing but its own fields.
LEMMA DetectFields ==
  ASSUME CInv, Detect
  PROVE  /\ UNCHANGED <<locks, waits, status, told>>
         /\ det # Free /\ det' # Free /\ det'.roots = det.roots
         /\ \/ /\ det'.pc = "scan" /\ det' # Free
               /\ \E w \in det.todo :
                    /\ det'.todo = det.todo \ {w}
                    /\ det'.edges = det.edges \cup
                         {<<w, h>> : h \in holders_blocking(w, waits[w][1], waits[w][2])}
            \/ /\ det'.pc = "done"
               /\ det.todo = {} /\ det'.todo = {} /\ det'.edges = det.edges
               /\ det'.cycle \in cycle_from(det.edges, det.roots)
<1>1. UNCHANGED <<locks, waits, status, told>>
  BY DEF Detect, DetectCycle, ScanWaiter, tableVars, clientVars
<1>2. PICK R, T, E, c :
         det = [pc |-> "scan", roots |-> R, todo |-> T, edges |-> E, cycle |-> c]
  <2>1. det.pc = "scan"
    BY Zenon DEF Detect, DetectCycle, ScanWaiter
  <2> QED
    BY <2>1 DEF CInv, DetectionType, Free
<1>3. ASSUME NEW w \in TxnId, ScanWaiter(w)
      PROVE  /\ det' # Free /\ det'.roots = det.roots /\ det'.pc = "scan" /\ w \in det.todo
             /\ det'.todo = det.todo \ {w}
             /\ det'.edges = det.edges \cup
                  {<<w, h>> : h \in holders_blocking(w, waits[w][1], waits[w][2])}
  <2> PICK B : B = {<<w, h>> : h \in holders_blocking(w, waits[w][1], waits[w][2])}
    OBVIOUS
  <2>1. det' = [det EXCEPT !.todo = det.todo \ {w}, !.edges = det.edges \cup B]
    BY <1>3 DEF ScanWaiter
  <2>2. det' = [pc |-> "scan", roots |-> R, todo |-> T \ {w}, edges |-> E \cup B, cycle |-> c]
    BY <1>2, <2>1, ScanFields
  <2>3. w \in det.todo
    BY <1>3 DEF ScanWaiter
  <2> QED
    BY <1>2, <2>2, <2>3 DEF Free
<1>4. ASSUME DetectCycle
      PROVE  /\ det' # Free /\ det'.roots = det.roots /\ det'.pc = "done"
             /\ det.todo = {} /\ det'.todo = {} /\ det'.edges = det.edges
             /\ det'.cycle \in cycle_from(det.edges, det.roots)
  <2>1. PICK x : /\ x \in cycle_from(det.edges, det.roots)
                 /\ det' = [det EXCEPT !.pc = "done", !.cycle = x]
    BY <1>4 DEF DetectCycle
  <2>2. det' = [pc |-> "done", roots |-> R, todo |-> T, edges |-> E, cycle |-> x]
    BY <1>2, <2>1, ScanFields
  <2>3. det.todo = {}
    BY <1>4 DEF DetectCycle
  <2> QED
    BY <1>2, <2>1, <2>2, <2>3 DEF Free
<1>5. det # Free
  BY <1>2 DEF Free
<1> QED
  BY <1>1, <1>3, <1>4, <1>5 DEF Detect

\* No edge that matters is missed: a visited waiter's blockers were read, and who is
\* suspended now held then what it holds now (build_wait_graph).
LEMMA NextComplete ==
  ASSUME CInv, EdgesComplete, Next
  PROVE  EdgesComplete'
<1>1. CASE det' = Free
  BY <1>1 DEF EdgesComplete
<1>2. ASSUME NEW old, NEW R, det' = scan_from(old, waits', R)
      PROVE  EdgesComplete'
  BY <1>2 DEF scan_from, EdgesComplete
<1>3. ASSUME NEW w \in Wants, AskBlocked(w[1], w[2], w[3])
      PROVE  EdgesComplete'
  BY <1>2, <1>3 DEF AskBlocked, request_blocked
<1>4. CASE FindDeadlock
  <2>1. det' = scan_from(waits, waits', DOMAIN waits)
    BY <1>4 DEF FindDeadlock, find_deadlock_call
  <2> PICK R, old : R = DOMAIN waits /\ old = waits
    OBVIOUS
  <2>2. det' = scan_from(old, waits', R)
    BY <2>1
  <2> QED
    BY <1>2, <2>2
<1>5. CASE det # Free /\ det' = det
  <2>1. \A w \in Wants : ~AskBlocked(w[1], w[2], w[3])
    BY <1>5, OthersMove
  <2>2. waits' = waits
    BY <1>5, OthersMove
  <2>3. ASSUME NEW w \in DOMAIN waits, NEW h \in TxnId, w \notin det.todo,
               status'[h] \in SuspendedStatus,
               h \in holders_blocking(w, waits[w][1], waits[w][2])'
        PROVE  <<w, h>> \in det.edges
    <3>1. Stays(h)
      BY <2>1, <2>3, SuspendedStay DEF CInv
    <3>2. h \in holders_blocking(w, waits[w][1], waits[w][2])
      BY <2>2, <2>3, <3>1, BlockerStays DEF CInv
    <3> QED
      BY <1>5, <2>3, <3>1, <3>2 DEF EdgesComplete, Stays
  <2> QED
    BY <1>5, <2>2, <2>3 DEF EdgesComplete
<1>6. CASE Detect
  <2>1. UNCHANGED <<locks, waits, status>> /\ det # Free
    BY <1>6, DetectFields
  <2>2. \A w \in DOMAIN waits, h \in TxnId :
          (/\ w \notin det'.todo
           /\ status[h] \in SuspendedStatus
           /\ h \in holders_blocking(w, waits[w][1], waits[w][2])) => <<w, h>> \in det'.edges
    <3> TAKE w \in DOMAIN waits, h \in TxnId
    <3> HAVE /\ w \notin det'.todo
             /\ status[h] \in SuspendedStatus
             /\ h \in holders_blocking(w, waits[w][1], waits[w][2])
    <3>1. \/ w \notin det.todo /\ det.edges \subseteq det'.edges
          \/ <<w, h>> \in det'.edges
      BY <1>6, DetectFields
    <3> QED
      BY <2>1, <3>1 DEF EdgesComplete
  <2>3. ASSUME NEW w
        PROVE  holders_blocking(w, waits[w][1], waits[w][2])'
                 = holders_blocking(w, waits[w][1], waits[w][2])
    BY <2>1 DEF holders_blocking
  <2> QED
    BY <2>1, <2>2, <2>3 DEF EdgesComplete
<1>7. CASE Answer
  BY <1>1, <1>7 DEF Answer, DetectReturn
<1> QED
  BY <1>1, <1>3, <1>4, <1>5, <1>6, <1>7, DetectionMoves

\* A search that ends without a cycle has exhausted the edges read (cycle_from), and
\* nobody changes them until it returns.
LEMMA NextExhausted ==
  ASSUME CInv, SearchExhausted, Next
  PROVE  SearchExhausted'
<1>1. CASE det' = Free
  BY <1>1 DEF SearchExhausted, Free
<1>2. CASE det # Free /\ det' = det
  BY <1>2 DEF SearchExhausted
<1>3. ASSUME NEW w \in Wants, AskBlocked(w[1], w[2], w[3])
      PROVE  SearchExhausted'
  BY <1>3 DEF AskBlocked, request_blocked, scan_from, SearchExhausted
<1>4. CASE FindDeadlock
  BY <1>4 DEF FindDeadlock, find_deadlock_call, scan_from, SearchExhausted
<1>5. CASE Detect
  <2>1. det'.pc = "scan" => SearchExhausted'
    BY DEF SearchExhausted
  <2>2. ASSUME /\ det'.todo = {} /\ det'.edges = det.edges /\ det'.roots = det.roots
               /\ det'.cycle \in cycle_from(det.edges, det.roots)
        PROVE  SearchExhausted'
    <3> PICK E, R, x : E = det.edges /\ R = det.roots /\ x = det'.cycle
      OBVIOUS
    <3>1. ASSUME x = <<>>
          PROVE  ~\E c \in Paths : IsCycle(E, c) /\ c[1] \in Reachable(E, R)
      <4> DEFINE C == {c \in Paths : IsCycle(E, c) /\ c[1] \in Reachable(E, R)}
      <4>1. x \in IF C = {} THEN {<<>>} ELSE C
        BY <2>2 DEF cycle_from
      <4>2. x \notin C
        BY <3>1 DEF IsCycle
      <4>3. C = {}
        BY <4>1, <4>2
      <4> QED
        BY <4>3
    <3> QED
      BY <2>2, <3>1 DEF SearchExhausted
  <2> QED
    BY <1>5, <2>1, <2>2, DetectFields
<1>6. CASE Answer
  BY <1>1, <1>6 DEF Answer, DetectReturn
<1> QED
  BY <1>1, <1>2, <1>3, <1>4, <1>5, <1>6, DetectionMoves

\* Only a request just refused makes its transaction the one that is asking, and
\* the answer suspends it.
LEMMA AskersStay ==
  ASSUME CInv, Next, NEW t \in TxnId, status'[t] = "asking"
  PROVE  \/ status[t] = "asking" /\ ~Answer
         \/ \E w \in Wants : w[1] = t /\ AskBlocked(w[1], w[2], w[3])
<1>1. status \in [TxnId -> {"running", "asking", "waiting", "stray"}]
  BY DEF CInv, RegistryInv
<1>2. ~Answer
  BY <1>1 DEF Answer
<1>3. ASSUME NEW w \in Wants, \/ AskGranted(w[1], w[2], w[3])
                              \/ TryAcquire(w[1], w[2], w[3])
      PROVE  status[t] = "asking"
  BY <1>1, <1>3 DEF AskGranted, TryAcquire, clientVars
<1>4. ASSUME NEW w \in Wants, AskBlocked(w[1], w[2], w[3]), w[1] # t
      PROVE  status[t] = "asking"
  BY <1>1, <1>4 DEF AskBlocked
<1>5. ASSUME NEW u \in TxnId, \/ Poll(u) \/ Cancel(u)
                              \/ \E r \in PointIds : Release(u, r)
                              \/ \E th \in Threads : ReleaseAll(th, u)
      PROVE  status[t] = "asking"
  BY <1>1, <1>5 DEF Poll, Cancel, Release, ReleaseAll, clientVars
<1>6. ASSUME NEW th \in Threads, Sweeping(th)
      PROVE  status[t] = "asking"
  BY <1>6 DEF Sweeping, clientVars
<1>7. CASE FindDeadlock \/ Detect
  BY <1>2, <1>7 DEF FindDeadlock, Detect, clientVars
<1> QED
  BY <1>2, <1>3, <1>4, <1>5, <1>6, <1>7 DEF Next

\* A search is on behalf of the one transaction that is asking, or of nobody's.
LEMMA NextAsker ==
  ASSUME CInv, AskerIsRoot, Next
  PROVE  AskerIsRoot'
<1> SUFFICES ASSUME NEW t \in TxnId, status'[t] = "asking"
             PROVE  det' # Free /\ det'.roots = {t}
  BY DEF AskerIsRoot
<1>1. ASSUME NEW w \in Wants, w[1] = t, AskBlocked(w[1], w[2], w[3])
      PROVE  det' # Free /\ det'.roots = {t}
  BY <1>1 DEF AskBlocked, request_blocked, scan_from, Free
<1>2. CASE status[t] = "asking" /\ ~Answer
  <2>1. det # Free /\ det.roots = {t}
    BY <1>2 DEF AskerIsRoot
  <2>2. \/ det' = det \/ Detect
    <3>1. ~FindDeadlock /\ \A w \in Wants : ~AskBlocked(w[1], w[2], w[3])
      BY <2>1 DEF FindDeadlock, find_deadlock_call, AskBlocked, request_blocked
    <3> QED
      BY <1>2, <2>1, <3>1, DetectionMoves
  <2> QED
    BY <2>1, <2>2, DetectFields
<1> QED
  BY <1>1, <1>2, AskersStay

-----------------------------------------------------------------------------
(* What is told. *)

\* A search that has found nothing has missed nothing: the true graph is between
\* suspended transactions, and its edges were all read.
LEMMA SilenceTrue ==
  ASSUME CInv, EdgesComplete, SearchExhausted, det.pc = "done", det.cycle = <<>>,
         NEW c \in Paths, IsCycle(WaitsFor, c)
  PROVE  c[1] \notin Reachable(WaitsFor, det.roots)
<1> PICK E, R : E = det.edges /\ R = det.roots
  OBVIOUS
<1>1. WaitsFor \subseteq E
  <2> SUFFICES ASSUME NEW w \in TxnId, NEW h \in TxnId, <<w, h>> \in WaitsFor
               PROVE  <<w, h>> \in E
    BY DEF WaitsFor
  <2>1. /\ w \in DOMAIN waits /\ status[h] \in SuspendedStatus
        /\ h \in holders_blocking(w, waits[w][1], waits[w][2])
    BY DEF WaitsFor, Suspended, SuspendedStatus
  <2>2. det # Free /\ w \notin det.todo
    BY DEF SearchExhausted, Free
  <2> QED
    BY <2>1, <2>2 DEF EdgesComplete
<1>2. IsCycle(E, c)
  BY <1>1 DEF IsCycle
<1>3. c[1] \in Reachable(WaitsFor, R) => c[1] \in Reachable(E, R)
  BY <1>1 DEF Reachable
<1>4. c[1] \notin Reachable(E, R)
  BY <1>2 DEF SearchExhausted
<1> QED
  BY <1>3, <1>4

\* A cycle whose members stay as they are was one before the step.
LEMMA CycleStays ==
  ASSUME NEW c \in Paths, IsCycle(WaitsFor, c)', RegistryInv, RegistryInv',
         \A i \in 1 .. Len(c) : status'[c[i]] \in SuspendedStatus => Stays(c[i])
  PROVE  IsCycle(WaitsFor, c)
<1>1. /\ c # <<>>
      /\ \A i \in 1 .. Len(c) : <<c[i], Next1(c, i)>> \in WaitsFor'
      /\ \A i, j \in 1 .. Len(c) : i # j => c[i] # c[j]
  BY DEF IsCycle
<1>2. ASSUME NEW i \in 1 .. Len(c)
      PROVE  c[i] \in TxnId /\ status'[c[i]] \in SuspendedStatus
  <2> PICK w, h : w = c[i] /\ h = Next1(c, i)
    OBVIOUS
  <2>1. <<w, h>> \in WaitsFor'
    BY <1>1
  <2> QED
    BY <2>1 DEF WaitsFor, Suspended, SuspendedStatus
<1>3. ASSUME NEW i \in 1 .. Len(c)
      PROVE  <<c[i], Next1(c, i)>> \in WaitsFor
  <2> PICK w, h : w = c[i] /\ h = Next1(c, i)
    OBVIOUS
  <2>1. <<w, h>> \in WaitsFor'
    BY <1>1
  <2>2. /\ w \in TxnId /\ h \in TxnId
        /\ status'[w] \in SuspendedStatus /\ status'[h] \in SuspendedStatus
    BY <1>2, <1>3, NextMember
  <2>3. Stays(w) /\ Stays(h)
    BY <1>3, <2>2, NextMember
  <2>4. <<w, h>> \in WaitsFor
    BY <2>1, <2>2, <2>3, EdgeStays
  <2> QED
    BY <2>4
<1> QED
  BY <1>1, <1>3 DEF IsCycle

\* Who stays suspended keeps the answer it had, but for the one that gets its answer
\* in this step.
LEMMA ToldStays ==
  ASSUME CInv, told \in [TxnId -> BOOLEAN], Next, ~Answer,
         NEW h \in TxnId, status'[h] \in SuspendedStatus,
         \A w \in Wants : w[1] = h => ~AskBlocked(w[1], w[2], w[3])
  PROVE  told'[h] = told[h] /\ (status[h] = "asking" => status'[h] = "asking")
<1>1. status \in [TxnId -> {"running", "asking", "waiting", "stray"}]
  BY DEF CInv, RegistryInv
<1>2. ASSUME NEW w \in Wants, \/ AskGranted(w[1], w[2], w[3])
                              \/ AskBlocked(w[1], w[2], w[3])
                              \/ TryAcquire(w[1], w[2], w[3])
      PROVE  told'[h] = told[h] /\ (status[h] = "asking" => status'[h] = "asking")
  BY <1>1, <1>2, WantsType DEF AskGranted, AskBlocked, TryAcquire, clientVars, SuspendedStatus
<1>3. ASSUME NEW u \in TxnId, \/ Poll(u) \/ Cancel(u)
                              \/ \E r \in PointIds : Release(u, r)
                              \/ \E th \in Threads : ReleaseAll(th, u)
      PROVE  told'[h] = told[h] /\ (status[h] = "asking" => status'[h] = "asking")
  BY <1>1, <1>3 DEF Poll, Cancel, Release, ReleaseAll, clientVars, SuspendedStatus
<1>4. ASSUME NEW th \in Threads, Sweeping(th)
      PROVE  told'[h] = told[h] /\ (status[h] = "asking" => status'[h] = "asking")
  BY <1>1, <1>4 DEF Sweeping, clientVars, SuspendedStatus
<1>5. CASE FindDeadlock \/ Detect
  BY <1>5 DEF FindDeadlock, Detect, clientVars
<1> QED
  BY <1>2, <1>3, <1>4, <1>5 DEF Next

\* The answers are Booleans throughout.
LEMMA ToldType ==
  ASSUME told \in [TxnId -> BOOLEAN], [Next]_vars
  PROVE  told' \in [TxnId -> BOOLEAN]
<1>1. ASSUME NEW w \in Wants, \/ AskGranted(w[1], w[2], w[3])
                              \/ AskBlocked(w[1], w[2], w[3])
                              \/ TryAcquire(w[1], w[2], w[3])
      PROVE  told' = told \/ told' = [told EXCEPT ![w[1]] = FALSE]
  BY <1>1 DEF AskGranted, AskBlocked, TryAcquire, clientVars
<1>2. ASSUME NEW u \in TxnId, \/ Poll(u) \/ Cancel(u)
                              \/ \E r \in PointIds : Release(u, r)
                              \/ \E th \in Threads : ReleaseAll(th, u)
      PROVE  told' = told \/ told' = [told EXCEPT ![u] = FALSE]
  BY <1>2 DEF Poll, Cancel, Release, ReleaseAll, clientVars
<1>3. CASE FindDeadlock \/ Detect \/ UNCHANGED vars \/ \E th \in Threads : Sweeping(th)
  BY <1>3 DEF FindDeadlock, Detect, clientVars, vars, Sweeping
<1>4. CASE Answer
  <2> PICK b \in BOOLEAN : b <=> det.cycle # <<>>
    OBVIOUS
  <2>1. told' = [t \in TxnId |-> IF status[t] = "asking" THEN b ELSE told[t]]
    BY <1>4, Zenon DEF Answer
  <2> QED
    BY <2>1
<1>5. \A u : [told EXCEPT ![u] = FALSE] \in [TxnId -> BOOLEAN]
  OBVIOUS
<1> QED
  BY <1>1, <1>2, <1>3, <1>4, <1>5 DEF Next

\* When the answer arrives, a cycle without it has been told of already: the search
\* of the one asking found a cycle, or else truly there is none through it.
LEMMA AnswerTells ==
  ASSUME DInv, Answer, NEW c \in Paths, IsCycle(WaitsFor, c)
  PROVE  \E i \in 1 .. Len(c) : told'[c[i]]
<1>1. det.pc = "done"
  BY DEF Answer, DetectReturn
<1>2. PICK i \in 1 .. Len(c) : told[c[i]] \/ status[c[i]] = "asking"
  BY DEF DInv, DeadlockToldOrAsking
<1>3. c[i] \in TxnId
  BY PathType
<1>4. told'[c[i]] <=> IF status[c[i]] = "asking" THEN det.cycle # <<>> ELSE told[c[i]]
  BY <1>3 DEF Answer
<1>5. CASE status[c[i]] = "asking"
  <2> PICK t : t = c[i]
    OBVIOUS
  <2>1. det.roots = {t}
    BY <1>3, <1>5 DEF DInv, AskerIsRoot
  <2>2. c[1] \in Reachable(WaitsFor, {t})
    <3> PICK E : E = WaitsFor
      OBVIOUS
    <3>1. c[1] \in Reachable(E, {t})
      BY FirstReachable
    <3> QED
      BY <3>1
  <2>3. det.cycle # <<>>
    BY <1>1, <2>1, <2>2, SilenceTrue DEF DInv
  <2> QED
    BY <1>4, <1>5, <2>3
<1>6. CASE status[c[i]] # "asking"
  BY <1>2, <1>4, <1>6
<1> QED
  BY <1>5, <1>6

\* A cycle is closed by a refused request only, and then its transaction is asking.
LEMMA NextTold ==
  ASSUME DInv, RegistryInv', Next
  PROVE  DeadlockToldOrAsking'
<1> SUFFICES ASSUME NEW c \in Paths, IsCycle(WaitsFor, c)'
             PROVE  \E i \in 1 .. Len(c) : told'[c[i]] \/ status'[c[i]] = "asking"
  BY DEF DeadlockToldOrAsking
<1>1. \A i \in 1 .. Len(c) : c[i] \in TxnId
  BY PathType
<1>2. ASSUME NEW i \in 1 .. Len(c), NEW w \in Wants, w[1] = c[i],
             AskBlocked(w[1], w[2], w[3])
      PROVE  status'[c[i]] = "asking"
  BY <1>1, <1>2 DEF AskBlocked, DInv, CInv, RegistryInv
<1>3. CASE \A i \in 1 .. Len(c) : \A w \in Wants : w[1] = c[i] => ~AskBlocked(w[1], w[2], w[3])
  <2>1. \A i \in 1 .. Len(c) : status'[c[i]] \in SuspendedStatus => Stays(c[i])
    BY <1>1, <1>3, SuspendedStay DEF DInv, CInv
  <2>2. IsCycle(WaitsFor, c)
    BY <2>1, CycleStays DEF DInv, CInv
  <2>3. CASE Answer
    BY <2>2, <2>3, AnswerTells
  <2>4. CASE ~Answer
    <3>1. PICK i \in 1 .. Len(c) : told[c[i]] \/ status[c[i]] = "asking"
      BY <2>2 DEF DInv, DeadlockToldOrAsking
    <3>2. status'[c[i]] \in SuspendedStatus
      <4> PICK w, h : w = c[i] /\ h = Next1(c, i)
        OBVIOUS
      <4>1. <<w, h>> \in WaitsFor'
        BY DEF IsCycle
      <4> QED
        BY <4>1 DEF WaitsFor, Suspended, SuspendedStatus
    <3>3. told'[c[i]] = told[c[i]] /\ (status[c[i]] = "asking" => status'[c[i]] = "asking")
      BY <1>1, <1>3, <2>4, <3>2, ToldStays DEF DInv
    <3> QED
      BY <3>1, <3>3
  <2> QED
    BY <2>3, <2>4
<1> QED
  BY <1>2, <1>3

-----------------------------------------------------------------------------
(* The theorems. *)

\* The invariant holds of every instance, through every interleaving.
THEOREM DetectionInvariant == Spec => []DInv
<1>1. CInv /\ Init => DInv
  <2> SUFFICES ASSUME CInv, Init PROVE DInv
    OBVIOUS
  <2>1. det = Free /\ \A t \in TxnId : status[t] = "running"
    BY DEF Init, ManagerInit
  <2>2. EdgesComplete /\ SearchExhausted /\ AskerIsRoot
    BY <2>1 DEF EdgesComplete, SearchExhausted, AskerIsRoot, Free
  <2>3. told \in [TxnId -> BOOLEAN]
    BY DEF Init
  <2>4. \A c \in Paths : ~IsCycle(WaitsFor, c)
    <3> TAKE c \in Paths
    <3>1. 1 \in 1 .. Len(c)
      BY PathType
    <3>2. WaitsFor = {}
      BY <2>1 DEF WaitsFor, Suspended
    <3> QED
      BY <3>1, <3>2 DEF IsCycle
  <2>5. DeadlockToldOrAsking
    BY <2>4 DEF DeadlockToldOrAsking
  <2> QED
    BY <2>2, <2>3, <2>5 DEF DInv
<1>2. DInv /\ CInv' /\ [Next]_vars => DInv'
  <2> SUFFICES ASSUME DInv, CInv', [Next]_vars PROVE DInv'
    OBVIOUS
  <2>1. told' \in [TxnId -> BOOLEAN]
    BY ToldType DEF DInv
  <2>2. CASE Next
    <3>1. EdgesComplete' /\ SearchExhausted' /\ AskerIsRoot'
      BY <2>2, NextComplete, NextExhausted, NextAsker DEF DInv
    <3>2. DeadlockToldOrAsking'
      BY <2>2, NextTold DEF CInv
    <3> QED
      BY <2>1, <3>1, <3>2 DEF DInv
  <2>3. CASE UNCHANGED vars
    <3>1. UNCHANGED <<locks, waits, det, status, told>>
      BY <2>3 DEF vars, managerVars, tableVars, clientVars
    <3>2. EdgesComplete' /\ SearchExhausted' /\ AskerIsRoot'
      BY <3>1 DEF DInv, EdgesComplete, SearchExhausted, AskerIsRoot, holders_blocking
    <3>3. WaitsFor' = WaitsFor
      BY <3>1 DEF WaitsFor, Suspended, holders_blocking
    <3>4. DeadlockToldOrAsking'
      BY <3>1, <3>3 DEF DInv, DeadlockToldOrAsking, IsCycle
    <3> QED
      BY <2>1, <3>2, <3>4 DEF DInv
  <2> QED
    BY <2>2, <2>3
<1> QED
  BY <1>1, <1>2, ClientsInvariant, PTL DEF Spec

\* When detection finds nothing there is nothing that the requester is part of or
\* waits for, although the graph was read one shard at a time.
THEOREM SilenceSound == Spec => []SilenceJustified
<1>1. DInv => SilenceJustified
  BY SilenceTrue DEF DInv, SilenceJustified
<1> QED
  BY <1>1, DetectionInvariant, PTL

\* No deadlock goes unnoticed: whenever no detection is in progress somebody in every
\* cycle of the true graph has been answered Deadlock.
THEOREM DetectionComplete == Spec => []EveryDeadlockTold
<1>1. DInv => EveryDeadlockTold
  <2> SUFFICES ASSUME DInv, det = Free, NEW c \in Paths, IsCycle(WaitsFor, c)
               PROVE  \E i \in 1 .. Len(c) : told[c[i]]
    BY DEF EveryDeadlockTold
  <2>1. PICK i \in 1 .. Len(c) : told[c[i]] \/ status[c[i]] = "asking"
    BY DEF DInv, DeadlockToldOrAsking
  <2>2. status[c[i]] # "asking"
    BY PathType DEF DInv, AskerIsRoot
  <2> QED
    BY <2>1, <2>2
<1> QED
  BY <1>1, DetectionInvariant, PTL
-----------------------------------------------------------------------------
(* The types. *)

\* What the clients do to the registry and to a detection, the manager does.
LEMMA ClientsUseManager ==
  ASSUME [Next]_vars
  PROVE  ManagerNext
<1>1. ASSUME NEW w \in Wants,
             AskGranted(w[1], w[2], w[3]) \/ AskBlocked(w[1], w[2], w[3])
      PROVE  ManagerNext
  <2>1. PICK t \in TxnId, r \in PointIds, m \in RequestModes : t = w[1] /\ r = w[2] /\ m = w[3]
    BY WantsType
  <2>2. request_granted(t, r, m) \/ request_blocked(t, r, m)
    BY <1>1, <2>1 DEF AskGranted, AskBlocked
  <2> QED
    BY <2>2 DEF ManagerNext
<1>2. ASSUME NEW w \in Wants, TryAcquire(w[1], w[2], w[3])
      PROVE  UNCHANGED <<waits, det>>
  BY <1>2 DEF TryAcquire, TableOnly
<1>3. ASSUME NEW t \in TxnId, Poll(t) \/ \E r \in PointIds : Release(t, r)
      PROVE  UNCHANGED <<waits, det>>
  BY <1>3 DEF Poll, Release, TableOnly
<1>4. ASSUME NEW t \in TxnId, Cancel(t) \/ \E th \in Threads : ReleaseAll(th, t)
      PROVE  ManagerNext
  BY <1>4 DEF Cancel, ReleaseAll, ManagerNext
<1>5. ASSUME NEW th \in Threads, Sweeping(th)
      PROVE  UNCHANGED <<waits, det>>
  BY <1>5 DEF Sweeping, release_all_step, TableOnly
<1>6. CASE FindDeadlock \/ Detect \/ Answer
  BY <1>6 DEF FindDeadlock, Detect, Answer, ManagerNext
<1>7. ASSUME UNCHANGED vars
      PROVE  UNCHANGED <<waits, det>>
  BY <1>7 DEF vars, managerVars
<1>8. UNCHANGED <<waits, det>> => ManagerNext
  BY DEF ManagerNext
<1> QED
  BY <1>1, <1>2, <1>3, <1>4, <1>5, <1>6, <1>7, <1>8 DEF Next

\* The registry, a detection and the clients' own state have the types of the source,
\* throughout: only requested resources are waited for, only transactions are visited.
THEOREM ClientTypeCorrect == Spec => []ClientTypeOK
<1>1. Init => ManagerInv
  BY InitManagerInv DEF Init
<1>2. CInv /\ ManagerInv /\ [Next]_vars => ManagerInv'
  <2>1. CInv => IInv
    BY DEF CInv
  <2> QED
    BY <2>1, ClientsUseManager, ManagerStep
<1>3. CInv /\ DInv /\ ManagerInv => ClientTypeOK
  <2> SUFFICES ASSUME CInv, DInv, ManagerInv PROVE ClientTypeOK
    OBVIOUS
  <2>1. ManagerTypeOK
    BY ManagerTyped DEF CInv
  <2> QED
    BY <2>1 DEF CInv, RegistryInv, BegunInv, DInv, ClientTypeOK
<1> QED
  BY <1>1, <1>2, <1>3, ClientsInvariant, DetectionInvariant, PTL DEF Spec

=============================================================================
