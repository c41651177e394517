---------------------------- MODULE LockManager ----------------------------
(***************************************************************************)
(* The whole LockManager of src/manager.rs: the lock table, the registry   *)
(* of waiting transactions, and deadlock detection (request,               *)
(* find_deadlock) over the wait-for graph of src/deadlock.rs.              *)
(*                                                                         *)
(* request and find_deadlock hold the mutex of the registry from their     *)
(* first to their last statement and lock one shard at a time underneath   *)
(* it: the graph is read shard by shard, while other threads change the    *)
(* shards that are not being read.  det is the local state of the thread   *)
(* holding that mutex.  A call starts with the step that first touches     *)
(* shared data: only taking the mutex before it is not a step of its own.  *)
(***************************************************************************)
EXTENDS LockTable

INSTANCE Cycles

VARIABLES
  waits,          \* HashMap<TxnId, (ResourceId, LockMode)>
  det             \* the call that holds the registry's mutex

managerVars == <<tableVars, waits, det>>

\* Nobody holds the registry's mutex.
Free == [pc |-> "free"]

\* "scan": build_wait_graph, with todo the waiters still to be visited and
\* edges the graph so far; "done": about to return cycle (<<>> for none).
\* roots: where the search starts, one requester or, in find_deadlock, anywhere.
Detection ==
  [pc : {"scan", "done"}, roots : SUBSET TxnId, todo : SUBSET TxnId,
   edges : SUBSET (TxnId \X TxnId), cycle : Seq(TxnId)]

ManagerTypeOK ==
  /\ TypeOK
  /\ IsHashMap(waits, TxnId, ResourceId \X LockModes)
  /\ det \in Detection \cup {Free}

ManagerInit ==
  /\ TableInit
  /\ waits = EmptyMap
  /\ det = Free

-----------------------------------------------------------------------------

VictimPolicies == {"Youngest", "Oldest"}

\* Ids stand for age: the larger, the younger.
pick_victim(c, policy) ==
  CHOOSE v \in Elems(c) :
    \A u \in Elems(c) : IF policy = "Youngest" THEN u <= v ELSE v <= u

-----------------------------------------------------------------------------
(* request *)

\* Mutant: a granted request leaves the wait of an earlier attempt registered.
request_granted_waiting(t, r, m) ==
  /\ det = Free
  /\ ShardFree(shard_index[r])
  /\ grants(entry_or_new(locks[shard_index[r]], r), t, m)
  /\ try_grant_locked(t, r, m)
  /\ UNCHANGED <<waits, ranges, range_by_txn, sweep, det>>

\* The grant attempt succeeds: forget the wait and return Granted.
request_granted(t, r, m) ==
  /\ det = Free
  /\ ShardFree(shard_index[r])
  /\ grants(entry_or_new(locks[shard_index[r]], r), t, m)
  /\ try_grant_locked(t, r, m)
  /\ waits' = remove(waits, t)
  /\ UNCHANGED <<ranges, range_by_txn, sweep, det>>

\* Mutant: the graph is built before the new wait is registered.
scan_from_old(old, cur, R) ==
  [pc |-> "scan", roots |-> R, todo |-> DOMAIN old, edges |-> {}, cycle |-> <<>>]

\* build_wait_graph is entered with the registry cur (the call found old).
scan_from(old, cur, R) ==
  [pc |-> "scan", roots |-> R, todo |-> DOMAIN cur, edges |-> {}, cycle |-> <<>>]

\* Mutant: a blocked request is not registered.
registered_not(w, t, r, m) == w

registered(w, t, r, m) == insert(w, t, <<r, m>>)

\* It fails: register the wait and go on to build the graph.
request_blocked(t, r, m) ==
  /\ det = Free
  /\ ShardFree(shard_index[r])
  /\ ~grants(entry_or_new(locks[shard_index[r]], r), t, m)
  /\ try_grant_locked(t, r, m)
  /\ waits' = registered(waits, t, r, m)
  /\ det' = scan_from(waits, waits', {t})
  /\ UNCHANGED <<ranges, range_by_txn, sweep>>

find_deadlock_call ==
  /\ det = Free
  /\ det' = scan_from(waits, waits, DOMAIN waits)
  /\ UNCHANGED <<tableVars, waits>>

\* One iteration of build_wait_graph, under the lock of w's shard; the waiters
\* come in the arbitrary order of the HashMap.
ScanWaiter(w) ==
  /\ det.pc = "scan"
  /\ w \in det.todo
  /\ ShardFree(shard_index[waits[w][1]])
  /\ LET blockers == holders_blocking(w, waits[w][1], waits[w][2])
     IN  det' = [det EXCEPT !.todo = @ \ {w}, !.edges = @ \cup {<<w, h>> : h \in blockers}]
  /\ UNCHANGED <<tableVars, waits>>

\* The search, on the thread's own graph.
DetectCycle ==
  /\ det.pc = "scan"
  /\ det.todo = {}
  /\ \E c \in cycle_from(det.edges, det.roots) :
        det' = [det EXCEPT !.pc = "done", !.cycle = c]
  /\ UNCHANGED <<tableVars, waits>>

\* Return Waiting or Deadlock (or find_deadlock's Option) and unlock.
DetectReturn ==
  /\ det.pc = "done"
  /\ det' = Free
  /\ UNCHANGED <<tableVars, waits>>

-----------------------------------------------------------------------------
(* The other operations. *)

cancel_wait(t) ==
  /\ det = Free
  /\ waits' = remove(waits, t)
  /\ UNCHANGED <<tableVars, det>>

\* Mutant: release_all leaves the wait registered.
wait_cleared_not(w, t) == w

wait_cleared(w, t) == remove(w, t)

\* release_all: the wait is cleared first, in a critical section of its own.
release_all_call(th, t) ==
  /\ det = Free
  /\ ReleaseAllCall(th, t)
  /\ waits' = wait_cleared(waits, t)
  /\ UNCHANGED det

\* An operation of the table that does not touch the registry.
TableOnly(A) == A /\ UNCHANGED <<waits, det>>

\* Mutant: release_all wants the registry's mutex while it is inside a shard.
release_all_step_nested(th) ==
  /\ sweep[th].pc = "inside" => det = Free
  /\ TableOnly(ReleaseAllStep(th))

\* release_all in the shards: the registry's mutex has been given back.
release_all_step(th) == TableOnly(ReleaseAllStep(th))

\* LockManager::waiting_count and holder_count.
waiting_count == Cardinality(DOMAIN waits)

holder_count(r) == Len(entry_or_new(locks[shard_index[r]], r))

=============================================================================
