---------------------------- MODULE LockClients ----------------------------
(***************************************************************************)
(* The lock manager together with transactions that use it the way its     *)
(* documentation asks: a transaction told Waiting or Deadlock is suspended *)
(* until it calls request again, gives up with cancel_wait or ends with    *)
(* release_all.  Running transactions call anything, try_acquire too.      *)
(*                                                                         *)
(* Anybody may call release_all for a transaction, having been told of a   *)
(* deadlock, and its own worker does not notice: it goes on calling while  *)
(* release_all takes its locks away, shard by shard, its retry of request  *)
(* included.                                                               *)
(***************************************************************************)
EXTENDS LockManager

CONSTANTS
  Wants,          \* the <<t, r, m>> such that t may ask for r in mode m
  Pollers         \* the transactions that, suspended, may retry with try_acquire

ASSUME ClientAssumption ==
  /\ Wants \subseteq TxnId \X PointIds \X RequestModes
  /\ Pollers \subseteq TxnId

VARIABLES
  status,         \* what each transaction is doing
  told,           \* its latest request has been answered Deadlock
  begun           \* history: how things stood when the present detection began

clientVars == <<status, told, begun>>

vars == <<managerVars, clientVars>>

\* "asking": inside a request whose grant attempt has failed; "waiting":
\* suspended; "stray": running, but its wait has been left in the registry.
ClientTypeOK ==
  /\ ManagerTypeOK
  /\ status \in [TxnId -> {"running", "asking", "waiting", "stray"}]
  /\ told \in [TxnId -> BOOLEAN]
  /\ begun \in [graph : SUBSET (TxnId \X TxnId), released : SUBSET TxnId]

Running(t) == status[t] \in {"running", "stray"}

Suspended(t) == status[t] \in {"asking", "waiting"} /\ t \in DOMAIN waits

\* The wait-for graph as it truly is, as far as deadlocks are made of it: a
\* suspended transaction, and another suspended one that holds what it waits for.
WaitsFor ==
  {e \in TxnId \X TxnId :
     /\ Suspended(e[1]) /\ Suspended(e[2])
     /\ e[2] \in holders_blocking(e[1], waits[e[1]][1], waits[e[1]][2])}

\* The transactions whose locks some thread is releasing.
BeingReleased == {sweep[th].txn : th \in {x \in Threads : sweep[x] # Idle}}

NoDetection == [graph |-> {}, released |-> {}]

\* A detection begins in this step (it has the registry from here to its answer).
Begins == begun' = [graph |-> WaitsFor', released |-> BeingReleased']

Init ==
  /\ ManagerInit
  /\ status = [t \in TxnId |-> "running"]
  /\ told = [t \in TxnId |-> FALSE]
  /\ begun = NoDetection

\* t's request for r is granted: its first one, or the retry of a suspended t.
AskGranted(t, r, m) ==
  /\ \/ Running(t)
     \/ status[t] = "waiting" /\ waits[t] = <<r, m>>
  /\ request_granted(t, r, m)
  /\ status' = [status EXCEPT ![t] = "running"]
  /\ told' = [told EXCEPT ![t] = FALSE]
  /\ UNCHANGED begun

AskBlocked(t, r, m) ==
  /\ \/ Running(t)
     \/ status[t] = "waiting" /\ waits[t] = <<r, m>>
  /\ request_blocked(t, r, m)
  /\ status' = [status EXCEPT ![t] = "asking"]
  /\ told' = [told EXCEPT ![t] = FALSE]
  /\ Begins

FindDeadlock ==
  /\ find_deadlock_call
  /\ UNCHANGED <<status, told>>
  /\ Begins

Detect ==
  /\ DetectCycle \/ \E w \in TxnId : ScanWaiter(w)
  /\ UNCHANGED clientVars

\* The answer arrives: the requester is suspended, whatever it is.
Answer ==
  /\ DetectReturn
  /\ status' = [t \in TxnId |-> IF status[t] = "asking" THEN "waiting" ELSE status[t]]
  /\ told' = [t \in TxnId |-> IF status[t] = "asking" THEN det.cycle # <<>> ELSE told[t]]
  /\ begun' = NoDetection

TryAcquire(t, r, m) ==
  /\ Running(t)
  /\ TableOnly(try_acquire(t, r, m))
  /\ UNCHANGED clientVars

\* A suspended transaction retries without request, and stops waiting when that
\* acquires the lock: cancel_wait is documented for stopping without acquiring.
Poll(t) ==
  /\ t \in Pollers
  /\ status[t] = "waiting"
  /\ t \in DOMAIN waits
  /\ LET r == waits[t][1]
         m == waits[t][2]
     IN  /\ TableOnly(try_acquire(t, r, m))
         /\ grants(entry_or_new(locks[shard_index[r]], r), t, m)
  /\ status' = [status EXCEPT ![t] = "stray"]
  /\ told' = [told EXCEPT ![t] = FALSE]
  /\ UNCHANGED begun

Release(t, r) ==
  /\ Running(t)
  /\ TableOnly(release(t, r))
  /\ UNCHANGED clientVars

\* t times out, say, and goes on to do something else.
Cancel(t) ==
  /\ status[t] = "waiting"
  /\ cancel_wait(t)
  /\ status' = [status EXCEPT ![t] = "running"]
  /\ told' = [told EXCEPT ![t] = FALSE]
  /\ UNCHANGED begun

\* Commit or abort, of t's own accord or as the victim of a deadlock, by whoever
\* was told of it.  t has no wait from here on; whatever it calls next, and it may
\* call it at once, finds more or fewer of its locks gone.
ReleaseAll(th, t) ==
  /\ release_all_call(th, t)
  /\ status' = [status EXCEPT ![t] = "running"]
  /\ told' = [told EXCEPT ![t] = FALSE]
  /\ UNCHANGED begun

Sweeping(th) == release_all_step(th) /\ UNCHANGED clientVars

Next ==
  \/ \E w \in Wants : \/ AskGranted(w[1], w[2], w[3])
                     \/ AskBlocked(w[1], w[2], w[3])
                     \/ TryAcquire(w[1], w[2], w[3])
  \/ \E t \in TxnId, r \in PointIds : Release(t, r)
  \/ \E t \in TxnId : Poll(t) \/ Cancel(t) \/ \E th \in Threads : ReleaseAll(th, t)
  \/ \E th \in Threads : Sweeping(th)
  \/ FindDeadlock \/ Detect \/ Answer

Spec == Init /\ [][Next]_vars

-----------------------------------------------------------------------------
(* What is promised of detection. *)

\* A cycle is about to be reported.
Reporting == det.pc = "done" /\ det.cycle # <<>>

\* A reported cycle was a deadlock when the call took the registry, although the
\* graph was read shard by shard after that, while others went on: every member
\* was suspended and waited for a lock that the next one held.
\* (request: "a transaction is never reported as deadlocked unless it genuinely
\* is"; find_deadlock: "it reports only genuine deadlocks".)
ReportsGenuine == Reporting => IsCycle(begun.graph, det.cycle)

\* Whatever strays do beside it, a report without one of them was genuine when its
\* detection began.
OthersGenuine ==
  (Reporting /\ \A t \in Elems(det.cycle) : status[t] # "stray")
     => IsCycle(begun.graph, det.cycle)

\* And it still is, but for edges to a transaction that somebody was releasing when
\* the detection began: nothing else that runs beside a detection, neither grants,
\* releases and upgrades nor a release_all called in time to clear its wait, can
\* undo a deadlock before it is reported.
OnlyReleaseUndoes ==
  (Reporting /\ \A t \in Elems(det.cycle) : status[t] # "stray")
     => \A i \in 1 .. Len(det.cycle) :
          \/ <<det.cycle[i], Next1(det.cycle, i)>> \in WaitsFor
          \/ Next1(det.cycle, i) \in begun.released

\* When detection finds nothing there is nothing: no deadlock that the requester
\* is part of or waits for, or, in find_deadlock, no deadlock at all.
SilenceJustified ==
  det.pc = "done" /\ det.cycle = <<>> =>
     LET graph == WaitsFor
     IN  ~\E c \in Paths : IsCycle(graph, c) /\ c[1] \in Reachable(graph, det.roots)

\* No deadlock goes unnoticed: whenever no detection is in progress, in every
\* cycle of the true graph somebody's latest request was answered Deadlock,
\* whichever member closed it and whatever was scanned at the time.
EveryDeadlockTold ==
  det = Free =>
     LET graph == WaitsFor
     IN  \A c \in Paths : IsCycle(graph, c) => \E i \in 1 .. Len(c) : told[c[i]]

\* The registry holds exactly the suspended transactions and the strays: a grant,
\* cancel_wait and release_all clear a wait, so no other stale one is left.
RegistryExact ==
  DOMAIN waits = {t \in TxnId : status[t] \in {"asking", "waiting", "stray"}}

=============================================================================
