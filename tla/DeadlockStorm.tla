--------------------------- MODULE DeadlockStorm ---------------------------
(***************************************************************************)
(* Worker threads that provoke deadlocks and get out of them again: the    *)
(* client of tests/stress.rs (stress_deadlock_storm_always_makes_progress) *)
(* and, where Abort is a policy, that of examples/deadlock.rs and of       *)
(* docs/API.md (acquire_or_abort).                                         *)
(*                                                                         *)
(* A worker runs one transaction after the other.  Each requests the       *)
(* resources of its plan exclusively, one by one, asking again as long as  *)
(* it is told Waiting, and ends with release_all: because it has them all, *)
(* or because of a deadlock.  A worker, its thread and its transaction are *)
(* one element of TxnId: the source takes a fresh id for each attempt, but *)
(* a new attempt starts only when release_all has returned.                *)
(***************************************************************************)
EXTENDS LockManager

CONSTANTS
  Plans,          \* per worker: the resources an attempt locks, in their order
  Abort           \* whom a Deadlock has the worker abort: "self", or the victim
                  \* by one of the policies

ASSUME StormAssumption ==
  /\ Threads = TxnId
  /\ TxnId \subseteq Nat          \* TxnId is a u64, and its order is age
  /\ "X" \in RequestModes
  /\ DOMAIN Plans = TxnId
  /\ \A w \in TxnId : Plans[w] \subseteq Seq(PointIds) \ {<<>>}
  /\ Abort \in VictimPolicies \cup {"self"}

VARIABLES
  at,             \* where each worker is
  plan,           \* the plan of its attempt
  got,            \* how many of the plan's requests have been granted
  target          \* whom its release_all is for

workerVars == <<at, plan, got, target>>

stormVars == <<managerVars, workerVars>>

\* "working": about to request the next resource, for the first time or again;
\* "asking": inside a request that was not granted; "closing": about to call
\* release_all; "ending": inside it.
StormTypeOK ==
  /\ ManagerTypeOK
  /\ at \in [TxnId -> {"idle", "working", "asking", "closing", "ending"}]
  /\ \A w \in TxnId : /\ plan[w] \in Plans[w] \cup {<<>>}
                       /\ got[w] \in 0 .. Len(plan[w])
                       /\ at[w] \in {"working", "asking"} => got[w] < Len(plan[w])
  /\ target \in [TxnId -> TxnId]

StormInit ==
  /\ ManagerInit
  /\ at = [w \in TxnId |-> "idle"]
  /\ plan = [w \in TxnId |-> <<>>]
  /\ got = [w \in TxnId |-> 0]
  /\ target = [w \in TxnId |-> w]

\* The resource w asks for next.
next_resource(w) == plan[w][got[w] + 1]

Begin(w) ==
  /\ at[w] = "idle"
  /\ plan' \in {[plan EXCEPT ![w] = p] : p \in Plans[w]}
  /\ at' = [at EXCEPT ![w] = "working"]
  /\ UNCHANGED <<managerVars, got, target>>

\* request returns Granted; after the last one the transaction commits.
Granted(w) ==
  /\ at[w] = "working"
  /\ request_granted(w, next_resource(w), "X")
  /\ got' = [got EXCEPT ![w] = @ + 1]
  /\ IF got'[w] = Len(plan[w])
     THEN /\ at' = [at EXCEPT ![w] = "closing"]
          /\ target' = [target EXCEPT ![w] = w]
     ELSE UNCHANGED <<at, target>>
  /\ UNCHANGED plan

Blocked(w) ==
  /\ at[w] = "working"
  /\ request_blocked(w, next_resource(w), "X")
  /\ at' = [at EXCEPT ![w] = "asking"]
  /\ UNCHANGED <<plan, got, target>>

\* The rest of the request, up to its answer.
Detecting(w) ==
  /\ at[w] = "asking"
  /\ DetectCycle \/ \E v \in TxnId : ScanWaiter(v)
  /\ UNCHANGED workerVars

\* Mutant: the worker of the stress test aborts the victim in its own place.
abort_target_other(w, c) == pick_victim(c, "Youngest")

\* Whom w aborts when it is told of the deadlock c.
abort_target(w, c) == IF Abort = "self" THEN w ELSE pick_victim(c, Abort)

\* request returns Waiting, and is called again, or Deadlock.
Told(w) ==
  /\ at[w] = "asking"
  /\ DetectReturn
  /\ IF det.cycle = <<>>
     THEN /\ at' = [at EXCEPT ![w] = "working"]
          /\ UNCHANGED target
     ELSE /\ at' = [at EXCEPT ![w] = "closing"]
          /\ target' = [target EXCEPT ![w] = abort_target(w, det.cycle)]
  /\ UNCHANGED <<plan, got>>

\* The spin budget of a Waiting worker is used up.
GiveUp(w) ==
  /\ at[w] = "working"
  /\ w \in DOMAIN waits
  /\ at' = [at EXCEPT ![w] = "closing"]
  /\ target' = [target EXCEPT ![w] = w]
  /\ UNCHANGED <<managerVars, plan, got>>

Close(w) ==
  /\ at[w] = "closing"
  /\ release_all_call(w, target[w])
  /\ at' = [at EXCEPT ![w] = "ending"]
  /\ UNCHANGED <<plan, got, target>>

\* release_all returns at its last step; having aborted another transaction than
\* its own, the worker requests again.
Ending(w) ==
  /\ at[w] = "ending"
  /\ release_all_step(w)
  /\ IF sweep'[w] # Idle
     THEN UNCHANGED <<at, plan, got>>
     ELSE IF target[w] # w
     THEN /\ at' = [at EXCEPT ![w] = "working"]
          /\ UNCHANGED <<plan, got>>
     ELSE /\ at' = [at EXCEPT ![w] = "idle"]
          /\ plan' = [plan EXCEPT ![w] = <<>>]
          /\ got' = [got EXCEPT ![w] = 0]
  /\ UNCHANGED target

Step(w) ==
  \/ Begin(w) \/ Granted(w) \/ Blocked(w) \/ Detecting(w)
  \/ Told(w) \/ Close(w) \/ Ending(w)

StormNext == \E w \in TxnId : Step(w) \/ GiveUp(w)

\* Every thread goes on, and one that keeps asking for a mutex gets it.
StormSpec ==
  /\ StormInit
  /\ [][StormNext]_stormVars
  /\ \A w \in TxnId : SF_stormVars(Step(w))

-----------------------------------------------------------------------------
(* What is promised to the workers. *)

\* The resources granted to w's present attempt, until it calls release_all.
GrantedTo(w) ==
  IF at[w] \in {"working", "asking", "closing"} \/ (at[w] = "ending" /\ target[w] # w)
  THEN {plan[w][i] : i \in 1 .. got[w]} ELSE {}

Has(w, r) == Holds(entry_or_new(locks[shard_index[r]], r), w)

\* What a worker was granted it still holds, until it ends its attempt itself
\* (Acquisition::Granted: "the transaction holds it and may proceed").
GrantHeld == \A w \in TxnId : \A r \in GrantedTo(w) : Has(w, r)

\* A worker whose every request was answered Granted, and that is about to commit,
\* has all its locks (acquire_or_abort returned true: it was not the victim).
CommitsHoldAll ==
  \A w \in TxnId :
     (at[w] = "closing" /\ target[w] = w /\ got[w] = Len(plan[w]))
        => \A r \in Elems(plan[w]) : Has(w, r)

\* Every member of a cycle that is about to be reported waits, in the registry and
\* in the table as they are now, for a lock that the next one holds (request: "a
\* transaction is never reported as deadlocked unless it genuinely is").
ReportsStand ==
  det.pc = "done" =>
     \A i \in 1 .. Len(det.cycle) :
        /\ det.cycle[i] \in DOMAIN waits
        /\ LET wait == waits[det.cycle[i]]
           IN  Next1(det.cycle, i) \in holders_blocking(det.cycle[i], wait[1], wait[2])

\* Between attempts nothing is left of a transaction, neither a lock nor a wait
\* (stress.rs: "no lingering locks or waits").
NothingLingers ==
  (\A w \in TxnId : at[w] = "idle") =>
     waiting_count = 0 /\ \A r \in PointIds : holder_count(r) = 0

\* w cannot go on before u has released something.
Stuck(w, u) ==
  /\ at[w] \in {"working", "asking"}
  /\ u \in holders_blocking(w, next_resource(w), "X")

\* Nobody in S can go on before somebody else in S has released something.
Deadlocked(S) == \A w \in S : \E u \in S : Stuck(w, u)

\* A deadlock never lasts: somebody in it is told and releases what the others
\* wait for, whoever closed the cycle and however the requests interleave.
DeadlockDissolved == \A S \in SUBSET TxnId \ {{}} : Deadlocked(S) ~> ~Deadlocked(S)

\* No thread waits for a mutex for ever: the registry's is outside the shards',
\* and release_all holds only one of them at a time (the field waits).
CallsReturn ==
  /\ det # Free ~> det = Free
  /\ \A w \in TxnId : sweep[w] # Idle ~> sweep[w] = Idle

\* Nobody is passed over for ever: who could be granted its lock again and again
\* does ask at such a moment in the end.
RetriesMeetReleases == \A w \in TxnId : SF_stormVars(Granted(w))

\* Then no attempt waits for ever: it gets all its locks or it is aborted.
AttemptsEnd == RetriesMeetReleases => \A w \in TxnId : at[w] = "working" ~> at[w] = "idle"

=============================================================================
