------------------------ MODULE DeadlockStormProofs ------------------------
(***************************************************************************)
(* For every number of workers and resources and all plans: between their  *)
(* attempts the workers leave neither a lock nor a wait behind, whomever a *)
(* Deadlock has them abort; and if each aborts itself none ever loses a    *)
(* lock it was granted.                                                    *)
(***************************************************************************)
EXTENDS DeadlockStorm, ManagerProofs

\* The plan of w's attempt is one of its plans, and followed from the start; who
\* aborts another one has not been granted its own last request.
PlanInv ==
  /\ at \in [TxnId -> {"idle", "working", "asking", "closing", "ending"}]
  /\ plan \in [TxnId -> Seq(PointIds)]
  /\ got \in [TxnId -> Nat]
  /\ target \in [TxnId -> TxnId]
  /\ \A w \in TxnId :
       /\ plan[w] \in Plans[w] \cup {<<>>}
       /\ got[w] <= Len(plan[w])
       /\ at[w] \in {"working", "asking"} \/ target[w] # w => got[w] < Len(plan[w])
       /\ at[w] = "idle" => got[w] = 0 /\ target[w] = w

\* A worker is inside release_all exactly while its thread is.
EndingInv ==
  \A w \in TxnId : /\ sweep[w] # Idle <=> at[w] = "ending"
                   /\ sweep[w] # Idle => sweep[w].txn = target[w]

\* w's own release_all has been through r's shard.
Cleared(w, r) ==
  \/ at[w] = "idle"
  \/ at[w] = "ending" /\ target[w] = w /\ shard_index[r] < sweep[w].shard

\* From then on, and until its next attempt, w holds nothing there; nor is it
\* registered as waiting once that release_all has begun.
CleanInv ==
  \A w \in TxnId :
     /\ \A r \in PointIds : Cleared(w, r) => ModesOf(w, r) = {}
     /\ (at[w] = "idle" \/ (at[w] = "ending" /\ target[w] = w)) => w \notin DOMAIN waits

WInv == TableInv /\ ManagerInv /\ PlanInv /\ EndingInv /\ CleanInv

\* Nobody's locks are released but by its own thread.
OwnTargets == target = [w \in TxnId |-> w]

\* What has been granted to an attempt is held.
GrantedInv ==
  \A w \in TxnId : at[w] \in {"working", "asking", "closing"} =>
     \A i \in 1 .. got[w] : ModesOf(w, plan[w][i]) # {}

SInv == WInv /\ OwnTargets /\ GrantedInv

-----------------------------------------------------------------------------
(* The steps, seen from the table, the registry and the other workers. *)

\* The next resource of an unfinished plan is one of the table's.
LEMMA NextResource ==
  ASSUME PlanInv, NEW w \in TxnId, at[w] = "working"
  PROVE  next_resource(w) \in PointIds /\ got[w] + 1 \in 1 .. Len(plan[w])
<1>1. plan[w] \in Seq(PointIds) /\ got[w] \in Nat /\ got[w] < Len(plan[w])
  BY DEF PlanInv
<1>2. got[w] + 1 \in 1 .. Len(plan[w])
  BY <1>1
<1> QED
  BY <1>1, <1>2 DEF next_resource

\* A step of w that is not one of its requests or of its release_all leaves the
\* table alone.
LEMMA IdleSteps ==
  ASSUME NEW w \in TxnId, Begin(w) \/ Detecting(w) \/ Told(w) \/ GiveUp(w)
  PROVE  UNCHANGED tableVars
BY DEF Begin, Detecting, DetectCycle, ScanWaiter, Told, DetectReturn, GiveUp, managerVars

\* A request of w, granted or not, is a try_acquire.
LEMMA RequestTried ==
  ASSUME NEW w \in TxnId, Granted(w) \/ Blocked(w)
  PROVE  try_acquire(w, next_resource(w), "X")
BY DEF Granted, Blocked, request_granted, request_blocked, try_acquire

\* A worker's release_all is for a transaction (abort_target).
LEMMA TargetType ==
  ASSUME ManagerInv, NEW w \in TxnId, det.pc = "done", det.cycle # <<>>
  PROVE  abort_target(w, det.cycle) \in TxnId
<1>1. det # Free
  BY DEF Free
<1>2. det \in Detection
  BY <1>1 DEF ManagerInv
<1>3. PICK c \in Seq(TxnId) : c = det.cycle
  BY <1>2 DEF Detection
<1>4. pick_victim(c, Abort) \in TxnId
  BY <1>3, VictimMember, StormAssumption
<1> QED
  BY <1>3, <1>4 DEF abort_target

\* No step does to the table what TableNext does not.
LEMMA StormUsesTable ==
  ASSUME PlanInv, [StormNext]_stormVars
  PROVE  [TableNext]_tableVars
<1>1. ASSUME NEW w \in TxnId, Granted(w) \/ Blocked(w)
      PROVE  TableNext
  <2>1. try_acquire(w, next_resource(w), "X")
    BY <1>1, RequestTried
  <2>2. next_resource(w) \in PointIds
    BY <1>1, NextResource DEF Granted, Blocked
  <2> QED
    BY <2>1, <2>2, StormAssumption DEF TableNext
<1>2. ASSUME NEW w \in TxnId, Close(w)
      PROVE  TableNext
  <2>1. ReleaseAllCall(w, target[w]) /\ w \in Threads /\ target[w] \in TxnId
    BY <1>2, StormAssumption DEF Close, release_all_call, PlanInv
  <2> QED
    BY <2>1 DEF TableNext
<1>3. ASSUME NEW w \in TxnId, Ending(w)
      PROVE  TableNext
  BY <1>3, StormAssumption DEF Ending, release_all_step, TableOnly, TableNext
<1>4. CASE UNCHANGED stormVars
  BY <1>4 DEF stormVars, managerVars
<1> QED
  BY <1>1, <1>2, <1>3, <1>4, IdleSteps DEF StormNext, Step

\* Nor to the registry and to a detection what ManagerNext does not.
LEMMA StormUsesManager ==
  ASSUME PlanInv, [StormNext]_stormVars
  PROVE  ManagerNext
<1>1. ASSUME NEW w \in TxnId, Granted(w) \/ Blocked(w)
      PROVE  ManagerNext
  <2> PICK r \in PointIds, m \in RequestModes : r = next_resource(w) /\ m = "X"
    BY <1>1, NextResource, StormAssumption DEF Granted, Blocked
  <2>1. request_granted(w, r, m) \/ request_blocked(w, r, m)
    BY <1>1 DEF Granted, Blocked
  <2> QED
    BY <2>1 DEF ManagerNext
<1>2. ASSUME NEW w \in TxnId, Close(w)
      PROVE  ManagerNext
  <2>1. release_all_call(w, target[w]) /\ w \in Threads /\ target[w] \in TxnId
    BY <1>2, StormAssumption DEF Close, PlanInv
  <2> QED
    BY <2>1 DEF ManagerNext
<1>3. ASSUME NEW w \in TxnId, Detecting(w) \/ Told(w)
      PROVE  ManagerNext
  BY <1>3 DEF Detecting, Told, ManagerNext
<1>4. ASSUME NEW w \in TxnId, Begin(w) \/ GiveUp(w) \/ Ending(w)
      PROVE  UNCHANGED <<waits, det>>
  BY <1>4 DEF Begin, GiveUp, Ending, release_all_step, TableOnly, managerVars
<1>5. ASSUME UNCHANGED stormVars
      PROVE  UNCHANGED <<waits, det>>
  BY <1>5 DEF stormVars, managerVars
<1>6. UNCHANGED <<waits, det>> => ManagerNext
  BY DEF ManagerNext
<1> QED
  BY <1>1, <1>2, <1>3, <1>4, <1>5, <1>6 DEF StormNext, Step

\* A step of w gives nothing to the other workers, and takes something away only
\* from whom its release_all is for.
LEMMA OthersLose ==
  ASSUME IInv, PlanInv, EndingInv, NEW w \in TxnId, Step(w) \/ GiveUp(w),
         NEW v \in TxnId, v # w, NEW x \in ResourceId
  PROVE  /\ ModesOf(v, x)' \subseteq ModesOf(v, x)
         /\ v # target[w] => ModesOf(v, x)' = ModesOf(v, x)
<1>1. CASE Granted(w) \/ Blocked(w)
  <2> PICK r \in PointIds, m \in RequestModes : r = next_resource(w) /\ m = "X"
    BY <1>1, NextResource, StormAssumption DEF Granted, Blocked
  <2>1. try_acquire(w, r, m)
    BY <1>1, RequestTried
  <2>2. ModesOf(v, x)' = ModesOf(v, x)
    BY <2>1, TryAcquireModes
  <2> QED
    BY <2>2
<1>2. CASE Close(w)
  <2>1. ModesOf(v, x)' = ModesOf(v, x)
    BY <1>2 DEF Close, release_all_call, ReleaseAllCall, ModesOf
  <2> QED
    BY <2>1
<1>3. CASE Ending(w)
  <2>1. w \in Threads /\ ReleaseAllStep(w)
    BY <1>3, StormAssumption DEF Ending, release_all_step, TableOnly
  <2>2. sweep[w].txn = target[w]
    BY <2>1, SweepStep DEF EndingInv
  <2> QED
    BY <2>1, <2>2, ReleaseAllModes
<1>4. CASE UNCHANGED tableVars
  <2>1. ModesOf(v, x)' = ModesOf(v, x)
    BY <1>4 DEF tableVars, ModesOf
  <2> QED
    BY <2>1
<1> QED
  BY <1>1, <1>2, <1>3, <1>4, IdleSteps DEF Step

\* A step of w leaves the local variables of the other workers alone.
LEMMA OthersLocals ==
  ASSUME PlanInv, NEW w \in TxnId, Step(w) \/ GiveUp(w)
  PROVE  /\ at' = [at EXCEPT ![w] = at'[w]] /\ plan' = [plan EXCEPT ![w] = plan'[w]]
         /\ got' = [got EXCEPT ![w] = got'[w]] /\ target' = [target EXCEPT ![w] = target'[w]]
<1>1. CASE Begin(w)
  <2>1. PICK p \in Plans[w] : plan' = [plan EXCEPT ![w] = p]
    BY <1>1 DEF Begin
  <2> QED
    BY <1>1, <2>1 DEF Begin, PlanInv
<1>2. CASE Granted(w)
  BY <1>2 DEF Granted, PlanInv
<1>3. CASE Blocked(w) \/ Detecting(w)
  BY <1>3 DEF Blocked, Detecting, PlanInv, workerVars
<1>4. CASE Told(w)
  <2>1. PICK u : u = abort_target(w, det.cycle)
    OBVIOUS
  <2> QED
    BY <1>4, <2>1 DEF Told, PlanInv
<1>5. CASE GiveUp(w)
  BY <1>5 DEF GiveUp, PlanInv
<1>6. CASE Close(w) \/ Ending(w)
  BY <1>6 DEF Close, Ending, PlanInv
<1> QED
  BY <1>1, <1>2, <1>3, <1>4, <1>5, <1>6 DEF Step

\* A worker's own variables go through an attempt as its code does.
LEMMA OwnLocals ==
  ASSUME ManagerInv, PlanInv, NEW w \in TxnId, Step(w) \/ GiveUp(w)
  PROVE  /\ at'[w] \in {"idle", "working", "asking", "closing", "ending"}
         /\ plan'[w] \in Seq(PointIds) /\ got'[w] \in Nat /\ target'[w] \in TxnId
         /\ plan'[w] \in Plans[w] \cup {<<>>}
         /\ got'[w] <= Len(plan'[w])
         /\ at'[w] \in {"working", "asking"} \/ target'[w] # w => got'[w] < Len(plan'[w])
         /\ at'[w] = "idle" => got'[w] = 0 /\ target'[w] = w
<1>1. /\ plan[w] \in Seq(PointIds) /\ got[w] \in Nat /\ Len(plan[w]) \in Nat
      /\ plan[w] \in Plans[w] \cup {<<>>} /\ target[w] \in TxnId
      /\ got[w] <= Len(plan[w])
      /\ at[w] \in {"working", "asking"} \/ target[w] # w => got[w] < Len(plan[w])
      /\ at[w] = "idle" => got[w] = 0 /\ target[w] = w
  BY DEF PlanInv
<1>2. CASE Begin(w)
  <2>1. PICK p \in Plans[w] : plan' = [plan EXCEPT ![w] = p]
    BY <1>2 DEF Begin
  <2>2. p \in Seq(PointIds) /\ p # <<>>
    BY StormAssumption
  <2>3. Len(p) \in Nat /\ Len(p) > 0
    BY <2>2
  <2>4. plan'[w] = p /\ got'[w] = 0 /\ at'[w] = "working" /\ target' = target
    BY <1>1, <1>2, <2>1 DEF Begin, PlanInv
  <2> QED
    BY <1>1, <2>2, <2>3, <2>4
<1>3. CASE Granted(w)
  <2>1. /\ at[w] = "working" /\ plan' = plan /\ got'[w] = got[w] + 1
        /\ IF got'[w] = Len(plan[w]) THEN at'[w] = "closing" /\ target'[w] = w
           ELSE at'[w] = "working" /\ target'[w] = target[w]
    BY <1>3 DEF Granted, PlanInv
  <2> QED
    BY <1>1, <2>1
<1>4. CASE Blocked(w) \/ Detecting(w)
  <2>1. /\ at[w] \in {"working", "asking"} /\ plan' = plan /\ got' = got
        /\ at'[w] = "asking" /\ target' = target
    BY <1>4 DEF Blocked, Detecting, PlanInv, workerVars
  <2> QED
    BY <1>1, <2>1
<1>5. CASE Told(w)
  <2>1. at[w] = "asking" /\ plan' = plan /\ got' = got /\ det.pc = "done"
    BY <1>5 DEF Told, DetectReturn
  <2>2. CASE det.cycle = <<>>
    <3>1. at'[w] = "working" /\ target' = target
      BY <1>5, <2>2 DEF Told, PlanInv
    <3> QED
      BY <1>1, <2>1, <3>1
  <2>3. CASE det.cycle # <<>>
    <3>1. PICK u \in TxnId : u = abort_target(w, det.cycle)
      BY <2>1, <2>3, TargetType
    <3>2. at'[w] = "closing" /\ target'[w] = u
      BY <1>5, <2>3, <3>1 DEF Told, PlanInv
    <3> QED
      BY <1>1, <2>1, <3>2
  <2> QED
    BY <2>2, <2>3
<1>6. CASE GiveUp(w)
  <2>1. plan' = plan /\ got' = got /\ at'[w] = "closing" /\ target'[w] = w
    BY <1>6 DEF GiveUp, PlanInv
  <2> QED
    BY <1>1, <2>1
<1>7. CASE Close(w)
  <2>1. plan' = plan /\ got' = got /\ at'[w] = "ending" /\ target' = target
    BY <1>7 DEF Close, PlanInv
  <2> QED
    BY <1>1, <2>1
<1>8. CASE Ending(w)
  <2>1. target' = target
    BY <1>8 DEF Ending
  <2>2. \/ at'[w] = "ending" /\ plan' = plan /\ got' = got
        \/ at'[w] = "working" /\ target[w] # w /\ plan' = plan /\ got' = got
        \/ at'[w] = "idle" /\ target[w] = w /\ plan'[w] = <<>> /\ got'[w] = 0
    BY <1>8 DEF Ending, PlanInv
  <2>3. <<>> \in Seq(PointIds) /\ Len(<<>>) = 0
    OBVIOUS
  <2>4. ASSUME plan'[w] = <<>>
        PROVE  plan'[w] \in Seq(PointIds) /\ Len(plan'[w]) = 0
    BY <2>3, <2>4, Zenon
  <2>5. CASE at'[w] = "idle" /\ target[w] = w /\ plan'[w] = <<>> /\ got'[w] = 0
    BY <1>1, <2>1, <2>4, <2>5
  <2>6. CASE at'[w] \in {"ending", "working"} /\ plan' = plan /\ got' = got
    BY <1>1, <2>1, <2>2, <2>6
  <2> QED
    BY <2>2, <2>5, <2>6
<1> QED
  BY <1>2, <1>3, <1>4, <1>5, <1>6, <1>7, <1>8 DEF Step

\* Every step keeps the workers' own variables in order.
LEMMA PlanStep ==
  ASSUME ManagerInv, PlanInv, NEW w \in TxnId, Step(w) \/ GiveUp(w)
  PROVE  PlanInv'
<1>1. /\ at' = [at EXCEPT ![w] = at'[w]] /\ plan' = [plan EXCEPT ![w] = plan'[w]]
      /\ got' = [got EXCEPT ![w] = got'[w]] /\ target' = [target EXCEPT ![w] = target'[w]]
  BY OthersLocals
<1>2. /\ at'[w] \in {"idle", "working", "asking", "closing", "ending"}
      /\ plan'[w] \in Seq(PointIds) /\ got'[w] \in Nat /\ target'[w] \in TxnId
      /\ plan'[w] \in Plans[w] \cup {<<>>}
      /\ got'[w] <= Len(plan'[w])
      /\ at'[w] \in {"working", "asking"} \/ target'[w] # w => got'[w] < Len(plan'[w])
      /\ at'[w] = "idle" => got'[w] = 0 /\ target'[w] = w
  BY OwnLocals
<1> QED
  BY <1>1, <1>2 DEF PlanInv

\* What a step of w does to the sweeps: it moves its own, if it is in release_all.
LEMMA EndingMoves ==
  ASSUME IInv, PlanInv, EndingInv, NEW w \in TxnId, Step(w) \/ GiveUp(w)
  PROVE  /\ \A v \in TxnId : v # w => /\ sweep'[v] = sweep[v] /\ at'[v] = at[v]
                                      /\ target'[v] = target[v]
         /\ \/ /\ at[w] # "ending" /\ at'[w] \in {"working", "asking", "closing"}
               /\ sweep'[w] = sweep[w]
            \/ /\ Close(w) /\ at[w] = "closing" /\ at'[w] = "ending" /\ target' = target
               /\ sweep'[w] # Idle /\ sweep'[w].txn = target[w] /\ sweep'[w].shard = 0
            \/ /\ Ending(w) /\ w \in Threads /\ ReleaseAllStep(w) /\ at[w] = "ending"
               /\ target' = target /\ sweep[w] # Idle
               /\ IF sweep'[w] # Idle
                  THEN at'[w] = "ending" /\ sweep'[w].txn = sweep[w].txn
                  ELSE at'[w] = IF target[w] = w THEN "idle" ELSE "working"
<1>1. \A v \in TxnId : v # w => at'[v] = at[v] /\ target'[v] = target[v]
  <2>1. at' = [at EXCEPT ![w] = at'[w]] /\ target' = [target EXCEPT ![w] = target'[w]]
    BY OthersLocals
  <2> QED
    BY <2>1 DEF PlanInv
<1>2. CASE Close(w)
  <2>1. ReleaseAllCall(w, target[w]) /\ w \in Threads /\ target[w] \in TxnId
    BY <1>2, StormAssumption DEF Close, release_all_call, PlanInv
  <2>2. /\ sweep'[w] # Idle /\ sweep'[w].txn = target[w]
        /\ \A v \in TxnId : v # w => sweep'[v] = sweep[v]
    BY <2>1, SweepCall, StormAssumption
  <2>3. sweep'[w].shard = 0
    BY <2>1 DEF ReleaseAllCall, IInv, SweepInv
  <2>4. at[w] = "closing" /\ at'[w] = "ending" /\ target' = target
    BY <1>2 DEF Close, PlanInv
  <2> QED
    BY <1>1, <1>2, <2>2, <2>3, <2>4
<1>3. CASE Ending(w)
  <2>1. w \in Threads /\ ReleaseAllStep(w)
    BY <1>3, StormAssumption DEF Ending, release_all_step, TableOnly
  <2>2. /\ sweep[w] # Idle
        /\ \A v \in TxnId : v # w => sweep'[v] = sweep[v]
        /\ sweep'[w] # Idle => sweep'[w].txn = sweep[w].txn
    BY <2>1, SweepStep, StormAssumption
  <2>3. /\ at[w] = "ending" /\ target' = target
        /\ IF sweep'[w] # Idle THEN at'[w] = "ending"
           ELSE at'[w] = IF target[w] = w THEN "idle" ELSE "working"
    BY <1>3 DEF Ending, PlanInv
  <2> QED
    BY <1>1, <1>3, <2>1, <2>2, <2>3
<1>4. ASSUME \/ Begin(w) \/ Granted(w) \/ Blocked(w) \/ Detecting(w)
             \/ Told(w) \/ GiveUp(w)
      PROVE  at[w] # "ending" /\ at'[w] \in {"working", "asking", "closing"} /\ sweep' = sweep
  <2>1. at[w] # "ending"
    BY <1>4 DEF Begin, Granted, Blocked, Detecting, Told, GiveUp
  <2>2. sweep' = sweep
    BY <1>4, IdleSteps, RequestTried DEF tableVars, try_acquire
  <2>3. at'[w] \in {"working", "asking", "closing"}
    BY <1>4, <2>1 DEF Begin, Granted, Blocked, Detecting, Told, GiveUp, PlanInv, workerVars
  <2> QED
    BY <2>1, <2>2, <2>3
<1> QED
  BY <1>1, <1>2, <1>3, <1>4 DEF Step

\* A worker and its thread enter and leave release_all together.
LEMMA EndingStep ==
  ASSUME IInv, PlanInv, EndingInv, NEW w \in TxnId, Step(w) \/ GiveUp(w)
  PROVE  EndingInv'
<1>1. \A v \in TxnId : v # w => sweep'[v] = sweep[v] /\ at'[v] = at[v] /\ target'[v] = target[v]
  BY EndingMoves
<1>2. /\ sweep'[w] # Idle <=> at'[w] = "ending"
      /\ sweep'[w] # Idle => sweep'[w].txn = target'[w]
  BY EndingMoves DEF EndingInv
<1> QED
  BY <1>1, <1>2 DEF EndingInv

\* A step of release_all stays in its shard, or leaves it for the next one, or returns
\* after the last.
LEMMA SweepMoves ==
  ASSUME IInv, NEW th \in Threads, ReleaseAllStep(th)
  PROVE  \/ sweep'[th] # Idle /\ sweep'[th].shard = sweep[th].shard
         \/ /\ ShardSwept(th) /\ locks' = locks
            /\ IF sweep[th].shard + 1 \in Shards
               THEN sweep'[th] # Idle /\ sweep'[th].shard = sweep[th].shard + 1
               ELSE sweep'[th] = Idle
<1>1. sweep[th] \in Sweep /\ th \in DOMAIN sweep
  <2>1. sweep[th].pc # "idle"
    BY DEF ReleaseAllStep, ReleaseAllLock, ReleaseAllPoint, ReleaseAllSpan, ReleaseAllUnlock,
           ShardSwept
  <2> QED
    BY <2>1, SweepFields DEF IInv, SweepInv
<1>2. PICK sw \in Sweep : sw = sweep[th]
  BY <1>1
<1>3. sw.pc # "idle" /\ DOMAIN sw = {"pc", "txn", "shard", "points", "spans", "released"}
  BY DEF Sweep
<1>4. ASSUME NEW n, sweep' = [sweep EXCEPT ![th] = n], n.pc # "idle", n.shard = sw.shard
      PROVE  sweep'[th] # Idle /\ sweep'[th].shard = sw.shard
  BY <1>1, <1>4 DEF Idle
<1>5. CASE ReleaseAllLock(th)
  <2>0. PICK points, spans : /\ points = entry_or_new(by_txn[sw.shard], sw.txn)
                             /\ spans = entry_or_new(range_by_txn[sw.shard], sw.txn)
    OBVIOUS
  <2> DEFINE taken == [sw EXCEPT !.pc = "inside", !.points = points, !.spans = spans]
  <2>1. sweep' = [sweep EXCEPT ![th] = taken]
    BY <1>2, <1>5, <2>0 DEF ReleaseAllLock
  <2>2. taken.pc # "idle" /\ taken.shard = sw.shard
    BY <1>3
  <2> HIDE DEF taken
  <2> QED
    <3>1. sweep'[th] # Idle /\ sweep'[th].shard = sw.shard
      BY <1>4, <2>1, <2>2
    <3> QED
      BY <1>2, <3>1
<1>6. CASE ReleaseAllPoint(th)
  <2> DEFINE miss == [sw EXCEPT !.points = Tail(sw.points)]
             hit == [sw EXCEPT !.points = Tail(sw.points), !.released = sw.released + 1]
  <2>1. sweep' = [sweep EXCEPT ![th] = miss] \/ sweep' = [sweep EXCEPT ![th] = hit]
    BY <1>2, <1>6 DEF ReleaseAllPoint
  <2>2. miss.pc # "idle" /\ miss.shard = sw.shard /\ hit.pc # "idle" /\ hit.shard = sw.shard
    BY <1>3
  <2> HIDE DEF miss, hit
  <2> QED
    BY <1>2, <1>4, <2>1, <2>2
<1>7. CASE ReleaseAllSpan(th)
  <2> DEFINE miss == [sw EXCEPT !.spans = Tail(sw.spans)]
             hit == [sw EXCEPT !.spans = Tail(sw.spans), !.released = sw.released + 1]
  <2>1. sweep' = [sweep EXCEPT ![th] = miss] \/ sweep' = [sweep EXCEPT ![th] = hit]
    BY <1>2, <1>7 DEF ReleaseAllSpan
  <2>2. miss.pc # "idle" /\ miss.shard = sw.shard /\ hit.pc # "idle" /\ hit.shard = sw.shard
    BY <1>3
  <2> HIDE DEF miss, hit
  <2> QED
    BY <1>2, <1>4, <2>1, <2>2
<1>8. CASE ReleaseAllUnlock(th)
  <2>1. ShardSwept(th) /\ locks' = locks /\ sweep'[th] = after_shard(sw)
    BY <1>1, <1>2, <1>8 DEF ReleaseAllUnlock
  <2>2. IF sw.shard + 1 \in Shards
        THEN after_shard(sw) # Idle /\ after_shard(sw).shard = sw.shard + 1
        ELSE after_shard(sw) = Idle
    BY <1>3 DEF after_shard, Idle
  <2> QED
    BY <1>2, <2>1, <2>2
<1> QED
  BY <1>5, <1>6, <1>7, <1>8 DEF ReleaseAllStep

\* Who holds nothing is not listed.
LEMMA NotListed ==
  ASSUME TableInv, NEW r \in PointIds, NEW w \in TxnId,
         r \in DOMAIN locks[shard_index[r]] => ~Holds(locks[shard_index[r]][r], w)
  PROVE  ModesOf(w, r) = {}
<1>1. CASE r \in DOMAIN locks[shard_index[r]]
  BY <1>1 DEF ModesOf, ModesIn, entry_or_new, Holds
<1>2. CASE r \notin DOMAIN locks[shard_index[r]]
  <2>1. entry_or_new(locks[shard_index[r]], r) = <<>>
    BY <1>2 DEF entry_or_new
  <2>2. Positions(<<>>, w) = {}
    BY DEF Positions
  <2> QED
    BY <2>1, <2>2, Zenon DEF ModesOf, ModesIn
<1> QED
  BY <1>1, <1>2

\* w's own release_all clears the shard it leaves.
LEMMA EndingClears ==
  ASSUME WInv, NEW w \in TxnId, Ending(w), target[w] = w, NEW r \in PointIds,
         Cleared(w, r)'
  PROVE  ModesOf(w, r)' = {}
<1>1. /\ w \in Threads /\ ReleaseAllStep(w) /\ at[w] = "ending" /\ target' = target
      /\ sweep[w] # Idle /\ sweep[w].txn = w
      /\ IF sweep'[w] # Idle THEN at'[w] = "ending" ELSE at'[w] = "idle"
  BY EndingMoves DEF WInv, TableInv, Step, Ending, Close, EndingInv
<1>2. sweep[w].shard \in Shards /\ r \in ResourceId /\ shard_index[r] \in Shards
  <2>1. sweep[w] \in Sweep
    BY <1>1 DEF WInv, TableInv, IInv, SweepInv
  <2> QED
    BY <2>1, Arguments DEF Sweep
<1>3. PICK s \in Shards, x \in Shards : s = sweep[w].shard /\ x = shard_index[r]
  BY <1>2
<1>4. s \in Nat /\ x \in Nat /\ NumShards \in Nat /\ s < NumShards /\ x < NumShards
  BY TableAssumption DEF Shards
<1>5. ModesOf(w, r)' \subseteq ModesOf(w, r)
  BY <1>1, <1>2, ReleaseAllModes DEF WInv, TableInv
<1>6. x < s => ModesOf(w, r)' = {}
  <2>1. x < s => Cleared(w, r)
    BY <1>1, <1>3 DEF Cleared
  <2> QED
    BY <1>5, <2>1 DEF WInv, CleanInv
<1>7. ASSUME ShardSwept(w), x = s, locks' = locks
      PROVE  ModesOf(w, r)' = {}
  <2>1. r \in DOMAIN locks[s] => ~Holds(locks[s][r], w)
    BY <1>1, <1>3, <1>7, NothingMissed DEF WInv, SweptClean
  <2>2. ModesOf(w, r) = {}
    BY <1>3, <1>7, <2>1, NotListed DEF WInv
  <2> QED
    BY <1>5, <2>2
<1>8. CASE sweep'[w] # Idle /\ sweep'[w].shard = s
  <2>1. x < s
    BY <1>1, <1>3, <1>8 DEF Cleared
  <2> QED
    BY <1>6, <2>1
<1>9. CASE /\ ShardSwept(w) /\ locks' = locks
           /\ IF s + 1 \in Shards THEN sweep'[w] # Idle /\ sweep'[w].shard = s + 1
              ELSE sweep'[w] = Idle
  <2>1. CASE s + 1 \in Shards
    <3>1. x < s + 1
      BY <1>1, <1>3, <1>9, <2>1 DEF Cleared
    <3>2. x < s \/ x = s
      BY <1>4, <3>1
    <3> QED
      BY <1>6, <1>7, <1>9, <3>2
  <2>2. CASE s + 1 \notin Shards
    <3>1. x < s \/ x = s
      BY <1>4, <2>2 DEF Shards
    <3> QED
      BY <1>6, <1>7, <1>9, <3>1
  <2> QED
    BY <2>1, <2>2
<1> QED
  BY <1>1, <1>3, <1>8, <1>9, SweepMoves DEF WInv, TableInv

\* Only a blocked request registers a wait, and only its own.
LEMMA OnlyOwnWaits ==
  ASSUME PlanInv, NEW w \in TxnId, Step(w) \/ GiveUp(w)
  PROVE  /\ DOMAIN waits' \subseteq DOMAIN waits \cup {w}
         /\ Close(w) /\ target[w] = w => w \notin DOMAIN waits'
         /\ Ending(w) => waits' = waits
<1>1. CASE Granted(w)
  BY <1>1 DEF Granted, request_granted, remove, Close, Ending
<1>2. CASE Blocked(w)
  BY <1>2 DEF Blocked, request_blocked, registered, insert, Close, Ending
<1>3. CASE Begin(w) \/ GiveUp(w)
  BY <1>3 DEF Begin, GiveUp, managerVars, Close, Ending
<1>4. CASE Detecting(w) \/ Told(w)
  BY <1>4 DEF Detecting, DetectCycle, ScanWaiter, Told, DetectReturn, Close, Ending
<1>5. CASE Close(w)
  BY <1>5 DEF Close, release_all_call, wait_cleared, remove, Ending
<1>6. CASE Ending(w)
  BY <1>6 DEF Ending, release_all_step, TableOnly, Close
<1> QED
  BY <1>1, <1>2, <1>3, <1>4, <1>5, <1>6 DEF Step

\* What has been cleared stays clear: only w's requests give w a lock or a wait, and
\* it makes none before its next attempt.
LEMMA CleanStep ==
  ASSUME WInv, NEW w \in TxnId, Step(w) \/ GiveUp(w)
  PROVE  CleanInv'
<1>1. /\ TableInv /\ IInv /\ PlanInv /\ EndingInv /\ CleanInv
  BY DEF WInv, TableInv
<1>2. ASSUME NEW v \in TxnId, v # w
      PROVE  /\ \A r \in PointIds : Cleared(v, r)' => ModesOf(v, r)' = {}
             /\ (at'[v] = "idle" \/ (at'[v] = "ending" /\ target'[v] = v)) =>
                  v \notin DOMAIN waits'
  <2>1. sweep'[v] = sweep[v] /\ at'[v] = at[v] /\ target'[v] = target[v]
    BY <1>1, <1>2, EndingMoves
  <2>2. ASSUME NEW r \in PointIds, Cleared(v, r)'
        PROVE  ModesOf(v, r)' = {}
    <3>1. Cleared(v, r)
      BY <2>1, <2>2 DEF Cleared
    <3>2. ModesOf(v, r) = {}
      BY <1>1, <3>1 DEF CleanInv
    <3>3. ModesOf(v, r)' \subseteq ModesOf(v, r)
      BY <1>1, <1>2, OthersLose, Arguments
    <3> QED
      BY <3>2, <3>3
  <2>3. DOMAIN waits' \subseteq DOMAIN waits \cup {w}
    BY <1>1, OnlyOwnWaits
  <2>4. (at[v] = "idle" \/ (at[v] = "ending" /\ target[v] = v)) => v \notin DOMAIN waits
    BY <1>1 DEF CleanInv
  <2> QED
    BY <1>2, <2>1, <2>2, <2>3, <2>4
<1>3. /\ \A r \in PointIds : Cleared(w, r)' => ModesOf(w, r)' = {}
      /\ (at'[w] = "idle" \/ (at'[w] = "ending" /\ target'[w] = w)) => w \notin DOMAIN waits'
  <2>1. CASE at'[w] \notin {"idle", "ending"}
    BY <2>1 DEF Cleared
  <2>2. CASE Close(w) /\ at'[w] = "ending" /\ target' = target /\ sweep'[w].shard = 0
    <3>1. \A r \in PointIds : ~Cleared(w, r)'
      <4>1. \A r \in PointIds : shard_index[r] \in Nat
        BY Arguments DEF Shards
      <4> QED
        BY <2>2, <4>1 DEF Cleared
    <3>2. target[w] = w => w \notin DOMAIN waits'
      BY <1>1, <2>2, OnlyOwnWaits
    <3> QED
      BY <2>2, <3>1, <3>2
  <2>3. CASE /\ Ending(w) /\ at[w] = "ending" /\ target' = target
             /\ at'[w] = "idle" => target[w] = w
    <3>1. waits' = waits
      BY <1>1, <2>3, OnlyOwnWaits
    <3>2. target[w] = w => w \notin DOMAIN waits
      BY <1>1, <2>3 DEF CleanInv
    <3>3. ASSUME NEW r \in PointIds, Cleared(w, r)'
          PROVE  ModesOf(w, r)' = {}
      <4>1. target[w] = w
        BY <2>3, <3>3 DEF Cleared
      <4> QED
        BY <2>3, <3>3, <4>1, EndingClears
    <3> QED
      BY <2>3, <3>1, <3>2, <3>3
  <2> QED
    BY <1>1, <2>1, <2>2, <2>3, EndingMoves
<1> QED
  BY <1>2, <1>3 DEF CleanInv

-----------------------------------------------------------------------------
(* Workers that abort themselves. *)

\* A worker's release_all is for itself: it never aborts another one.
LEMMA OwnStep ==
  ASSUME Abort = "self", OwnTargets, NEW w \in TxnId, Step(w) \/ GiveUp(w)
  PROVE  OwnTargets'
<1>1. \A c : abort_target(w, c) = w
  BY DEF abort_target
<1>2. target' = target \/ target' = [target EXCEPT ![w] = w]
  <2>1. CASE Told(w)
    BY <1>1, <2>1 DEF Told
  <2>2. CASE Granted(w)
    BY <2>2 DEF Granted
  <2> QED
    BY <2>1, <2>2 DEF Step, Begin, Blocked, Detecting, GiveUp, Close, Ending, workerVars
<1> QED
  BY <1>2 DEF OwnTargets

\* The other workers keep what they were granted, and w adds to what it holds.
LEMMA GrantedStep ==
  ASSUME SInv, PlanInv', NEW w \in TxnId, Step(w) \/ GiveUp(w)
  PROVE  GrantedInv'
<1> SUFFICES ASSUME NEW v \in TxnId, at'[v] \in {"working", "asking", "closing"},
                    NEW i \in 1 .. got'[v]
             PROVE  ModesIn(locks'[shard_index[plan'[v][i]]], plan'[v][i], v) # {}
  BY DEF GrantedInv, ModesOf
<1>1. /\ at' = [at EXCEPT ![w] = at'[w]] /\ plan' = [plan EXCEPT ![w] = plan'[w]]
      /\ got' = [got EXCEPT ![w] = got'[w]]
  BY OthersLocals DEF SInv, WInv
<1>2. /\ plan'[v] \in Seq(PointIds) /\ got'[v] \in Nat /\ got'[v] <= Len(plan'[v])
      /\ i \in 1 .. Len(plan'[v])
  BY DEF PlanInv
<1> PICK r \in PointIds : r = plan'[v][i]
  BY <1>2
<1> SUFFICES ModesOf(v, r)' # {}
  BY DEF ModesOf
<1>3. r \in ResourceId
  BY Arguments
<1>4. CASE v # w
  <2>1. at'[v] = at[v] /\ plan'[v] = plan[v] /\ got'[v] = got[v]
    BY <1>1, <1>4 DEF SInv, WInv, PlanInv
  <2>2. ModesOf(v, r) # {}
    BY <2>1 DEF SInv, GrantedInv
  <2>3. ModesOf(v, r)' = ModesOf(v, r)
    <3>1. target[w] = w
      BY DEF SInv, OwnTargets
    <3> QED
      BY <1>3, <1>4, <3>1, OthersLose DEF SInv, WInv, TableInv
  <2> QED
    BY <2>2, <2>3
<1>5. CASE v = w
  <2>1. CASE Begin(w)
    <3>1. at[w] = "idle" /\ got' = got
      BY <2>1 DEF Begin
    <3>2. got[w] = 0
      BY <3>1 DEF SInv, WInv, PlanInv
    <3> QED
      BY <1>5, <3>1, <3>2
  <2>2. CASE Close(w)
    BY <1>5, <2>2 DEF Close, SInv, WInv, PlanInv
  <2>3. CASE Ending(w)
    <3>1. target[w] = w /\ at[w] = "ending"
      BY <2>3 DEF Ending, SInv, OwnTargets
    <3>2. at'[w] \in {"ending", "idle"}
      BY <2>3, <3>1 DEF Ending, SInv, WInv, PlanInv
    <3> QED
      BY <1>5, <3>2
  <2>4. ASSUME Detecting(w) \/ Told(w) \/ GiveUp(w)
        PROVE  ModesOf(w, r)' # {}
    <3>1. at[w] \in {"working", "asking"} /\ plan' = plan /\ got' = got
      BY <2>4 DEF Detecting, Told, GiveUp, workerVars
    <3>2. ModesOf(w, r) # {}
      BY <1>5, <3>1 DEF SInv, GrantedInv
    <3>3. locks' = locks
      BY <2>4, IdleSteps DEF tableVars
    <3> QED
      BY <3>2, <3>3 DEF ModesOf
  <2>5. CASE Granted(w) \/ Blocked(w)
    <3> PICK n \in PointIds, m \in RequestModes : n = next_resource(w) /\ m = "X"
      BY <2>5, NextResource, StormAssumption DEF Granted, Blocked, SInv, WInv
    <3>1. try_acquire(w, n, m)
      BY <2>5, RequestTried
    <3>2. IInv
      BY DEF SInv, WInv, TableInv
    <3>3. /\ r # n => ModesOf(w, r)' = ModesOf(w, r)
          /\ ModesOf(w, n)' =
               IF ~grants(entry_or_new(locks[shard_index[n]], n), w, m) THEN ModesOf(w, n)
               ELSE IF ModesOf(w, n) = {} THEN {m}
               ELSE {IF covers(c, m) THEN c ELSE join(c, m) : c \in ModesOf(w, n)}
      BY <1>3, <3>1, <3>2, TryAcquireModes
    <3>4. ModesOf(w, n) # {} => ModesOf(w, n)' # {}
      BY <3>3
    <3>5. Granted(w) => ModesOf(w, n)' # {}
      <4>1. Granted(w) => grants(entry_or_new(locks[shard_index[n]], n), w, m)
        BY DEF Granted, request_granted
      <4> QED
        BY <4>1, <3>3
    <3>6. at[w] = "working" /\ plan' = plan
      BY <2>5 DEF Granted, Blocked
    <3>7. CASE i \in 1 .. got[w]
      <4>1. ModesOf(w, r) # {}
        BY <1>5, <3>6, <3>7 DEF SInv, GrantedInv
      <4> QED
        BY <1>5, <3>3, <3>4, <4>1
    <3>8. CASE i \notin 1 .. got[w]
      <4>1. got[w] \in Nat
        BY DEF SInv, WInv, PlanInv
      <4>2. Granted(w) /\ got'[w] = got[w] + 1
        BY <1>5, <2>5, <3>8 DEF Granted, Blocked, SInv, WInv, PlanInv
      <4>3. i = got[w] + 1
        BY <1>5, <3>8, <4>1, <4>2
      <4>4. r = n
        BY <1>5, <3>6, <4>3 DEF next_resource
      <4> QED
        BY <1>5, <3>5, <4>2, <4>4
    <3> QED
      BY <3>7, <3>8
  <2> QED
    BY <1>5, <2>1, <2>2, <2>3, <2>4, <2>5 DEF Step
<1> QED
  BY <1>4, <1>5

-----------------------------------------------------------------------------
(* The theorems. *)

\* A state in which nothing has happened yet.
LEMMA InitWInv == StormInit => WInv
<1> SUFFICES ASSUME StormInit PROVE WInv
  OBVIOUS
<1>1. TableInv
  BY InitTableInv DEF StormInit, ManagerInit
<1>2. ManagerInv
  BY InitManagerInv DEF StormInit
<1>3. PlanInv
  <2>1. <<>> \in Seq(PointIds) /\ Len(<<>>) = 0
    OBVIOUS
  <2>2. plan \in [TxnId -> Seq(PointIds)] /\ \A w \in TxnId : plan[w] = <<>> /\ Len(plan[w]) = 0
    BY <2>1 DEF StormInit
  <2> QED
    BY <2>2 DEF StormInit, PlanInv
<1>4. EndingInv
  BY StormAssumption DEF StormInit, ManagerInit, TableInit, EndingInv
<1>5. CleanInv
  <2>1. ASSUME NEW w \in TxnId, NEW r \in PointIds
        PROVE  ModesOf(w, r) = {}
    <3>1. locks[shard_index[r]] = EmptyMap /\ DOMAIN EmptyMap = {}
      BY Arguments, EmptyMapType DEF StormInit, ManagerInit, TableInit
    <3> QED
      BY <1>1, <3>1, NotListed
  <2>2. DOMAIN waits = {}
    BY EmptyMapType DEF StormInit, ManagerInit
  <2> QED
    BY <2>1, <2>2 DEF CleanInv
<1> QED
  BY <1>1, <1>2, <1>3, <1>4, <1>5 DEF WInv

\* Every step preserves it.
LEMMA NextWInv == WInv /\ [StormNext]_stormVars => WInv'
<1> SUFFICES ASSUME WInv, [StormNext]_stormVars PROVE WInv'
  OBVIOUS
<1>1. TableInv /\ ManagerInv /\ PlanInv /\ EndingInv /\ CleanInv /\ IInv
  BY DEF WInv, TableInv
<1>2. TableInv'
  BY <1>1, StormUsesTable, NextTableInv
<1>3. ManagerInv'
  BY <1>1, StormUsesManager, ManagerStep
<1>4. ASSUME NEW w \in TxnId, Step(w) \/ GiveUp(w)
      PROVE  PlanInv' /\ EndingInv' /\ CleanInv'
  BY <1>1, <1>4, PlanStep, EndingStep, CleanStep
<1>5. CASE UNCHANGED stormVars
  <2>1. /\ locks' = locks /\ sweep' = sweep /\ waits' = waits
        /\ at' = at /\ plan' = plan /\ got' = got /\ target' = target
    BY <1>5 DEF stormVars, managerVars, tableVars, workerVars
  <2>2. PlanInv' /\ EndingInv'
    BY <1>1, <2>1 DEF PlanInv, EndingInv
  <2>3. CleanInv'
    BY <1>1, <2>1 DEF CleanInv, Cleared, ModesOf
  <2> QED
    BY <1>2, <1>3, <2>2, <2>3 DEF WInv
<1> QED
  BY <1>2, <1>3, <1>4, <1>5 DEF StormNext, WInv

\* The invariant holds whomever a Deadlock has the workers abort.
THEOREM WorkersInvariant == StormSpec => []WInv
BY InitWInv, NextWInv, PTL DEF StormSpec

\* The storm's state has the types of the source, and an attempt under way follows
\* one of its plans.
THEOREM StormTypeCorrect == StormSpec => []StormTypeOK
<1>1. WInv => StormTypeOK
  <2> SUFFICES ASSUME WInv PROVE StormTypeOK
    OBVIOUS
  <2>1. ManagerTypeOK
    BY ManagerTyped DEF WInv, TableInv
  <2>2. \A w \in TxnId : Len(plan[w]) \in Nat
    BY DEF WInv, PlanInv
  <2> QED
    BY <2>1, <2>2 DEF WInv, PlanInv, StormTypeOK
<1> QED
  BY <1>1, WorkersInvariant, PTL

\* Between attempts nothing is left of a transaction, neither a lock nor a wait,
\* whomever the workers abort and however their release_alls interleave (stress.rs:
\* "no lingering locks or waits").
THEOREM NothingLeft == StormSpec => []NothingLingers
<1>1. WInv => NothingLingers
  <2> SUFFICES ASSUME WInv, \A w \in TxnId : at[w] = "idle"
               PROVE  waiting_count = 0 /\ \A r \in PointIds : holder_count(r) = 0
    BY DEF NothingLingers
  <2>1. waiting_count = 0
    <3>1. DOMAIN waits \subseteq TxnId
      BY DEF WInv, ManagerInv, IsHashMap
    <3>2. DOMAIN waits = {}
      BY <3>1 DEF WInv, CleanInv
    <3> QED
      BY <3>2, FS_EmptySet DEF waiting_count
  <2>2. ASSUME NEW r \in PointIds
        PROVE  holder_count(r) = 0
    <3>1. GoodLocks(locks[shard_index[r]])
      BY Arguments DEF WInv, TableInv, IInv, LocksInv
    <3>2. PICK h \in Seq(Holder) : h = entry_or_new(locks[shard_index[r]], r)
      BY <3>1, EntryGood
    <3>3. ASSUME NEW i \in 1 .. Len(h)
          PROVE  FALSE
      <4>1. h[i] \in Holder
        OBVIOUS
      <4>2. PICK w \in TxnId : w = h[i].txn
        BY <4>1 DEF Holder
      <4>3. i \in Positions(h, w)
        BY <4>2 DEF Positions
      <4>4. ModesOf(w, r) # {}
        BY <3>2, <4>3 DEF ModesOf, ModesIn
      <4>5. ModesOf(w, r) = {}
        BY DEF WInv, CleanInv, Cleared
      <4> QED
        BY <4>4, <4>5
    <3>4. Len(h) \in Nat
      OBVIOUS
    <3>5. Len(h) = 0
      BY <3>3, <3>4
    <3> QED
      BY <3>2, <3>5 DEF holder_count
  <2> QED
    BY <2>1, <2>2
<1> QED
  BY <1>1, WorkersInvariant, PTL

\* What has been granted stays granted, as long as every worker aborts itself.
THEOREM StormInvariant == ASSUME Abort = "self" PROVE StormSpec => []SInv
<1>1. StormInit => SInv
  BY InitWInv DEF StormInit, SInv, OwnTargets, GrantedInv
<1>2. SInv /\ [StormNext]_stormVars => SInv'
  <2> SUFFICES ASSUME SInv, [StormNext]_stormVars PROVE SInv'
    OBVIOUS
  <2>1. WInv'
    BY NextWInv DEF SInv
  <2>2. ASSUME NEW w \in TxnId, Step(w) \/ GiveUp(w)
        PROVE  OwnTargets' /\ GrantedInv'
    BY <2>1, <2>2, OwnStep, GrantedStep DEF SInv, WInv
  <2>3. CASE UNCHANGED stormVars
    BY <2>1, <2>3 DEF stormVars, managerVars, tableVars, workerVars, SInv, OwnTargets,
                      GrantedInv, ModesOf
  <2> QED
    BY <2>1, <2>2, <2>3 DEF StormNext, SInv
<1> QED
  BY <1>1, <1>2, PTL DEF StormSpec

\* What a worker was granted it still holds until it ends its attempt itself, if a
\* Deadlock has every worker abort itself (stress.rs).
THEOREM GrantsKept == ASSUME Abort = "self" PROVE StormSpec => []GrantHeld
<1>1. SInv => GrantHeld
  <2> SUFFICES ASSUME SInv, NEW w \in TxnId, NEW r \in GrantedTo(w)
               PROVE  Has(w, r)
    BY DEF GrantHeld
  <2>1. target[w] = w
    BY DEF SInv, OwnTargets
  <2>2. at[w] \in {"working", "asking", "closing"} /\ \E i \in 1 .. got[w] : r = plan[w][i]
    BY <2>1 DEF GrantedTo
  <2>3. ModesOf(w, r) # {}
    BY <2>2 DEF SInv, GrantedInv
  <2> QED
    BY <2>3 DEF Has, Holds, ModesOf, ModesIn
<1> QED
  BY <1>1, StormInvariant, PTL
\* A worker about to commit has every lock it asked for, if every worker aborts itself
\* (with a victim policy it need not: the run victims).
THEOREM CommitsComplete == ASSUME Abort = "self" PROVE StormSpec => []CommitsHoldAll
<1>1. SInv => CommitsHoldAll
  <2> SUFFICES ASSUME SInv, NEW w \in TxnId, at[w] = "closing", got[w] = Len(plan[w]),
                      NEW r \in Elems(plan[w])
               PROVE  Has(w, r)
    BY DEF CommitsHoldAll
  <2>1. PICK i \in 1 .. got[w] : r = plan[w][i]
    BY DEF Elems
  <2>2. ModesOf(w, r) # {}
    BY <2>1 DEF SInv, GrantedInv
  <2> QED
    BY <2>2 DEF Has, Holds, ModesOf, ModesIn
<1> QED
  BY <1>1, StormInvariant, PTL

=============================================================================
