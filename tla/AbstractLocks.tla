--------------------------- MODULE AbstractLocks ---------------------------
(***************************************************************************)
(* What the lock table promises, without shards, vectors, indexes or       *)
(* sweeps: at most one mode per transaction and resource, strengthened by  *)
(* joining, and a bag of range locks.  One step changes one lock of one    *)
(* transaction, and a lock is only ever added where it is compatible with  *)
(* what all the others hold.                                               *)
(***************************************************************************)
EXTENDS LockMode, KeyRange

CONSTANTS
  TxnId,
  Resources,      \* the resources locked
  Ranges,         \* the <<space, range>> pairs locked
  Modes           \* the modes requested

VARIABLES
  held,           \* [Resources -> a function from the resource's holders to modes]
  spans           \* [TxnId \X Ranges \X Modes -> the number of such locks]

vars == <<held, spans>>

Init ==
  /\ held = [r \in Resources |-> [t \in {} |-> "X"]]
  /\ spans = [x \in TxnId \X Ranges \X Modes |-> 0]

Acquire(t, r, m) ==
  LET H == held[r]
  IN  /\ \A u \in DOMAIN H \ {t} : compatible_with(H[u], m)
      /\ held' = [held EXCEPT ![r] =
           [u \in DOMAIN H \cup {t} |->
              IF u # t THEN H[u] ELSE IF t \in DOMAIN H THEN join(H[t], m) ELSE m]]
      /\ UNCHANGED spans

Release(t, r) ==
  LET H == held[r]
  IN  /\ t \in DOMAIN H
      /\ held' = [held EXCEPT ![r] = [u \in DOMAIN H \ {t} |-> H[u]]]
      /\ UNCHANGED spans

\* The keys two locked ranges share: none if the key spaces differ.
CommonKeys(p, q) ==
  {key \in Key : p[1] = q[1] /\ contains(p[2], key) /\ contains(q[2], key)}

AcquireRange(t, p, m) ==
  LET B == spans
  IN  /\ \A u \in TxnId \ {t}, q \in Ranges, n \in Modes :
           (B[u, q, n] > 0 /\ CommonKeys(p, q) # {}) => compatible_with(n, m)
      /\ spans' = [B EXCEPT ![<<t, p, m>>] = @ + 1]
      /\ UNCHANGED held

\* Of several locks on the identical range, any one.
ReleaseRange(t, p) ==
  /\ \E m \in Modes : spans[t, p, m] > 0 /\ spans' = [spans EXCEPT ![<<t, p, m>>] = @ - 1]
  /\ UNCHANGED held

\* A call that changes nothing is no step.
Next ==
  \/ /\ held' # held
     /\ \E t \in TxnId, r \in Resources : Release(t, r) \/ \E m \in Modes : Acquire(t, r, m)
  \/ /\ spans' # spans
     /\ \E t \in TxnId, p \in Ranges :
          ReleaseRange(t, p) \/ \E m \in Modes : AcquireRange(t, p, m)

Spec == Init /\ [][Next]_vars

=============================================================================
