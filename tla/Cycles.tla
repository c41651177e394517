------------------------------- MODULE Cycles -------------------------------
(***************************************************************************)
(* Cycles in a wait-for graph, and what the searches of src/deadlock.rs    *)
(* are to return.  A graph is a set of edges <<waiter, holder>>.           *)
(***************************************************************************)
EXTENDS Integers, Sequences, FiniteSets

CONSTANT TxnId

\* The transactions that can be reached from R along edges E.
Reachable(E, R) ==
  {x \in TxnId : \A S \in SUBSET TxnId :
     (R \subseteq S /\ \A e \in E : e[1] \in S => e[2] \in S) => x \in S}

Next1(c, i) == c[IF i = Len(c) THEN 1 ELSE i + 1]

\* c lists the transactions of a simple cycle in wait-for order.
IsCycle(E, c) ==
  /\ c # <<>>
  /\ \A i \in 1 .. Len(c) : <<c[i], Next1(c, i)>> \in E
  /\ \A i, j \in 1 .. Len(c) : i # j => c[i] # c[j]

Paths == UNION {[1 .. n -> TxnId] : n \in 1 .. Cardinality(TxnId)}

\* Mutant: only a cycle through the starting transaction is looked for.
cycle_from_root_only(E, R) ==
  LET C == {c \in Paths : IsCycle(E, c) /\ c[1] \in R}
  IN  IF C = {} THEN {<<>>} ELSE C

\* Mutant: the last transaction on the path is taken to close a cycle.
cycle_from_path(E, R) ==
  {c \in Paths : /\ c[1] \in Reachable(E, R)
                 /\ \A i \in 1 .. Len(c) - 1 : <<c[i], c[i + 1]>> \in E
                 /\ Len(c) > 1} \cup {<<>>}

\* What cycle_from (R = {start}) and detect_cycle (R = the waiters) may return:
\* any cycle reachable from R, and None (here <<>>) only if there is none.
\* WaitForGraph checks that the searches of the source do.
cycle_from(E, R) ==
  LET C == {c \in Paths : IsCycle(E, c) /\ c[1] \in Reachable(E, R)}
  IN  IF C = {} THEN {<<>>} ELSE C

=============================================================================
