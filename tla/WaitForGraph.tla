---------------------------- MODULE WaitForGraph ----------------------------
(***************************************************************************)
(* WaitForGraph of src/deadlock.rs: the adjacency map and the iterative    *)
(* depth-first search over it, one step per turn of its loop.  The search  *)
(* borrows the graph, so the graph changes between searches only.          *)
(***************************************************************************)
EXTENDS Collections, Cycles

CONSTANT MaxOut   \* bound: edges of one waiter, repeated ones counted

\* TxnId is a u64.
ASSUME GraphAssumption == IsFiniteSet(TxnId) /\ MaxOut \in Nat

VARIABLES
  edges,          \* HashMap<TxnId, Vec<TxnId>>
  search          \* the local state of cycle_from or detect_cycle

graphVars == <<edges, search>>

NoSearch == [pc |-> "none"]

\* "next": between two calls of cycle_from, with starts the keys detect_cycle
\* still has to try; "loop": inside the while loop; "done": about to return
\* cycle (<<>> for None).  A stack entry is <<node, neighbours looked at>>.
Search ==
  [pc : {"next", "loop", "done"}, roots : SUBSET TxnId, starts : SUBSET TxnId,
   state : UNION {[T -> {1, 2}] : T \in SUBSET TxnId}, path : Seq(TxnId),
   stack : Seq(TxnId \X Nat), cycle : Seq(TxnId)]

GraphTypeOK ==
  /\ IsHashMap(edges, TxnId, Seq(TxnId))
  /\ search \in Search \cup {NoSearch}

GraphInit == edges = EmptyMap /\ search = NoSearch

-----------------------------------------------------------------------------
(* Changing the graph. *)

\* Mutant: a self-edge is recorded.
others_all(waiter, holders) == holders

\* add_wait ignores a self-edge.
others(waiter, holders) == without(holders, waiter)

\* add_waits; add_wait is the case of one holder.
add_waits(waiter, holders) ==
  LET new == others(waiter, holders)
      old == entry_or_new(edges, waiter)
  IN  /\ search = NoSearch
      /\ Len(old) + Len(new) <= MaxOut
      /\ edges' = IF new = <<>> THEN edges ELSE insert(edges, waiter, old \o new)
      /\ UNCHANGED search

clear_waiter(waiter) ==
  /\ search = NoSearch
  /\ edges' = remove(edges, waiter)
  /\ UNCHANGED search

remove_txn(t) ==
  /\ search = NoSearch
  /\ edges' = [w \in DOMAIN edges \ {t} |-> without(edges[w], t)]
  /\ UNCHANGED search

waiter_count == Cardinality(DOMAIN edges)

is_empty == DOMAIN edges = {}

-----------------------------------------------------------------------------
(* Searching it. *)

Searching(R) ==
  [pc |-> "next", roots |-> R, starts |-> R, state |-> EmptyMap,
   path |-> <<>>, stack |-> <<>>, cycle |-> <<>>]

cycle_from_call(start) ==
  /\ search = NoSearch
  /\ search' = Searching({start})
  /\ UNCHANGED edges

detect_cycle_call ==
  /\ search = NoSearch
  /\ search' = Searching(DOMAIN edges)
  /\ UNCHANGED edges

\* The loop of cycle_from is entered; nothing is kept of an earlier start.
Enter(start) ==
  /\ search.pc = "next"
  /\ start \in search.starts
  /\ search' = [search EXCEPT !.pc = "loop", !.starts = @ \ {start},
                              !.state = insert(EmptyMap, start, 1),
                              !.path = <<start>>, !.stack = <<<<start, 0>>>>]
  /\ UNCHANGED edges

\* No key is left.
NotFound ==
  /\ search.pc = "next"
  /\ search.starts = {}
  /\ search' = [search EXCEPT !.pc = "done"]
  /\ UNCHANGED edges

Depth == Len(search.stack)
node == search.stack[Depth][1]
idx == search.stack[Depth][2]
neighbors == entry_or_new(edges, node)

\* Mutant: the last neighbour is never looked at.
more_short(i, n) == i + 1 < n

more(i, n) == i < n

\* Mutant: the neighbour index is not advanced.
advanced_not(stack) == stack

\* top.1 += 1
advanced(stack) == [stack EXCEPT ![Len(stack)] = <<@[1], @[2] + 1>>]

\* Mutant: the whole path is returned, with what leads to the cycle.
closed_whole(path, next) == path

\* The part of the path the back edge to next closes.
closed(path, next) ==
  SubSeq(path, first({i \in 1 .. Len(path) : path[i] = next}), Len(path))

AtNeighbor(next) ==
  /\ search.pc = "loop"
  /\ search.stack # <<>>
  /\ more(idx, Len(neighbors))
  /\ next = neighbors[idx + 1]

\* The neighbour is on the path: a cycle.
BackEdge(next) ==
  /\ AtNeighbor(next)
  /\ next \in DOMAIN search.state /\ search.state[next] = 1
  /\ search' = [search EXCEPT !.pc = "done", !.cycle = closed(search.path, next),
                              !.stack = advanced(@)]
  /\ UNCHANGED edges

\* It is new.
Descend(next) ==
  /\ AtNeighbor(next)
  /\ next \notin DOMAIN search.state
  /\ search' = [search EXCEPT !.state = insert(@, next, 1), !.path = Append(@, next),
                              !.stack = Append(advanced(@), <<next, 0>>)]
  /\ UNCHANGED edges

\* It has been explored.
Skip(next) ==
  /\ AtNeighbor(next)
  /\ next \in DOMAIN search.state /\ search.state[next] = 2
  /\ search' = [search EXCEPT !.stack = advanced(@)]
  /\ UNCHANGED edges

\* Mutant: the node counts as unvisited again.
explored_not(state, n) == insert(state, n, 0)

explored(state, n) == insert(state, n, 2)

\* Mutant: the node stays on the path.
retreated_not(path) == path

retreated(path) == SubSeq(path, 1, Len(path) - 1)

\* All neighbours of the node have been looked at.
Backtrack ==
  /\ search.pc = "loop"
  /\ search.stack # <<>>
  /\ ~more(idx, Len(neighbors))
  /\ search' = [search EXCEPT !.state = explored(@, node),
                              !.path = retreated(@),
                              !.stack = SubSeq(@, 1, Len(@) - 1)]
  /\ UNCHANGED edges

\* The loop ends; cycle_from returns None.
Exhausted ==
  /\ search.pc = "loop"
  /\ search.stack = <<>>
  /\ search' = [search EXCEPT !.pc = "next"]
  /\ UNCHANGED edges

Return ==
  /\ search.pc = "done"
  /\ search' = NoSearch
  /\ UNCHANGED edges

SearchStep ==
  \/ \E t \in TxnId : Enter(t) \/ BackEdge(t) \/ Descend(t) \/ Skip(t)
  \/ NotFound \/ Backtrack \/ Exhausted

Change ==
  \E t \in TxnId :
     \/ \E n \in 1 .. MaxOut : \E holders \in [1 .. n -> TxnId] : add_waits(t, holders)
     \/ clear_waiter(t)
     \/ remove_txn(t)

GraphNext ==
  \/ Change
  \/ \E t \in TxnId : cycle_from_call(t)
  \/ detect_cycle_call
  \/ SearchStep
  \/ Return

\* A thread that is inside the search goes on with it.
GraphSpec == GraphInit /\ [][GraphNext]_graphVars /\ WF_graphVars(SearchStep)

-----------------------------------------------------------------------------

\* The graph the adjacency map stands for.
EdgeSet ==
  UNION {{<<w, edges[w][i]>> : i \in 1 .. Len(edges[w])} : w \in DOMAIN edges}

\* What the search returns is right both ways: a cycle is a simple cycle of the
\* graph, in wait-for order, that can be reached from the start; None means that
\* there is no such cycle, although the search gives up a node for good as soon
\* as its neighbours are exhausted, and detect_cycle tries only the keys.
SearchCorrect ==
  search.pc = "done" => search.cycle \in cycle_from(EdgeSet, search.roots)

\* A cycle never has fewer than two members: a transaction cannot deadlock
\* against itself (add_wait), and the victim of a cycle waits for another one.
NoSelfDeadlock ==
  search.pc = "done" => Len(search.cycle) # 1

\* While the search runs, the path it would return a piece of is a path of the
\* graph, and is what `state` says: the nodes marked 1, each of them once.
PathExact ==
  search.pc = "loop" =>
     /\ Elems(search.path) = {t \in DOMAIN search.state : search.state[t] = 1}
     /\ \A i, j \in 1 .. Len(search.path) : i # j => search.path[i] # search.path[j]
     /\ \A i \in 1 .. Len(search.path) - 1 :
          <<search.path[i], search.path[i + 1]>> \in EdgeSet

\* An explored node leads to explored nodes only: what allows the search to skip
\* it for good.
ExploredClosed ==
  search.pc = "loop" =>
     \A e \in EdgeSet :
        (e[1] \in DOMAIN search.state /\ search.state[e[1]] = 2) =>
           (e[2] \in DOMAIN search.state /\ search.state[e[2]] = 2)

\* Every search ends, on whatever graph: the loop has no other exit than the
\* cycle and the empty stack.
SearchEnds == (search # NoSearch) ~> (search.pc \in {"done", "none"})

\* waiter_count: "the number of transactions that are waiting (have outgoing
\* edges)"; is_empty: "true if no transaction is waiting".
WaiterCountExact ==
  /\ waiter_count = Cardinality({e[1] : e \in EdgeSet})
  /\ is_empty <=> EdgeSet = {}

=============================================================================
