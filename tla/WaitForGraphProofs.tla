------------------------ MODULE WaitForGraphProofs ------------------------
(***************************************************************************)
(* Proofs about module WaitForGraph: the iterative depth-first search      *)
(* finds a cycle if there is one, of any graph, and what it returns is     *)
(* one.  That it ends is left to the model checker.                        *)
(***************************************************************************)
EXTENDS WaitForGraph, DataProofs

-----------------------------------------------------------------------------
(* The inductive invariant, over the data: a graph g, the marks m of the    *)
(* nodes, the path p and the stack k.                                       *)

\* The graph that the adjacency map g stands for.
EdgesOf(g) == UNION {{<<w, g[w][i]>> : i \in 1 .. Len(g[w])} : w \in DOMAIN g}

\* No transaction waits for itself.
GoodGraph(g) ==
  /\ IsHashMap(g, TxnId, Seq(TxnId))
  /\ \A w \in DOMAIN g : \A i \in 1 .. Len(g[w]) : g[w][i] # w

Neighbors(g, n) == entry_or_new(g, n)

Marked(m, t) == t \in DOMAIN m /\ m[t] = 1

Explored(m, t) == t \in DOMAIN m /\ m[t] = 2

\* The path holds the nodes marked 1, each once.
OnPath(m, p) ==
  /\ p \in Seq(TxnId)
  /\ \A t \in TxnId : Marked(m, t) <=> \E i \in 1 .. Len(p) : p[i] = t
  /\ \A i, j \in 1 .. Len(p) : i # j => p[i] # p[j]

\* An entry of the stack: the node, and how many of its neighbours have been looked at.
Node(k, i) == k[i][1]

Idx(k, i) == k[i][2]

\* The stack holds the path, and how far it has got with each node: below the top,
\* to the node that follows.
StackOf(g, p, k) ==
  /\ p \in Seq(TxnId) /\ k \in Seq(TxnId \X Nat) /\ Len(k) = Len(p)
  /\ \A i \in 1 .. Len(p) : Node(k, i) = p[i] /\ Idx(k, i) <= Len(Neighbors(g, p[i]))
  /\ \A i \in 1 .. Len(p) - 1 : Idx(k, i) >= 1 /\ Neighbors(g, p[i])[Idx(k, i)] = p[i + 1]

\* The neighbour it looks at next.
Ahead(g, p, k, w) ==
  /\ k # <<>>
  /\ Idx(k, Len(k)) + 1 \in 1 .. Len(Neighbors(g, p[Len(p)]))
  /\ w = Neighbors(g, p[Len(p)])[Idx(k, Len(k)) + 1]

\* The neighbours it has done with are explored.
LookedAt(g, m, p, k) ==
  \A i \in 1 .. Len(p) : \A j \in 1 .. Idx(k, i) :
     j < Idx(k, i) \/ i = Len(p) => Explored(m, Neighbors(g, p[i])[j])

\* Explored nodes lead to explored nodes only, and lie on no cycle.
Finished(g, m) ==
  /\ \A e \in EdgesOf(g) : Explored(m, e[1]) => Explored(m, e[2])
  /\ \A c \in Paths : IsCycle(EdgesOf(g), c) => \A i \in 1 .. Len(c) : ~Explored(m, c[i])

\* No cycle can be reached from s.
Clean(g, s) ==
  \A c \in Paths : IsCycle(EdgesOf(g), c) => c[1] \notin Reachable(EdgesOf(g), {s})

\* What the search knows inside its loop; one of the keys already taken is the one
\* it goes on from, the others have been searched from to no avail.
InLoop(g, s) ==
  /\ s.cycle = <<>>
  /\ \E r \in s.roots : r \in DOMAIN s.state /\ \A o \in s.roots \ s.starts : o = r \/ Clean(g, o)
  /\ DOMAIN s.state \subseteq Reachable(EdgesOf(g), s.roots)
  /\ OnPath(s.state, s.path)
  /\ StackOf(g, s.path, s.stack)
  /\ LookedAt(g, s.state, s.path, s.stack)
  /\ Finished(g, s.state)

GInv ==
  /\ GoodGraph(edges)
  /\ search \in Search \cup {NoSearch}
  /\ search # NoSearch => search.starts \subseteq search.roots
  /\ search.pc = "next" =>
       search.cycle = <<>> /\ \A r \in search.roots \ search.starts : Clean(edges, r)
  /\ search.pc = "loop" => InLoop(edges, search)
  /\ SearchCorrect /\ NoSelfDeadlock
-----------------------------------------------------------------------------
(* What a turn of the loop does to the data.                                *)

\* The edges are the neighbours of the nodes, and lead to other nodes.
LEMMA EdgesFound ==
  ASSUME NEW g, GoodGraph(g)
  PROVE  /\ \A w : Neighbors(g, w) \in Seq(TxnId)
         /\ \A e \in EdgesOf(g) : \E w \in TxnId : \E i \in 1 .. Len(Neighbors(g, w)) :
              e = <<w, Neighbors(g, w)[i]>>
         /\ \A w, i : i \in 1 .. Len(Neighbors(g, w)) =>
              /\ <<w, Neighbors(g, w)[i]>> \in EdgesOf(g)
              /\ w \in TxnId /\ Neighbors(g, w)[i] \in TxnId /\ Neighbors(g, w)[i] # w
<1>1. \A w \in DOMAIN g : w \in TxnId /\ g[w] \in Seq(TxnId) /\ Neighbors(g, w) = g[w]
  BY DEF GoodGraph, IsHashMap, Neighbors, entry_or_new
<1>2. \A w : w \notin DOMAIN g => Neighbors(g, w) = <<>>
  BY DEF Neighbors, entry_or_new
<1>3. \A w : Neighbors(g, w) \in Seq(TxnId)
  BY EntryType DEF GoodGraph, Neighbors
<1>4. ASSUME NEW e \in EdgesOf(g)
      PROVE  \E w \in TxnId : \E i \in 1 .. Len(Neighbors(g, w)) : e = <<w, Neighbors(g, w)[i]>>
  <2>1. PICK w \in DOMAIN g : e \in {<<w, g[w][i]>> : i \in 1 .. Len(g[w])}
    BY DEF EdgesOf
  <2> QED
    BY <1>1, <2>1
<1>5. ASSUME NEW w, NEW i \in 1 .. Len(Neighbors(g, w))
      PROVE  /\ <<w, Neighbors(g, w)[i]>> \in EdgesOf(g)
             /\ w \in TxnId /\ Neighbors(g, w)[i] \in TxnId /\ Neighbors(g, w)[i] # w
  <2>1. w \in DOMAIN g
    BY <1>2
  <2>2. Neighbors(g, w)[i] \in TxnId
    BY <1>3
  <2>3. i \in 1 .. Len(g[w]) /\ Neighbors(g, w)[i] = g[w][i]
    BY <1>1, <2>1
  <2> QED
    BY <1>1, <2>1, <2>2, <2>3 DEF EdgesOf, GoodGraph
<1> QED
  BY <1>3, <1>4, <1>5

\* The roots can be reached, and so can what a node that can be reached leads to.
LEMMA ReachableStep ==
  ASSUME NEW E, NEW R \in SUBSET TxnId
  PROVE  /\ Reachable(E, R) \subseteq TxnId
         /\ R \subseteq Reachable(E, R)
         /\ \A u, v \in TxnId : u \in Reachable(E, R) /\ <<u, v>> \in E => v \in Reachable(E, R)
<1>1. Reachable(E, R) \subseteq TxnId /\ R \subseteq Reachable(E, R)
  BY DEF Reachable
<1>2. ASSUME NEW u \in Reachable(E, R), NEW v \in TxnId, <<u, v>> \in E
      PROVE  v \in Reachable(E, R)
  <2> SUFFICES ASSUME NEW S \in SUBSET TxnId, R \subseteq S, \A e \in E : e[1] \in S => e[2] \in S
               PROVE  v \in S
    BY DEF Reachable
  <2>1. u \in S
    BY DEF Reachable
  <2>2. PICK e \in E : e = <<u, v>>
    BY <1>2
  <2> QED
    BY <2>1, <2>2
<1> QED
  BY <1>1, <1>2

\* What is reached lies in every set around the roots that no edge leaves.
LEMMA ReachableWithin ==
  ASSUME NEW E, NEW R, NEW S \in SUBSET TxnId, R \subseteq S,
         \A e \in E : e[1] \in S => e[2] \in S
  PROVE  Reachable(E, R) \subseteq S
BY DEF Reachable

\* Reached from the roots is reached from one of them.
LEMMA ReachableFromOne ==
  ASSUME NEW E, E \subseteq TxnId \X TxnId, NEW R \in SUBSET TxnId, NEW x \in Reachable(E, R)
  PROVE  \E r \in R : x \in Reachable(E, {r})
<1> DEFINE S == {y \in TxnId : \E r \in R : y \in Reachable(E, {r})}
<1>1. \A r \in R : {r} \in SUBSET TxnId
  OBVIOUS
<1>2. R \subseteq S
  BY <1>1, ReachableStep
<1>3. ASSUME NEW e \in E, e[1] \in S
      PROVE  e[2] \in S
  <2>1. PICK u \in TxnId, v \in TxnId : e = <<u, v>>
    OBVIOUS
  <2>2. PICK r \in R : u \in Reachable(E, {r})
    BY <1>3, <2>1
  <2>3. v \in Reachable(E, {r})
    BY <1>1, <2>1, <2>2, ReachableStep
  <2> QED
    BY <2>1, <2>3
<1>4. S \in SUBSET TxnId
  OBVIOUS
<1> HIDE DEF S
<1>5. x \in S
  BY <1>2, <1>3, <1>4, ReachableWithin
<1> QED
  BY <1>5 DEF S

\* The stack as two functions: the nodes, and how far the search has got with them.
LEMMA StackFields ==
  ASSUME NEW k \in Seq(TxnId \X Nat)
  PROVE  \A i \in 1 .. Len(k) : /\ Node(k, i) \in TxnId /\ Idx(k, i) \in Nat
                                /\ k[i] = <<Node(k, i), Idx(k, i)>>
<1> SUFFICES ASSUME NEW i \in 1 .. Len(k)
             PROVE  /\ Node(k, i) \in TxnId /\ Idx(k, i) \in Nat
                    /\ k[i] = <<Node(k, i), Idx(k, i)>>
  OBVIOUS
<1>1. k[i] \in TxnId \X Nat
  OBVIOUS
<1> QED
  BY <1>1 DEF Node, Idx

\* The index of the top goes up by one.
LEMMA AdvancedFields ==
  ASSUME NEW k \in Seq(TxnId \X Nat), k # <<>>
  PROVE  /\ advanced(k) \in Seq(TxnId \X Nat) /\ Len(advanced(k)) = Len(k)
         /\ \A i \in 1 .. Len(k) :
              /\ Node(advanced(k), i) = Node(k, i)
              /\ Idx(advanced(k), i) = IF i = Len(k) THEN Idx(k, i) + 1 ELSE Idx(k, i)
<1>1. PICK n \in Nat : n = Len(k)
  OBVIOUS
<1>2. n \in 1 .. n
  BY <1>1
<1>3. Node(k, n) \in TxnId /\ Idx(k, n) + 1 \in Nat
  BY <1>1, <1>2, StackFields
<1>4. PICK x \in TxnId \X Nat : x = <<Node(k, n), Idx(k, n) + 1>>
  BY <1>3
<1>5. advanced(k) = [k EXCEPT ![n] = x]
  BY <1>1, <1>4 DEF advanced, Node, Idx
<1>6. \A i \in 1 .. n : advanced(k)[i] = IF i = n THEN x ELSE k[i]
  BY <1>1, <1>5
<1>7. advanced(k) \in Seq(TxnId \X Nat) /\ Len(advanced(k)) = Len(k)
  BY <1>1, <1>2, <1>4, <1>5
<1>8. x[1] = Node(k, n) /\ x[2] = Idx(k, n) + 1
  BY <1>4
<1> QED
  BY <1>1, <1>6, <1>7, <1>8 DEF Node, Idx

\* An explored neighbour is passed over.
LEMMA SkipData ==
  ASSUME NEW g, GoodGraph(g), NEW m, NEW p, NEW k, StackOf(g, p, k), LookedAt(g, m, p, k),
         NEW w, Ahead(g, p, k, w), Explored(m, w)
  PROVE  StackOf(g, p, advanced(k)) /\ LookedAt(g, m, p, advanced(k))
<1>1. PICK q : q = advanced(k)
  OBVIOUS
<1>2. PICK n \in Nat : n = Len(k) /\ n = Len(p) /\ n \in 1 .. n
  BY DEF StackOf, Ahead
<1>3. p \in Seq(TxnId) /\ k \in Seq(TxnId \X Nat) /\ k # <<>>
  BY DEF StackOf, Ahead
<1>4. \A i \in 1 .. n : Idx(k, i) \in Nat
  BY <1>2, <1>3, StackFields
<1>5. /\ Len(q) = n /\ q \in Seq(TxnId \X Nat)
      /\ \A i \in 1 .. n : Node(q, i) = Node(k, i) /\ Idx(q, i) = IF i = n THEN Idx(k, i) + 1 ELSE Idx(k, i)
  BY <1>1, <1>2, <1>3, AdvancedFields
<1>6. /\ \A i \in 1 .. n : Node(k, i) = p[i] /\ Idx(k, i) <= Len(Neighbors(g, p[i]))
      /\ \A i \in 1 .. n - 1 : Idx(k, i) >= 1 /\ Neighbors(g, p[i])[Idx(k, i)] = p[i + 1]
  BY <1>2 DEF StackOf
<1>7. PICK j \in Nat : /\ Idx(k, n) = j /\ j + 1 <= Len(Neighbors(g, p[n]))
                       /\ Neighbors(g, p[n])[j + 1] = w
  <2>1. Len(Neighbors(g, p[n])) \in Nat
    BY EdgesFound
  <2> QED
    BY <1>2, <1>4, <2>1 DEF Ahead
<1>8. ASSUME NEW i \in 1 .. n
      PROVE  Node(q, i) = p[i] /\ Idx(q, i) <= Len(Neighbors(g, p[i]))
  <2>1. CASE i = n
    BY <1>5, <1>6, <1>7, <2>1
  <2>2. CASE i # n
    BY <1>5, <1>6, <2>2
  <2> QED
    BY <2>1, <2>2
<1>9. ASSUME NEW i \in 1 .. n - 1
      PROVE  Idx(q, i) >= 1 /\ Neighbors(g, p[i])[Idx(q, i)] = p[i + 1]
  <2>1. i \in 1 .. n /\ i # n
    OBVIOUS
  <2> QED
    BY <1>5, <1>6, <2>1
<1>10. StackOf(g, p, q)
  BY <1>2, <1>3, <1>5, <1>8, <1>9 DEF StackOf
<1>11. \A i \in 1 .. n : \A l \in 1 .. Idx(k, i) :
          l < Idx(k, i) \/ i = n => Explored(m, Neighbors(g, p[i])[l])
  BY <1>2 DEF LookedAt
<1>12. ASSUME NEW i \in 1 .. n, NEW l \in 1 .. Idx(q, i), l < Idx(q, i) \/ i = n
       PROVE  Explored(m, Neighbors(g, p[i])[l])
  <2>1. CASE i # n
    BY <1>5, <1>11, <1>12, <2>1
  <2>2. CASE i = n
    <3>1. l \in 1 .. j + 1
      BY <1>5, <1>7, <1>12, <2>2
    <3>2. CASE l = j + 1
      BY <1>7, <2>2, <3>2
    <3>3. CASE l \in 1 .. j
      BY <1>7, <1>11, <2>2, <3>3
    <3> QED
      BY <3>1, <3>2, <3>3
  <2> QED
    BY <2>1, <2>2
<1>13. LookedAt(g, m, p, q)
  BY <1>2, <1>12 DEF LookedAt
<1> QED
  BY <1>1, <1>10, <1>13

\* A new neighbour is marked 1: the others keep their marks.
LEMMA MarkedNew ==
  ASSUME NEW m, NEW w, w \notin DOMAIN m
  PROVE  \A t : /\ Marked(insert(m, w, 1), t) <=> Marked(m, t) \/ t = w
                /\ Explored(insert(m, w, 1), t) <=> Explored(m, t)
BY DEF Marked, Explored, insert

\* The node of the path that is exhausted is marked 2.
LEMMA MarkedExplored ==
  ASSUME NEW m, NEW w, Marked(m, w)
  PROVE  \A t : /\ Marked(explored(m, w), t) <=> Marked(m, t) /\ t # w
                /\ Explored(explored(m, w), t) <=> Explored(m, t) \/ t = w
BY DEF Marked, Explored, insert, explored

\* What a pushed vector consists of (Vec::push).
LEMMA PushFields ==
  ASSUME NEW S, NEW v \in Seq(S), NEW x \in S
  PROVE  /\ Append(v, x) \in Seq(S) /\ Len(Append(v, x)) = Len(v) + 1
         /\ Append(v, x)[Len(v) + 1] = x
         /\ \A i \in 1 .. Len(v) : Append(v, x)[i] = v[i]
OBVIOUS

\* The path and the stack grow by the new neighbour.
LEMMA DescendPath ==
  ASSUME NEW m, NEW p, OnPath(m, p), NEW w \in TxnId, w \notin DOMAIN m
  PROVE  OnPath(insert(m, w, 1), Append(p, w))
<1> PICK r : r = Append(p, w)
  OBVIOUS
<1>1. PICK n \in Nat : n = Len(p)
  BY DEF OnPath
<1>2. p \in Seq(TxnId)
  BY DEF OnPath
<1>3. r \in Seq(TxnId) /\ Len(r) = n + 1 /\ r[n + 1] = w /\ \A i \in 1 .. n : r[i] = p[i]
  BY <1>1, <1>2, PushFields
<1>4. \A t \in TxnId : Marked(m, t) <=> \E i \in 1 .. n : p[i] = t
  BY <1>1 DEF OnPath
<1>5. ASSUME NEW t \in TxnId
      PROVE  Marked(insert(m, w, 1), t) <=> \E i \in 1 .. n + 1 : r[i] = t
  <2>1. Marked(insert(m, w, 1), t) <=> Marked(m, t) \/ t = w
    BY MarkedNew
  <2>2. \A i \in 1 .. n : i \in 1 .. n + 1 /\ r[i] = p[i]
    BY <1>3
  <2>3. n + 1 \in 1 .. n + 1 /\ r[n + 1] = w
    BY <1>3
  <2>4. \A i \in 1 .. n + 1 : i = n + 1 \/ i \in 1 .. n
    OBVIOUS
  <2> QED
    BY <1>4, <2>1, <2>2, <2>3, <2>4
<1>6. ~Marked(m, w)
  BY DEF Marked
<1>7. \A i \in 1 .. n : p[i] # w
  BY <1>4, <1>6
<1>8. \A i, j \in 1 .. n : i # j => p[i] # p[j]
  BY <1>1 DEF OnPath
<1>9. \A i, j \in 1 .. n + 1 : i # j => r[i] # r[j]
  <2>1. \A i \in 1 .. n + 1 : i = n + 1 \/ i \in 1 .. n
    OBVIOUS
  <2> QED
    BY <1>3, <1>7, <1>8, <2>1
<1> QED
  BY <1>3, <1>5, <1>9 DEF OnPath

\* Of the new neighbour none has been looked at, of the node before it all up to this one.
LEMMA DescendStack ==
  ASSUME NEW g, GoodGraph(g), NEW m, NEW p, NEW k, StackOf(g, p, k), LookedAt(g, m, p, k),
         NEW w, Ahead(g, p, k, w), w \notin DOMAIN m
  PROVE  /\ StackOf(g, Append(p, w), Append(advanced(k), <<w, 0>>))
         /\ LookedAt(g, insert(m, w, 1), Append(p, w), Append(advanced(k), <<w, 0>>))
<1>1. PICK q : q = advanced(k)
  OBVIOUS
<1>2. PICK n \in Nat : n = Len(k) /\ n = Len(p) /\ n \in 1 .. n
  BY DEF StackOf, Ahead
<1>3. p \in Seq(TxnId) /\ k \in Seq(TxnId \X Nat) /\ k # <<>>
  BY DEF StackOf, Ahead
<1>4. \A i \in 1 .. n : Idx(k, i) \in Nat
  BY <1>2, <1>3, StackFields
<1>5. /\ Len(q) = n /\ q \in Seq(TxnId \X Nat)
      /\ \A i \in 1 .. n : Node(q, i) = Node(k, i) /\ Idx(q, i) = IF i = n THEN Idx(k, i) + 1 ELSE Idx(k, i)
  BY <1>1, <1>2, <1>3, AdvancedFields
<1>6. /\ \A i \in 1 .. n : Node(k, i) = p[i] /\ Idx(k, i) <= Len(Neighbors(g, p[i]))
      /\ \A i \in 1 .. n - 1 : Idx(k, i) >= 1 /\ Neighbors(g, p[i])[Idx(k, i)] = p[i + 1]
  BY <1>2 DEF StackOf
<1>7. PICK j \in Nat : /\ Idx(k, n) = j /\ j + 1 <= Len(Neighbors(g, p[n]))
                       /\ Neighbors(g, p[n])[j + 1] = w
  <2>1. Len(Neighbors(g, p[n])) \in Nat
    BY EdgesFound
  <2> QED
    BY <1>2, <1>4, <2>1 DEF Ahead
<1>8. w \in TxnId /\ Len(Neighbors(g, w)) \in Nat
  BY EdgesFound DEF Ahead
<1>9. PICK x \in TxnId \X Nat : x = <<w, 0>>
  BY <1>8
<1>10. PICK b : b = Append(q, x)
  OBVIOUS
<1>11. PICK r : r = Append(p, w)
  OBVIOUS
<1>12. /\ b \in Seq(TxnId \X Nat) /\ Len(b) = n + 1 /\ b[n + 1] = x
       /\ \A i \in 1 .. n : b[i] = q[i]
  BY <1>5, <1>10, PushFields
<1>13. /\ r \in Seq(TxnId) /\ Len(r) = n + 1 /\ r[n + 1] = w
       /\ \A i \in 1 .. n : r[i] = p[i]
  BY <1>2, <1>3, <1>8, <1>11, PushFields
<1>14. /\ Node(b, n + 1) = w /\ Idx(b, n + 1) = 0
       /\ \A i \in 1 .. n : Node(b, i) = Node(k, i) /\ Idx(b, i) = IF i = n THEN Idx(k, i) + 1 ELSE Idx(k, i)
  <2>1. x[1] = w /\ x[2] = 0
    BY <1>9
  <2>2. \A i \in 1 .. n : Node(b, i) = Node(q, i) /\ Idx(b, i) = Idx(q, i)
    BY <1>12 DEF Node, Idx
  <2>3. Node(b, n + 1) = w /\ Idx(b, n + 1) = 0
    BY <1>12, <2>1 DEF Node, Idx
  <2> QED
    BY <1>5, <2>2, <2>3
<1>15. \A i \in 1 .. n + 1 : i = n + 1 \/ i = n \/ (i \in 1 .. n - 1 /\ i \in 1 .. n /\ i # n)
  OBVIOUS
<1>16. ASSUME NEW i \in 1 .. n + 1
       PROVE  Node(b, i) = r[i] /\ Idx(b, i) <= Len(Neighbors(g, r[i]))
  <2>1. CASE i = n + 1
    BY <1>8, <1>13, <1>14, <2>1
  <2>2. CASE i = n
    BY <1>2, <1>6, <1>7, <1>13, <1>14, <2>2
  <2>3. CASE i \in 1 .. n /\ i # n
    BY <1>6, <1>13, <1>14, <2>3
  <2> QED
    BY <1>15, <2>1, <2>2, <2>3
<1>17. ASSUME NEW i \in 1 .. n
       PROVE  Idx(b, i) >= 1 /\ Neighbors(g, r[i])[Idx(b, i)] = r[i + 1]
  <2>1. CASE i = n
    BY <1>2, <1>7, <1>13, <1>14, <2>1
  <2>2. CASE i \in 1 .. n - 1
    <3>1. i # n /\ i + 1 \in 1 .. n
      BY <2>2
    <3>2. r[i] = p[i] /\ r[i + 1] = p[i + 1] /\ Idx(b, i) = Idx(k, i)
      BY <1>13, <1>14, <3>1
    <3> QED
      BY <1>6, <2>2, <3>2
  <2> QED
    BY <2>1, <2>2
<1>18. StackOf(g, r, b)
  <2>1. (n + 1) - 1 = n
    OBVIOUS
  <2> QED
    BY <1>12, <1>13, <1>16, <1>17, <2>1 DEF StackOf
<1>19. \A i \in 1 .. n : \A l \in 1 .. Idx(k, i) :
          l < Idx(k, i) \/ i = n => Explored(m, Neighbors(g, p[i])[l])
  BY <1>2 DEF LookedAt
<1>20. ASSUME NEW i \in 1 .. n + 1, NEW l \in 1 .. Idx(b, i), l < Idx(b, i) \/ i = n + 1
       PROVE  Explored(m, Neighbors(g, r[i])[l])
  <2>1. CASE i = n + 1
    BY <1>14, <2>1
  <2>2. CASE i = n
    <3>1. r[i] = p[n] /\ Idx(b, i) = j + 1
      BY <1>2, <1>7, <1>13, <1>14, <2>2
    <3>2. l \in 1 .. j
      BY <1>20, <2>2, <3>1
    <3> QED
      BY <1>2, <1>7, <1>19, <3>1, <3>2
  <2>3. CASE i \in 1 .. n /\ i # n
    <3>1. r[i] = p[i] /\ Idx(b, i) = Idx(k, i)
      BY <1>13, <1>14, <2>3
    <3>2. i # n + 1
      BY <2>3
    <3> QED
      BY <1>19, <1>20, <2>3, <3>1, <3>2
  <2> QED
    BY <1>15, <2>1, <2>2, <2>3
<1>21. LookedAt(g, insert(m, w, 1), r, b)
  BY <1>13, <1>20, MarkedNew DEF LookedAt
<1> QED
  BY <1>1, <1>9, <1>10, <1>11, <1>18, <1>21
\* What is left of a vector when the last element is popped (Vec::pop).
LEMMA PopFields ==
  ASSUME NEW S, NEW v \in Seq(S), NEW n \in Nat, n = Len(v), n >= 1
  PROVE  /\ SubSeq(v, 1, n - 1) \in Seq(S) /\ Len(SubSeq(v, 1, n - 1)) = n - 1
         /\ \A i \in 1 .. n - 1 : SubSeq(v, 1, n - 1)[i] = v[i]
OBVIOUS

\* The path without its last node.
LEMMA BacktrackPath ==
  ASSUME NEW m, NEW p, OnPath(m, p), NEW n \in Nat, n = Len(p), n >= 1
  PROVE  OnPath(explored(m, p[n]), retreated(p))
<1>1. PICK r : r = retreated(p)
  OBVIOUS
<1>2. p \in Seq(TxnId)
  BY DEF OnPath
<1>3. r \in Seq(TxnId) /\ Len(r) = n - 1 /\ \A i \in 1 .. n - 1 : r[i] = p[i]
  BY <1>1, <1>2, PopFields DEF retreated
<1>4. /\ \A t \in TxnId : Marked(m, t) <=> \E i \in 1 .. n : p[i] = t
      /\ \A i, j \in 1 .. n : i # j => p[i] # p[j]
  BY DEF OnPath
<1>5. \A i \in 1 .. n : i = n \/ i \in 1 .. n - 1
  OBVIOUS
<1>6. \A i \in 1 .. n - 1 : i \in 1 .. n /\ i # n
  OBVIOUS
<1>7. n \in 1 .. n /\ p[n] \in TxnId
  BY <1>2
<1>8. Marked(m, p[n])
  BY <1>4, <1>7
<1>9. ASSUME NEW t \in TxnId
      PROVE  Marked(explored(m, p[n]), t) <=> \E i \in 1 .. n - 1 : r[i] = t
  <2>1. Marked(explored(m, p[n]), t) <=> Marked(m, t) /\ t # p[n]
    BY <1>8, MarkedExplored
  <2>2. ASSUME Marked(m, t), t # p[n]
        PROVE  \E i \in 1 .. n - 1 : r[i] = t
    BY <1>3, <1>4, <1>5, <2>2
  <2>3. ASSUME NEW i \in 1 .. n - 1, r[i] = t
        PROVE  Marked(m, t) /\ t # p[n]
    BY <1>3, <1>4, <1>6, <1>7, <2>3
  <2> QED
    BY <2>1, <2>2, <2>3
<1>10. \A i, j \in 1 .. n - 1 : i # j => r[i] # r[j]
  BY <1>3, <1>4, <1>6
<1> QED
  BY <1>1, <1>3, <1>9, <1>10 DEF OnPath

\* The node before it goes on behind the neighbour that is explored now.
LEMMA BacktrackStack ==
  ASSUME NEW g, NEW m, NEW p, NEW k, StackOf(g, p, k), LookedAt(g, m, p, k),
         NEW n \in Nat, n = Len(p), n >= 1, Marked(m, p[n])
  PROVE  /\ StackOf(g, retreated(p), SubSeq(k, 1, Len(k) - 1))
         /\ LookedAt(g, explored(m, p[n]), retreated(p), SubSeq(k, 1, Len(k) - 1))
<1>1. n = Len(k) /\ p \in Seq(TxnId) /\ k \in Seq(TxnId \X Nat)
  BY DEF StackOf
<1>2. PICK r : r = retreated(p)
  OBVIOUS
<1>3. PICK b : b = SubSeq(k, 1, n - 1)
  OBVIOUS
<1>4. r \in Seq(TxnId) /\ Len(r) = n - 1 /\ \A i \in 1 .. n - 1 : r[i] = p[i]
  BY <1>1, <1>2, PopFields DEF retreated
<1>5. /\ b \in Seq(TxnId \X Nat) /\ Len(b) = n - 1
      /\ \A i \in 1 .. n - 1 : b[i] = k[i]
  BY <1>1, <1>3, PopFields
<1>6. \A i \in 1 .. n - 1 : Node(b, i) = Node(k, i) /\ Idx(b, i) = Idx(k, i)
  BY <1>5 DEF Node, Idx
<1>7. /\ \A i \in 1 .. n : Node(k, i) = p[i] /\ Idx(k, i) <= Len(Neighbors(g, p[i]))
      /\ \A i \in 1 .. n - 1 : Idx(k, i) >= 1 /\ Neighbors(g, p[i])[Idx(k, i)] = p[i + 1]
  BY DEF StackOf
<1>8. \A i \in 1 .. n - 1 : i \in 1 .. n /\ i # n
  OBVIOUS
<1>9. ASSUME NEW i \in 1 .. (n - 1) - 1
      PROVE  Idx(b, i) >= 1 /\ Neighbors(g, r[i])[Idx(b, i)] = r[i + 1]
  <2>1. i \in 1 .. n - 1 /\ i + 1 \in 1 .. n - 1
    OBVIOUS
  <2>2. r[i] = p[i] /\ r[i + 1] = p[i + 1] /\ Idx(b, i) = Idx(k, i)
    BY <1>4, <1>6, <2>1
  <2> QED
    BY <1>7, <2>1, <2>2
<1>10. StackOf(g, r, b)
  BY <1>4, <1>5, <1>6, <1>7, <1>8, <1>9 DEF StackOf
<1>11. \A i \in 1 .. n : \A l \in 1 .. Idx(k, i) :
          l < Idx(k, i) \/ i = n => Explored(m, Neighbors(g, p[i])[l])
  BY DEF LookedAt
<1>12. \A i \in 1 .. n : Idx(k, i) \in Nat
  BY <1>1, StackFields
<1>13. \A t : Explored(explored(m, p[n]), t) <=> Explored(m, t) \/ t = p[n]
  BY MarkedExplored
<1>14. ASSUME NEW i \in 1 .. n - 1, NEW l \in 1 .. Idx(b, i), l < Idx(b, i) \/ i = n - 1
       PROVE  Explored(explored(m, p[n]), Neighbors(g, r[i])[l])
  <2>1. r[i] = p[i] /\ Idx(b, i) = Idx(k, i) /\ Idx(k, i) \in Nat /\ i \in 1 .. n /\ i # n
    BY <1>4, <1>6, <1>8, <1>12
  <2>2. CASE l < Idx(b, i)
    BY <1>11, <1>13, <2>1, <2>2
  <2>3. CASE l = Idx(b, i)
    <3>1. i = n - 1 /\ i + 1 = n
      BY <1>14, <2>3
    <3>2. Neighbors(g, p[i])[Idx(k, i)] = p[n]
      BY <1>7, <3>1
    <3> QED
      BY <1>13, <2>1, <2>3, <3>2
  <2> QED
    BY <2>1, <2>2, <2>3
<1>15. LookedAt(g, explored(m, p[n]), r, b)
  BY <1>4, <1>14 DEF LookedAt
<1> QED
  BY <1>1, <1>2, <1>3, <1>10, <1>15

\* After a member of a cycle comes a member of the cycle.
LEMMA CycleMembers ==
  ASSUME NEW c \in Paths
  PROVE  /\ Len(c) \in Nat /\ Len(c) >= 1 /\ c \in Seq(TxnId)
         /\ \A i \in 1 .. Len(c) : \E j \in 1 .. Len(c) : Next1(c, i) = c[j]
<1>1. PICK n \in 1 .. Cardinality(TxnId) : c \in [1 .. n -> TxnId]
  BY DEF Paths
<1>2. n \in Nat /\ n >= 1 /\ Len(c) = n /\ c \in Seq(TxnId)
  BY <1>1
<1>3. \A i \in 1 .. n : (IF i = n THEN 1 ELSE i + 1) \in 1 .. n
  BY <1>2
<1> QED
  BY <1>2, <1>3 DEF Next1

\* A node whose neighbours are all explored is on no cycle that the explored nodes
\* are not on.
LEMMA BacktrackFinished ==
  ASSUME NEW g, GoodGraph(g), NEW m, Finished(g, m), NEW w, Marked(m, w),
         \A i \in 1 .. Len(Neighbors(g, w)) : Explored(m, Neighbors(g, w)[i])
  PROVE  Finished(g, explored(m, w))
<1>1. \A t : Explored(explored(m, w), t) <=> Explored(m, t) \/ t = w
  BY MarkedExplored
<1>2. ASSUME NEW e \in EdgesOf(g), Explored(m, e[1]) \/ e[1] = w
      PROVE  Explored(m, e[2])
  <2>1. CASE Explored(m, e[1])
    BY <2>1 DEF Finished
  <2>2. CASE e[1] = w
    <3>1. PICK v \in TxnId : \E i \in 1 .. Len(Neighbors(g, v)) : e = <<v, Neighbors(g, v)[i]>>
      BY EdgesFound
    <3> QED
      BY <2>2, <3>1
  <2> QED
    BY <1>2, <2>1, <2>2
<1>3. ASSUME NEW c \in Paths, IsCycle(EdgesOf(g), c), NEW i \in 1 .. Len(c),
             Explored(m, c[i]) \/ c[i] = w
      PROVE  FALSE
  <2>1. \A j \in 1 .. Len(c) : ~Explored(m, c[j])
    BY <1>3 DEF Finished
  <2>2. PICK e \in EdgesOf(g) : e = <<c[i], Next1(c, i)>>
    BY <1>3 DEF IsCycle
  <2>3. Explored(m, Next1(c, i))
    BY <1>2, <1>3, <2>2
  <2> QED
    BY <2>1, <2>3, CycleMembers
<1> QED
  BY <1>1, <1>2, <1>3 DEF Finished
\* The rest of a vector from position a on (path[pos..]).
LEMMA RestFields ==
  ASSUME NEW S, NEW v \in Seq(S), NEW n \in Nat, n = Len(v), NEW a \in 1 .. n
  PROVE  /\ SubSeq(v, a, n) \in Seq(S) /\ Len(SubSeq(v, a, n)) = n - a + 1
         /\ \A i \in 1 .. n - a + 1 : SubSeq(v, a, n)[i] = v[a + i - 1]
OBVIOUS

\* Simple paths are no longer than there are transactions.
LEMMA SimplePath ==
  ASSUME NEW c \in Seq(TxnId), NEW l \in Nat, l = Len(c), l >= 1,
         \A i, j \in 1 .. l : i # j => c[i] # c[j]
  PROVE  c \in Paths
<1>1. c \in [1 .. l -> TxnId]
  OBVIOUS
<1>2. c \in Injection(1 .. l, TxnId)
  BY <1>1 DEF Injection, IsInjective
<1>3. IsFiniteSet(TxnId)
  BY GraphAssumption
<1>4. Cardinality(1 .. l) <= Cardinality(TxnId) /\ Cardinality(TxnId) \in Nat
  BY <1>2, <1>3, FS_Injection, FS_CardinalityType
<1>5. Cardinality(1 .. l) = l
  <2>1. PICK a \in Int : a = 1
    OBVIOUS
  <2>2. l \in Int
    OBVIOUS
  <2>3. Cardinality(a .. l) = IF a > l THEN 0 ELSE l - a + 1
    BY <2>2, FS_Interval, Zenon
  <2> QED
    BY <2>1, <2>3
<1>6. l \in 1 .. Cardinality(TxnId)
  BY <1>4, <1>5
<1> QED
  BY <1>1, <1>6 DEF Paths

\* The path is a path of the graph.
LEMMA PathEdges ==
  ASSUME NEW g, GoodGraph(g), NEW p, NEW k, StackOf(g, p, k)
  PROVE  \A i \in 1 .. Len(p) - 1 : <<p[i], p[i + 1]>> \in EdgesOf(g)
<1>1. PICK n \in Nat : n = Len(p)
  BY DEF StackOf
<1>2. n = Len(k) /\ k \in Seq(TxnId \X Nat)
  BY <1>1 DEF StackOf
<1>3. ASSUME NEW i \in 1 .. n - 1
      PROVE  <<p[i], p[i + 1]>> \in EdgesOf(g)
  <2>1. i \in 1 .. n
    OBVIOUS
  <2>2. Idx(k, i) >= 1 /\ Neighbors(g, p[i])[Idx(k, i)] = p[i + 1] /\ Idx(k, i) <= Len(Neighbors(g, p[i]))
    BY <1>1, <2>1 DEF StackOf
  <2>3. Idx(k, i) \in Nat
    BY <1>2, <2>1, StackFields
  <2>4. Len(Neighbors(g, p[i])) \in Nat
    BY EdgesFound
  <2>5. PICK j \in 1 .. Len(Neighbors(g, p[i])) : j = Idx(k, i)
    BY <2>2, <2>3, <2>4
  <2> QED
    BY <2>2, <2>5, EdgesFound
<1> QED
  BY <1>1, <1>3

\* A neighbour on the path closes a cycle: the part of the path from there on, which
\* has two members at least.
LEMMA BackEdgeData ==
  ASSUME NEW g, GoodGraph(g), NEW m, NEW p, NEW k, OnPath(m, p), StackOf(g, p, k),
         NEW w, Ahead(g, p, k, w), Marked(m, w)
  PROVE  /\ closed(p, w) \in Paths /\ IsCycle(EdgesOf(g), closed(p, w))
         /\ closed(p, w)[1] = w /\ Len(closed(p, w)) # 1
<1>1. PICK n \in Nat : n = Len(p) /\ n \in 1 .. n
  BY DEF StackOf, Ahead
<1>2. p \in Seq(TxnId)
  BY DEF StackOf
<1>3. <<p[n], w>> \in EdgesOf(g) /\ w \in TxnId /\ w # p[n]
  BY <1>1, EdgesFound DEF Ahead
<1>4. \E i \in 1 .. n : p[i] = w
  BY <1>1, <1>3 DEF OnPath
<1>5. PICK I : I = {i \in 1 .. n : p[i] = w}
  OBVIOUS
<1>6. PICK a \in 1 .. n : a = first(I) /\ p[a] = w
  <2>1. I # {} /\ I \in SUBSET Nat
    BY <1>4, <1>5
  <2>2. first(I) \in I
    BY <2>1, FirstIsLeast
  <2> QED
    BY <1>5, <2>2
<1>7. PICK c : c = closed(p, w)
  OBVIOUS
<1>8. PICK l \in Nat : l = n - a + 1 /\ l >= 1
  OBVIOUS
<1>9. c \in Seq(TxnId) /\ Len(c) = l /\ \A i \in 1 .. l : c[i] = p[a + i - 1]
  <2>1. c = SubSeq(p, a, n)
    BY <1>1, <1>5, <1>6, <1>7 DEF closed
  <2> QED
    BY <1>1, <1>2, <1>8, <2>1, RestFields
<1>10. \A i, j \in 1 .. n : i # j => p[i] # p[j]
  BY <1>1 DEF OnPath
<1>11. \A i, j \in 1 .. l : i # j => c[i] # c[j]
  <2> SUFFICES ASSUME NEW i \in 1 .. l, NEW j \in 1 .. l, i # j
               PROVE  c[i] # c[j]
    OBVIOUS
  <2>1. a + i - 1 \in 1 .. n /\ a + j - 1 \in 1 .. n /\ a + i - 1 # a + j - 1
    BY <1>8
  <2> QED
    BY <1>9, <1>10, <2>1
<1>12. c \in Paths
  BY <1>8, <1>9, <1>11, SimplePath
<1>13. 1 \in 1 .. l /\ c[1] = w
  BY <1>6, <1>8, <1>9
<1>14. \A i \in 1 .. l : <<c[i], Next1(c, i)>> \in EdgesOf(g)
  <2> TAKE i \in 1 .. l
  <2>1. CASE i = l
    <3>1. c[i] = p[n]
      BY <1>8, <1>9, <2>1
    <3>2. Next1(c, i) = w
      BY <1>9, <1>13, <2>1 DEF Next1
    <3> QED
      BY <1>3, <3>1, <3>2
  <2>2. CASE i # l
    <3>1. PICK j \in 1 .. n - 1 : j = a + i - 1
      BY <1>8, <2>2
    <3>2. c[i] = p[j]
      BY <1>9, <3>1
    <3>3. i + 1 \in 1 .. l /\ a + (i + 1) - 1 = j + 1
      BY <2>2, <3>1
    <3>4. c[i + 1] = p[j + 1]
      BY <1>9, <3>3
    <3>5. Next1(c, i) = p[j + 1]
      BY <1>9, <2>2, <3>4 DEF Next1
    <3> QED
      BY <1>1, <3>2, <3>5, PathEdges
  <2> QED
    BY <2>1, <2>2
<1>15. IsCycle(EdgesOf(g), c)
  BY <1>8, <1>9, <1>11, <1>14 DEF IsCycle
<1>16. l # 1
  <2> SUFFICES ASSUME l = 1 PROVE FALSE
    OBVIOUS
  <2>1. a = n
    BY <1>8
  <2> QED
    BY <1>3, <1>6, <2>1
<1> QED
  BY <1>7, <1>9, <1>12, <1>13, <1>15, <1>16

\* When the path is empty every node met is explored, and none of them can reach a
\* cycle.
LEMMA ExhaustedData ==
  ASSUME NEW g, GoodGraph(g), NEW m, IsHashMap(m, TxnId, {1, 2}), OnPath(m, <<>>), Finished(g, m),
         NEW r \in DOMAIN m
  PROVE  Clean(g, r)
<1>1. DOMAIN m \in SUBSET TxnId /\ \A t \in DOMAIN m : m[t] \in {1, 2}
  BY DEF IsHashMap
<1>2. \A t \in TxnId : ~Marked(m, t)
  BY DEF OnPath
<1>3. \A t : t \in DOMAIN m <=> Explored(m, t)
  BY <1>1, <1>2 DEF Marked, Explored
<1>4. \A e \in EdgesOf(g) : e[1] \in DOMAIN m => e[2] \in DOMAIN m
  BY <1>3 DEF Finished
<1>5. Reachable(EdgesOf(g), {r}) \subseteq DOMAIN m
  BY <1>1, <1>4, ReachableWithin
<1>6. ASSUME NEW c \in Paths, IsCycle(EdgesOf(g), c)
      PROVE  c[1] \notin DOMAIN m
  <2>1. 1 \in 1 .. Len(c)
    BY CycleMembers
  <2> QED
    BY <1>3, <1>6, <2>1 DEF Finished
<1> QED
  BY <1>5, <1>6 DEF Clean

\* No cycle can be reached from the roots if none can from any one of them.
LEMMA AllClean ==
  ASSUME NEW g, GoodGraph(g), NEW R \in SUBSET TxnId, \A r \in R : Clean(g, r)
  PROVE  \A c \in Paths : IsCycle(EdgesOf(g), c) => c[1] \notin Reachable(EdgesOf(g), R)
<1>1. EdgesOf(g) \subseteq TxnId \X TxnId
  <2> SUFFICES ASSUME NEW e \in EdgesOf(g) PROVE e \in TxnId \X TxnId
    OBVIOUS
  <2>1. PICK w \in TxnId : \E i \in 1 .. Len(Neighbors(g, w)) : e = <<w, Neighbors(g, w)[i]>>
    BY EdgesFound
  <2> QED
    BY <2>1, EdgesFound
<1>2. PICK E : E = EdgesOf(g)
  OBVIOUS
<1> QED
  BY <1>1, <1>2, ReachableFromOne DEF Clean
-----------------------------------------------------------------------------
(* The steps of the search.                                                 *)

\* The marks are a map.
LEMMA StateIsMap ==
  ASSUME NEW m
  PROVE  m \in UNION {[T -> {1, 2}] : T \in SUBSET TxnId} <=> IsHashMap(m, TxnId, {1, 2})
BY DEF IsHashMap

\* What a search that is under way consists of.
LEMMA SearchFields ==
  ASSUME NEW s \in Search \cup {NoSearch}, s.pc # "none"
  PROVE  /\ s \in Search /\ s.pc \in {"next", "loop", "done"}
         /\ s.roots \in SUBSET TxnId /\ s.starts \in SUBSET TxnId
         /\ IsHashMap(s.state, TxnId, {1, 2})
         /\ s.path \in Seq(TxnId) /\ s.stack \in Seq(TxnId \X Nat) /\ s.cycle \in Seq(TxnId)
<1>1. s \in Search
  BY DEF NoSearch
<1>2. s.state \in UNION {[T -> {1, 2}] : T \in SUBSET TxnId}
  BY <1>1 DEF Search
<1> QED
  BY <1>1, <1>2, StateIsMap DEF Search

\* And what makes one.
LEMMA IsSearch ==
  ASSUME NEW c \in {"next", "loop", "done"}, NEW R \in SUBSET TxnId, NEW S \in SUBSET TxnId,
         NEW m, IsHashMap(m, TxnId, {1, 2}),
         NEW p \in Seq(TxnId), NEW k \in Seq(TxnId \X Nat), NEW l \in Seq(TxnId)
  PROVE  [pc |-> c, roots |-> R, starts |-> S, state |-> m, path |-> p, stack |-> k,
          cycle |-> l] \in Search
<1>1. m \in UNION {[T -> {1, 2}] : T \in SUBSET TxnId}
  BY StateIsMap
<1> QED
  BY <1>1 DEF Search

\* The edges are those of the invariant; between two searches nothing is claimed.
LEMMA SameEdges == EdgeSet = EdgesOf(edges)
BY DEF EdgeSet, EdgesOf

\* A turn of the loop that goes on.
LEMMA LoopKept ==
  ASSUME GInv, edges' = edges, search' \in Search, search'.pc = "loop",
         search'.starts \subseteq search'.roots, InLoop(edges, search')
  PROVE  GInv'
<1>1. GoodGraph(edges)'
  BY DEF GInv
<1>2. InLoop(edges, search)'
  BY Zenon
<1> QED
  BY <1>1, <1>2 DEF GInv, SearchCorrect, NoSelfDeadlock
\* The loop as the invariant has it.
LEMMA LoopFields ==
  ASSUME GInv, search.pc = "loop"
  PROVE  /\ search \in Search /\ GoodGraph(edges) /\ InLoop(edges, search)
         /\ search.roots \in SUBSET TxnId /\ search.starts \in SUBSET TxnId
         /\ search.starts \subseteq search.roots
         /\ IsHashMap(search.state, TxnId, {1, 2})
         /\ search.path \in Seq(TxnId) /\ search.stack \in Seq(TxnId \X Nat)
         /\ search.cycle = <<>>
<1>1. search \in Search \cup {NoSearch} /\ search.pc # "none" /\ search # NoSearch
  BY DEF GInv, NoSearch
<1> QED
  BY <1>1, SearchFields DEF GInv, InLoop

\* The top of the stack is the end of the path.
LEMMA TopOfStack ==
  ASSUME GInv, search.pc = "loop", search.stack # <<>>
  PROVE  \E n \in Nat :
           /\ n = Len(search.stack) /\ n = Len(search.path) /\ n >= 1
           /\ node = search.path[n] /\ idx = Idx(search.stack, n) /\ idx \in Nat
           /\ neighbors = Neighbors(edges, search.path[n])
<1>1. StackOf(edges, search.path, search.stack)
  BY LoopFields DEF InLoop
<1>2. PICK n \in Nat : n = Len(search.stack) /\ n = Len(search.path) /\ n >= 1
  BY <1>1 DEF StackOf
<1>3. Node(search.stack, n) = search.path[n]
  BY <1>1, <1>2 DEF StackOf
<1>4. node = search.path[n] /\ idx = Idx(search.stack, n)
  BY <1>2, <1>3 DEF node, idx, Depth, Node, Idx
<1>5. idx \in Nat
  <2>1. PICK k \in Seq(TxnId \X Nat) : k = search.stack
    BY LoopFields
  <2>2. n \in 1 .. Len(k)
    <3>1. n = Len(k) /\ n >= 1
      BY <1>2, <2>1
    <3> QED
      BY <3>1
  <2>3. Idx(k, n) \in Nat
    BY <2>2, StackFields
  <2> QED
    BY <1>4, <2>1, <2>3
<1> QED
  BY <1>2, <1>4, <1>5 DEF neighbors, Neighbors

\* The neighbour looked at.
LEMMA NeighborAhead ==
  ASSUME GInv, NEW w, AtNeighbor(w)
  PROVE  Ahead(edges, search.path, search.stack, w)
<1>1. PICK n \in Nat :
           /\ n = Len(search.stack) /\ n = Len(search.path) /\ n >= 1
           /\ node = search.path[n] /\ idx = Idx(search.stack, n) /\ idx \in Nat
           /\ neighbors = Neighbors(edges, search.path[n])
  BY TopOfStack DEF AtNeighbor
<1>2. Len(neighbors) \in Nat
  BY <1>1, EdgesFound DEF GInv
<1>3. idx + 1 \in 1 .. Len(neighbors) /\ w = neighbors[idx + 1] /\ search.stack # <<>>
  BY <1>1, <1>2 DEF AtNeighbor, more
<1> QED
  BY <1>1, <1>3 DEF Ahead

\* Passing over an explored neighbour keeps the invariant.
LEMMA SkipStep ==
  ASSUME GInv, NEW w \in TxnId, Skip(w)
  PROVE  GInv'
<1>1. /\ search.pc = "loop" /\ AtNeighbor(w) /\ Explored(search.state, w) /\ search.stack # <<>>
      /\ search' = [search EXCEPT !.stack = advanced(@)] /\ edges' = edges
  BY DEF Skip, AtNeighbor, Explored
<1>2. Ahead(edges, search.path, search.stack, w)
  BY <1>1, NeighborAhead
<1>3. PICK g, s : g = edges /\ s = search
  OBVIOUS
<1>4. PICK z : z = [s EXCEPT !.stack = advanced(@)]
  OBVIOUS
<1>5. /\ s \in Search /\ GoodGraph(g) /\ InLoop(g, s) /\ s.starts \subseteq s.roots
      /\ s.stack \in Seq(TxnId \X Nat) /\ s.stack # <<>> /\ s.pc = "loop"
  BY <1>1, <1>3, LoopFields
<1>6. advanced(s.stack) \in Seq(TxnId \X Nat)
  BY <1>5, AdvancedFields
<1>7. /\ z \in Search /\ z.pc = "loop" /\ z.roots = s.roots /\ z.starts = s.starts
      /\ z.state = s.state /\ z.path = s.path /\ z.cycle = s.cycle /\ z.stack = advanced(s.stack)
  BY <1>4, <1>5, <1>6 DEF Search
<1>8. StackOf(g, s.path, advanced(s.stack)) /\ LookedAt(g, s.state, s.path, advanced(s.stack))
  BY <1>1, <1>2, <1>3, <1>5, SkipData DEF InLoop
<1>9. InLoop(g, z)
  BY <1>5, <1>7, <1>8 DEF InLoop
<1> QED
  BY <1>1, <1>3, <1>4, <1>5, <1>7, <1>9, LoopKept

\* Going on to a new neighbour keeps it.
LEMMA DescendStep ==
  ASSUME GInv, NEW w \in TxnId, Descend(w)
  PROVE  GInv'
<1>1. /\ search.pc = "loop" /\ AtNeighbor(w) /\ w \notin DOMAIN search.state /\ search.stack # <<>>
      /\ search' = [search EXCEPT !.state = insert(@, w, 1), !.path = Append(@, w),
                                  !.stack = Append(advanced(@), <<w, 0>>)]
      /\ edges' = edges
  BY DEF Descend, AtNeighbor
<1>2. Ahead(edges, search.path, search.stack, w)
  BY <1>1, NeighborAhead
<1>3. PICK g, s : g = edges /\ s = search
  OBVIOUS
<1>4. PICK z : z = [s EXCEPT !.state = insert(@, w, 1), !.path = Append(@, w),
                             !.stack = Append(advanced(@), <<w, 0>>)]
  OBVIOUS
<1>5. /\ s \in Search /\ GoodGraph(g) /\ InLoop(g, s) /\ s.starts \subseteq s.roots
      /\ s.roots \in SUBSET TxnId /\ s.starts \in SUBSET TxnId /\ s.cycle = <<>>
      /\ IsHashMap(s.state, TxnId, {1, 2}) /\ s.pc = "loop"
      /\ OnPath(s.state, s.path) /\ StackOf(g, s.path, s.stack) /\ LookedAt(g, s.state, s.path, s.stack)
  BY <1>1, <1>3, LoopFields DEF InLoop
<1>6. PICK m : m = insert(s.state, w, 1)
  OBVIOUS
<1>7. PICK p : p = Append(s.path, w)
  OBVIOUS
<1>8. PICK k : k = Append(advanced(s.stack), <<w, 0>>)
  OBVIOUS
<1>9. w \notin DOMAIN s.state /\ Ahead(g, s.path, s.stack, w)
  BY <1>1, <1>2, <1>3
<1>10. IsHashMap(m, TxnId, {1, 2}) /\ DOMAIN m = DOMAIN s.state \cup {w}
  <2>1. PICK one \in {1, 2} : one = 1
    OBVIOUS
  <2>2. IsHashMap(insert(s.state, w, one), TxnId, {1, 2})
    BY <1>5, InsertType
  <2> QED
    BY <1>6, <2>1, <2>2 DEF insert
<1>11. OnPath(m, p)
  BY <1>5, <1>6, <1>7, <1>9, DescendPath
<1>12. StackOf(g, p, k) /\ LookedAt(g, m, p, k)
  BY <1>5, <1>6, <1>7, <1>8, <1>9, DescendStack
<1>13. z = [pc |-> s.pc, roots |-> s.roots, starts |-> s.starts, state |-> m, path |-> p,
            stack |-> k, cycle |-> s.cycle]
  BY <1>4, <1>5, <1>6, <1>7, <1>8 DEF Search
<1>14. z \in Search
  <2>1. p \in Seq(TxnId) /\ k \in Seq(TxnId \X Nat)
    BY <1>12 DEF StackOf
  <2>2. s.cycle \in Seq(TxnId) /\ s.pc \in {"next", "loop", "done"}
    BY <1>5 DEF Search
  <2> QED
    BY <1>5, <1>10, <1>13, <2>1, <2>2, IsSearch
<1>15. w \in Reachable(EdgesOf(g), s.roots)
  <2>1. PICK u : u = s.path[Len(s.path)] /\ <<u, w>> \in EdgesOf(g) /\ u \in TxnId
    BY <1>5, <1>9, EdgesFound DEF Ahead
  <2>2. Len(s.path) \in 1 .. Len(s.path)
    BY <1>5, <1>9 DEF Ahead, StackOf
  <2>3. u \in DOMAIN s.state
    BY <1>5, <2>1, <2>2 DEF OnPath, Marked
  <2>4. u \in Reachable(EdgesOf(g), s.roots)
    BY <1>5, <2>3 DEF InLoop
  <2> QED
    BY <1>5, <2>1, <2>4, ReachableStep
<1>16. Finished(g, m)
  <2>1. \A t : Explored(m, t) <=> Explored(s.state, t)
    BY <1>6, <1>9, MarkedNew
  <2>2. Finished(g, s.state)
    BY <1>5 DEF InLoop
  <2> QED
    BY <2>1, <2>2 DEF Finished
<1>17. /\ z.pc = "loop" /\ z.roots = s.roots /\ z.starts = s.starts /\ z.state = m
       /\ z.path = p /\ z.stack = k /\ z.cycle = <<>>
  BY <1>5, <1>13
<1>18. InLoop(g, z)
  BY <1>5, <1>10, <1>11, <1>12, <1>15, <1>16, <1>17 DEF InLoop
<1> QED
  BY <1>1, <1>3, <1>4, <1>5, <1>14, <1>17, <1>18, LoopKept
\* Giving up an exhausted node for good keeps it.
LEMMA BacktrackStep ==
  ASSUME GInv, Backtrack
  PROVE  GInv'
<1>1. /\ search.pc = "loop" /\ search.stack # <<>> /\ ~(idx < Len(neighbors))
      /\ search' = [search EXCEPT !.state = explored(@, node), !.path = retreated(@),
                                  !.stack = SubSeq(@, 1, Len(@) - 1)]
      /\ edges' = edges
  BY DEF Backtrack, more
<1>2. PICK g, s : g = edges /\ s = search
  OBVIOUS
<1>3. PICK n \in Nat :
           /\ n = Len(s.stack) /\ n = Len(s.path) /\ n >= 1
           /\ node = s.path[n] /\ idx = Idx(s.stack, n) /\ idx \in Nat
           /\ neighbors = Neighbors(g, s.path[n])
  BY <1>1, <1>2, TopOfStack
<1>4. PICK w : w = s.path[n]
  OBVIOUS
<1>5. PICK z : z = [s EXCEPT !.state = explored(@, w), !.path = retreated(@),
                             !.stack = SubSeq(@, 1, Len(@) - 1)]
  OBVIOUS
<1>6. search' = z
  BY <1>1, <1>2, <1>3, <1>4, <1>5
<1>7. /\ s \in Search /\ GoodGraph(g) /\ InLoop(g, s) /\ s.starts \subseteq s.roots
      /\ s.roots \in SUBSET TxnId /\ s.starts \in SUBSET TxnId /\ s.cycle = <<>>
      /\ IsHashMap(s.state, TxnId, {1, 2}) /\ s.pc = "loop"
      /\ OnPath(s.state, s.path) /\ StackOf(g, s.path, s.stack) /\ LookedAt(g, s.state, s.path, s.stack)
      /\ Finished(g, s.state)
  BY <1>1, <1>2, LoopFields DEF InLoop
<1>8. PICK m : m = explored(s.state, w)
  OBVIOUS
<1>9. PICK p : p = retreated(s.path)
  OBVIOUS
<1>10. PICK k : k = SubSeq(s.stack, 1, Len(s.stack) - 1)
  OBVIOUS
<1>11. w \in TxnId /\ Marked(s.state, w)
  <2>1. n \in 1 .. Len(s.path) /\ s.path \in Seq(TxnId)
    BY <1>3, <1>7 DEF OnPath
  <2>2. w \in TxnId
    BY <1>4, <2>1
  <2> QED
    BY <1>4, <1>7, <2>1, <2>2 DEF OnPath
<1>12. IsHashMap(m, TxnId, {1, 2}) /\ DOMAIN m = DOMAIN s.state
  <2>1. PICK two \in {1, 2} : two = 2
    OBVIOUS
  <2>2. IsHashMap(insert(s.state, w, two), TxnId, {1, 2})
    BY <1>7, <1>11, InsertType
  <2>3. w \in DOMAIN s.state
    BY <1>11 DEF Marked
  <2> QED
    BY <1>8, <2>1, <2>2, <2>3 DEF insert, explored
<1>13. OnPath(m, p)
  BY <1>3, <1>4, <1>7, <1>8, <1>9, BacktrackPath
<1>14. StackOf(g, p, k) /\ LookedAt(g, m, p, k)
  BY <1>3, <1>4, <1>7, <1>8, <1>9, <1>10, <1>11, BacktrackStack
<1>15. \A i \in 1 .. Len(Neighbors(g, w)) : Explored(s.state, Neighbors(g, w)[i])
  <2>1. PICK j \in Nat : j = Idx(s.stack, n) /\ ~(j < Len(Neighbors(g, w)))
    BY <1>1, <1>3, <1>4
  <2>2. Len(Neighbors(g, w)) \in Nat
    BY <1>7, EdgesFound
  <2>3. \A i \in 1 .. Len(Neighbors(g, w)) : i \in 1 .. j
    BY <2>1, <2>2
  <2>4. n \in 1 .. Len(s.path) /\ n = Len(s.path)
    BY <1>3
  <2> QED
    BY <1>4, <1>7, <2>1, <2>3, <2>4 DEF LookedAt
<1>16. Finished(g, m)
  BY <1>7, <1>8, <1>11, <1>15, BacktrackFinished
<1>17. z = [pc |-> s.pc, roots |-> s.roots, starts |-> s.starts, state |-> m, path |-> p,
            stack |-> k, cycle |-> s.cycle]
  BY <1>5, <1>7, <1>8, <1>9, <1>10 DEF Search
<1>18. z \in Search
  <2>1. p \in Seq(TxnId) /\ k \in Seq(TxnId \X Nat)
    BY <1>14 DEF StackOf
  <2>2. s.cycle \in Seq(TxnId) /\ s.pc \in {"next", "loop", "done"}
    BY <1>7 DEF Search
  <2> QED
    BY <1>7, <1>12, <1>17, <2>1, <2>2, IsSearch
<1>19. /\ z.pc = "loop" /\ z.roots = s.roots /\ z.starts = s.starts /\ z.state = m
       /\ z.path = p /\ z.stack = k /\ z.cycle = <<>>
  BY <1>7, <1>17
<1>20. InLoop(g, z)
  BY <1>7, <1>12, <1>13, <1>14, <1>16, <1>19 DEF InLoop
<1> QED
  BY <1>1, <1>2, <1>6, <1>7, <1>18, <1>19, <1>20, LoopKept

\* A start is entered with nothing explored.
LEMMA EnterStep ==
  ASSUME GInv, NEW t \in TxnId, Enter(t)
  PROVE  GInv'
<1>1. /\ search.pc = "next" /\ t \in search.starts
      /\ search' = [search EXCEPT !.pc = "loop", !.starts = @ \ {t},
                                  !.state = insert(EmptyMap, t, 1),
                                  !.path = <<t>>, !.stack = <<<<t, 0>>>>]
      /\ edges' = edges
  BY DEF Enter
<1>2. PICK g, s : g = edges /\ s = search
  OBVIOUS
<1>3. PICK m : m = insert(EmptyMap, t, 1)
  OBVIOUS
<1>4. PICK k : k = <<<<t, 0>>>>
  OBVIOUS
<1>5. /\ s \in Search /\ s.roots \in SUBSET TxnId /\ s.starts \in SUBSET TxnId
      /\ s.starts \subseteq s.roots /\ s.cycle = <<>> /\ GoodGraph(g)
      /\ \A r \in s.roots \ s.starts : Clean(g, r)
  <2>1. s \in Search \cup {NoSearch} /\ s.pc # "none" /\ s # NoSearch
    BY <1>1, <1>2 DEF GInv, NoSearch
  <2> QED
    BY <1>1, <1>2, <2>1, SearchFields DEF GInv
<1>6. /\ DOMAIN m = {t} /\ m[t] = 1 /\ IsHashMap(m, TxnId, {1, 2})
  BY <1>3 DEF EmptyMap, insert, IsHashMap
<1>7. /\ <<t>> \in Seq(TxnId) /\ Len(<<t>>) = 1 /\ <<t>>[1] = t
      /\ k \in Seq(TxnId \X Nat) /\ Len(k) = 1 /\ k[1] = <<t, 0>>
  BY <1>4
<1>8. PICK z : z = [s EXCEPT !.pc = "loop", !.starts = @ \ {t}, !.state = m,
                             !.path = <<t>>, !.stack = k]
  OBVIOUS
<1>9. /\ search' = z
      /\ z = [pc |-> "loop", roots |-> s.roots, starts |-> s.starts \ {t}, state |-> m,
              path |-> <<t>>, stack |-> k, cycle |-> s.cycle]
  <2>1. search' = z
    BY <1>1, <1>2, <1>3, <1>4, <1>8
  <2> QED
    BY <1>5, <1>8, <2>1 DEF Search
<1>10. z \in Search
  <2>1. s.cycle \in Seq(TxnId) /\ s.starts \ {t} \in SUBSET TxnId
    BY <1>5
  <2>2. PICK c \in {"next", "loop", "done"} : c = "loop"
    OBVIOUS
  <2> QED
    BY <1>5, <1>6, <1>7, <1>9, <2>1, <2>2, IsSearch
<1>11. OnPath(m, <<t>>)
  BY <1>6, <1>7 DEF OnPath, Marked
<1>12. Node(k, 1) = t /\ Idx(k, 1) = 0
  BY <1>7 DEF Node, Idx
<1>13. StackOf(g, <<t>>, k)
  <2>1. Len(Neighbors(g, t)) \in Nat
    BY <1>5, EdgesFound
  <2> QED
    BY <1>7, <1>12, <2>1 DEF StackOf
<1>14. LookedAt(g, m, <<t>>, k)
  BY <1>7, <1>12 DEF LookedAt
<1>15. Finished(g, m)
  <2>1. \A u : ~Explored(m, u)
    BY <1>6 DEF Explored
  <2> QED
    BY <2>1 DEF Finished
<1>16. DOMAIN m \subseteq Reachable(EdgesOf(g), s.roots)
  BY <1>1, <1>2, <1>5, <1>6, ReachableStep
<1>17. \A o \in s.roots \ (s.starts \ {t}) : o = t \/ Clean(g, o)
  BY <1>5
<1>18. InLoop(g, z)
  BY <1>1, <1>2, <1>5, <1>6, <1>9, <1>11, <1>13, <1>14, <1>15, <1>16, <1>17 DEF InLoop
<1> QED
  BY <1>1, <1>2, <1>5, <1>9, <1>10, <1>18, LoopKept
\* A search that is done.
LEMMA DoneKept ==
  ASSUME GInv, edges' = edges, search' \in Search, search'.pc = "done",
         search'.starts \subseteq search'.roots,
         search'.cycle \in cycle_from(EdgesOf(edges), search'.roots), Len(search'.cycle) # 1
  PROVE  GInv'
<1>1. GoodGraph(edges)'
  BY DEF GInv
<1>2. SearchCorrect'
  <2>1. EdgeSet' = EdgesOf(edges)
    BY DEF EdgeSet, EdgesOf
  <2> QED
    BY <2>1 DEF SearchCorrect
<1> QED
  BY <1>1, <1>2 DEF GInv, NoSelfDeadlock

\* The cycle that a back edge closes is a right answer.
LEMMA BackEdgeStep ==
  ASSUME GInv, NEW w \in TxnId, BackEdge(w)
  PROVE  GInv'
<1>1. /\ search.pc = "loop" /\ AtNeighbor(w) /\ Marked(search.state, w)
      /\ search' = [search EXCEPT !.pc = "done", !.cycle = closed(search.path, w),
                                  !.stack = advanced(@)]
      /\ edges' = edges /\ search.stack # <<>>
  BY DEF BackEdge, AtNeighbor, Marked
<1>2. Ahead(edges, search.path, search.stack, w)
  BY <1>1, NeighborAhead
<1>3. PICK g, s : g = edges /\ s = search
  OBVIOUS
<1>4. PICK c : c = closed(s.path, w)
  OBVIOUS
<1>5. PICK z : z = [s EXCEPT !.pc = "done", !.cycle = c, !.stack = advanced(@)]
  OBVIOUS
<1>6. search' = z
  BY <1>1, <1>3, <1>4, <1>5
<1>7. /\ s \in Search /\ GoodGraph(g) /\ InLoop(g, s) /\ s.starts \subseteq s.roots
      /\ s.roots \in SUBSET TxnId /\ s.starts \in SUBSET TxnId /\ IsHashMap(s.state, TxnId, {1, 2})
      /\ s.stack \in Seq(TxnId \X Nat) /\ s.stack # <<>> /\ s.path \in Seq(TxnId)
      /\ OnPath(s.state, s.path) /\ StackOf(g, s.path, s.stack)
      /\ Marked(s.state, w) /\ Ahead(g, s.path, s.stack, w)
  BY <1>1, <1>2, <1>3, LoopFields DEF InLoop
<1>8. /\ c \in Paths /\ IsCycle(EdgesOf(g), c) /\ c[1] = w /\ Len(c) # 1
  BY <1>4, <1>7, BackEdgeData
<1>9. w \in Reachable(EdgesOf(g), s.roots)
  BY <1>7 DEF InLoop, Marked
<1>10. c \in cycle_from(EdgesOf(g), s.roots)
  <2> DEFINE C == {d \in Paths : IsCycle(EdgesOf(g), d) /\ d[1] \in Reachable(EdgesOf(g), s.roots)}
  <2>1. c \in C
    BY <1>8, <1>9
  <2>2. cycle_from(EdgesOf(g), s.roots) = IF C = {} THEN {<<>>} ELSE C
    BY DEF cycle_from
  <2> HIDE DEF C
  <2> QED
    BY <2>1, <2>2
<1>11. z = [pc |-> "done", roots |-> s.roots, starts |-> s.starts, state |-> s.state,
            path |-> s.path, stack |-> advanced(s.stack), cycle |-> c]
  BY <1>5, <1>7 DEF Search
<1>12. z \in Search
  <2>1. advanced(s.stack) \in Seq(TxnId \X Nat) /\ c \in Seq(TxnId)
    BY <1>7, <1>8, AdvancedFields, CycleMembers
  <2>2. PICK d \in {"next", "loop", "done"} : d = "done"
    OBVIOUS
  <2> QED
    BY <1>7, <1>11, <2>1, <2>2, IsSearch
<1>13. z.pc = "done" /\ z.roots = s.roots /\ z.starts = s.starts /\ z.cycle = c
  BY <1>11
<1> QED
  BY <1>1, <1>3, <1>6, <1>7, <1>8, <1>10, <1>12, <1>13, DoneKept

\* So is None when every start has been tried.
LEMMA NotFoundStep ==
  ASSUME GInv, NotFound
  PROVE  GInv'
<1>1. /\ search.pc = "next" /\ search.starts = {}
      /\ search' = [search EXCEPT !.pc = "done"] /\ edges' = edges
  BY DEF NotFound
<1>2. PICK g, s : g = edges /\ s = search
  OBVIOUS
<1>3. /\ s \in Search /\ s.roots \in SUBSET TxnId /\ s.starts = {}
      /\ s.cycle = <<>> /\ GoodGraph(g) /\ \A r \in s.roots : Clean(g, r)
  <2>1. s \in Search \cup {NoSearch} /\ s.pc # "none" /\ s # NoSearch
    BY <1>1, <1>2 DEF GInv, NoSearch
  <2> QED
    BY <1>1, <1>2, <2>1, SearchFields DEF GInv
<1>4. PICK z : z = [s EXCEPT !.pc = "done"]
  OBVIOUS
<1>5. search' = z
  BY <1>1, <1>2, <1>4
<1>6. /\ z \in Search /\ z.pc = "done" /\ z.roots = s.roots /\ z.starts = {} /\ z.cycle = <<>>
  BY <1>3, <1>4 DEF Search
<1>7. <<>> \in cycle_from(EdgesOf(g), s.roots)
  <2>1. {c \in Paths : IsCycle(EdgesOf(g), c) /\ c[1] \in Reachable(EdgesOf(g), s.roots)} = {}
    BY <1>3, AllClean
  <2> QED
    BY <2>1 DEF cycle_from
<1>8. Len(<<>>) # 1
  OBVIOUS
<1> QED
  BY <1>1, <1>2, <1>5, <1>6, <1>7, <1>8, DoneKept

\* A search that found no cycle from one start: none can be reached from there.
LEMMA ExhaustedStep ==
  ASSUME GInv, Exhausted
  PROVE  GInv'
<1>1. /\ search.pc = "loop" /\ search.stack = <<>>
      /\ search' = [search EXCEPT !.pc = "next"] /\ edges' = edges
  BY DEF Exhausted
<1>2. PICK g, s : g = edges /\ s = search
  OBVIOUS
<1>3. /\ s \in Search /\ GoodGraph(g) /\ InLoop(g, s) /\ s.starts \subseteq s.roots
      /\ IsHashMap(s.state, TxnId, {1, 2}) /\ s.cycle = <<>> /\ s.stack = <<>>
      /\ OnPath(s.state, s.path) /\ StackOf(g, s.path, s.stack) /\ Finished(g, s.state)
  BY <1>1, <1>2, LoopFields DEF InLoop
<1>4. s.path = <<>>
  <2>1. s.path \in Seq(TxnId) /\ Len(s.path) = Len(s.stack) /\ Len(s.stack) = 0
    BY <1>3 DEF StackOf
  <2> QED
    BY <2>1
<1>5. \A r \in s.roots \ s.starts : Clean(g, r)
  <2>1. PICK q \in s.roots : q \in DOMAIN s.state /\ \A o \in s.roots \ s.starts : o = q \/ Clean(g, o)
    BY <1>3 DEF InLoop
  <2>2. Clean(g, q)
    BY <1>3, <1>4, <2>1, ExhaustedData
  <2> QED
    BY <2>1, <2>2
<1>6. PICK z : z = [s EXCEPT !.pc = "next"]
  OBVIOUS
<1>7. search' = z
  BY <1>1, <1>2, <1>6
<1>8. z \in Search /\ z.pc = "next" /\ z.roots = s.roots /\ z.starts = s.starts /\ z.cycle = <<>>
  BY <1>3, <1>6 DEF Search
<1>9. edges' = g
  BY <1>1, <1>2
<1> QED
  BY <1>3, <1>5, <1>7, <1>8, <1>9 DEF GInv, SearchCorrect, NoSelfDeadlock

\* A call begins with all its starts to be tried, and a return leaves nothing behind.
LEMMA CallStep ==
  ASSUME GInv, edges' = edges,
         search' = NoSearch \/ \E R \in SUBSET TxnId : search' = Searching(R)
  PROVE  GInv'
<1>1. PICK g : g = edges
  OBVIOUS
<1>2. GoodGraph(g) /\ edges' = g
  BY <1>1 DEF GInv
<1>3. CASE search' = NoSearch
  BY <1>2, <1>3 DEF GInv, SearchCorrect, NoSelfDeadlock, NoSearch
<1>4. ASSUME NEW R \in SUBSET TxnId, search' = Searching(R)
      PROVE  GInv'
  <2>1. PICK z : z = Searching(R)
    OBVIOUS
  <2>2. z \in Search
    <3>1. IsHashMap(EmptyMap, TxnId, {1, 2}) /\ <<>> \in Seq(TxnId) /\ <<>> \in Seq(TxnId \X Nat)
      BY EmptyMapType
    <3>2. PICK c \in {"next", "loop", "done"} : c = "next"
      OBVIOUS
    <3>3. PICK p \in Seq(TxnId) : p = <<>>
      BY <3>1
    <3>4. PICK k \in Seq(TxnId \X Nat) : k = <<>>
      BY <3>1
    <3> QED
      BY <2>1, <3>1, <3>2, <3>3, <3>4, IsSearch DEF Searching
  <2>3. z.pc = "next" /\ z.roots = R /\ z.starts = R /\ z.cycle = <<>>
    BY <2>1 DEF Searching
  <2>4. search' = z
    BY <1>4, <2>1
  <2> QED
    BY <1>2, <2>2, <2>3, <2>4 DEF GInv, SearchCorrect, NoSelfDeadlock
<1> QED
  BY <1>3, <1>4
-----------------------------------------------------------------------------
(* The changes of the graph, and the theorems.                              *)

\* add_waits, clear_waiter and remove_txn put no self-edge into the graph.
LEMMA ChangeGood ==
  ASSUME NEW g, GoodGraph(g), NEW t \in TxnId
  PROVE  /\ GoodGraph(remove(g, t))
         /\ GoodGraph([w \in DOMAIN g \ {t} |-> without(g[w], t)])
         /\ \A holders \in Seq(TxnId) :
              GoodGraph(insert(g, t, entry_or_new(g, t) \o others(t, holders)))
<1>1. IsHashMap(g, TxnId, Seq(TxnId)) /\ \A w \in DOMAIN g : \A i \in 1 .. Len(g[w]) : g[w][i] # w
  BY DEF GoodGraph
<1>2. GoodGraph(remove(g, t))
  BY <1>1 DEF GoodGraph, IsHashMap, remove
<1>3. \A w \in DOMAIN g : w \in TxnId /\ g[w] \in Seq(TxnId)
  BY <1>1 DEF IsHashMap
<1>4. ASSUME NEW w \in DOMAIN g
      PROVE  /\ without(g[w], t) \in Seq(TxnId)
             /\ \A i \in 1 .. Len(without(g[w], t)) : without(g[w], t)[i] # w
  <2>1. PICK v \in Seq(TxnId) : v = g[w]
    BY <1>3
  <2>2. /\ without(v, t) \in Seq(TxnId)
        /\ \A k \in 1 .. Len(without(v, t)) :
             \E i \in 1 .. Len(v) : without(v, t)[k] = v[i] /\ v[i] # t
    BY WithoutType
  <2> QED
    BY <1>1, <2>1, <2>2
<1>5. GoodGraph([w \in DOMAIN g \ {t} |-> without(g[w], t)])
  <2>1. PICK h : h = [w \in DOMAIN g \ {t} |-> without(g[w], t)]
    OBVIOUS
  <2>2. DOMAIN h = DOMAIN g \ {t} /\ \A w \in DOMAIN h : h[w] = without(g[w], t)
    BY <2>1
  <2>3. \A w \in DOMAIN h : w \in TxnId /\ h[w] \in Seq(TxnId) /\ \A i \in 1 .. Len(h[w]) : h[w][i] # w
    BY <1>3, <1>4, <2>2
  <2>4. h \in [DOMAIN h -> Seq(TxnId)]
    BY <2>1, <2>3
  <2> QED
    BY <2>1, <2>3, <2>4 DEF GoodGraph, IsHashMap
<1>6. ASSUME NEW holders \in Seq(TxnId)
      PROVE  GoodGraph(insert(g, t, entry_or_new(g, t) \o others(t, holders)))
  <2>1. PICK kept \in Seq(TxnId) : kept = entry_or_new(g, t)
    BY <1>1, EntryType
  <2>2. PICK added \in Seq(TxnId) : added = others(t, holders) /\ \A i \in 1 .. Len(added) : added[i] # t
    <3>1. /\ without(holders, t) \in Seq(TxnId)
          /\ \A k \in 1 .. Len(without(holders, t)) :
               \E i \in 1 .. Len(holders) : without(holders, t)[k] = holders[i] /\ holders[i] # t
      BY WithoutType
    <3> QED
      BY <3>1 DEF others
  <2>3. \A i \in 1 .. Len(kept) : kept[i] # t
    BY <1>1, <2>1 DEF entry_or_new
  <2>4. PICK v : v = kept \o added
    OBVIOUS
  <2>5. v \in Seq(TxnId)
    BY <2>4
  <2>6. \A i \in 1 .. Len(v) : v[i] # t
    <3> TAKE i \in 1 .. Len(v)
    <3>1. CASE i \in 1 .. Len(kept)
      BY <2>3, <2>4, <3>1
    <3>2. CASE i \notin 1 .. Len(kept)
      <4>1. i - Len(kept) \in 1 .. Len(added) /\ v[i] = added[i - Len(kept)]
        BY <2>4, <3>2
      <4> QED
        BY <2>2, <4>1
    <3> QED
      BY <3>1, <3>2
  <2>7. PICK h : h = insert(g, t, v)
    OBVIOUS
  <2>8. DOMAIN h = DOMAIN g \cup {t} /\ \A w \in DOMAIN h : h[w] = IF w = t THEN v ELSE g[w]
    BY <2>7 DEF insert
  <2>9. IsHashMap(h, TxnId, Seq(TxnId))
    BY <1>1, <2>5, <2>7, InsertType
  <2>10. \A w \in DOMAIN h : \A i \in 1 .. Len(h[w]) : h[w][i] # w
    BY <1>1, <2>6, <2>8
  <2> QED
    BY <2>1, <2>2, <2>4, <2>7, <2>9, <2>10 DEF GoodGraph
<1> QED
  BY <1>2, <1>5, <1>6

\* The graph changes while nobody searches it.
LEMMA ChangeStep ==
  ASSUME GInv, Change
  PROVE  GInv'
<1>1. GoodGraph(edges)
  BY DEF GInv
<1>2. ASSUME search = NoSearch, search' = search, NEW h, edges' = h, GoodGraph(h)
      PROVE  GInv'
  BY <1>2 DEF GInv, SearchCorrect, NoSelfDeadlock, NoSearch
<1>3. PICK g : g = edges
  OBVIOUS
<1>4. ASSUME NEW t \in TxnId, NEW n \in 1 .. MaxOut, NEW holders \in [1 .. n -> TxnId],
             add_waits(t, holders)
      PROVE  GInv'
  <2>1. holders \in Seq(TxnId)
    BY GraphAssumption
  <2>2. GoodGraph(insert(g, t, entry_or_new(g, t) \o others(t, holders)))
    BY <1>1, <1>3, <2>1, ChangeGood
  <2>3. /\ search = NoSearch /\ search' = search
        /\ edges' = g \/ edges' = insert(g, t, entry_or_new(g, t) \o others(t, holders))
    BY <1>3, <1>4 DEF add_waits
  <2> QED
    BY <1>1, <1>2, <1>3, <2>2, <2>3
<1>5. ASSUME NEW t \in TxnId, clear_waiter(t)
      PROVE  GInv'
  <2>1. search = NoSearch /\ search' = search /\ edges' = remove(g, t)
    BY <1>3, <1>5 DEF clear_waiter
  <2> QED
    BY <1>1, <1>2, <1>3, <2>1, ChangeGood
<1>6. ASSUME NEW t \in TxnId, remove_txn(t)
      PROVE  GInv'
  <2>1. search = NoSearch /\ search' = search /\ edges' = [w \in DOMAIN g \ {t} |-> without(g[w], t)]
    BY <1>3, <1>6 DEF remove_txn
  <2> QED
    BY <1>1, <1>2, <1>3, <2>1, ChangeGood
<1> QED
  BY <1>4, <1>5, <1>6 DEF Change

\* Every step preserves the invariant.
LEMMA NextGInv == GInv /\ [GraphNext]_graphVars => GInv'
<1> SUFFICES ASSUME GInv, [GraphNext]_graphVars PROVE GInv'
  OBVIOUS
<1>1. ASSUME NEW t \in TxnId, cycle_from_call(t)
      PROVE  GInv'
  <2>1. {t} \in SUBSET TxnId
    OBVIOUS
  <2> QED
    BY <1>1, <2>1, CallStep DEF cycle_from_call
<1>2. CASE detect_cycle_call
  <2>1. DOMAIN edges \in SUBSET TxnId
    BY DEF GInv, GoodGraph, IsHashMap
  <2> QED
    BY <1>2, <2>1, CallStep DEF detect_cycle_call
<1>3. CASE Return
  BY <1>3, CallStep DEF Return
<1>4. CASE UNCHANGED graphVars
  <2>1. edges' = edges /\ search' = search
    BY <1>4 DEF graphVars
  <2>2. EdgeSet' = EdgeSet
    BY <2>1 DEF EdgeSet
  <2> QED
    BY <2>1, <2>2 DEF GInv, SearchCorrect, NoSelfDeadlock
<1>5. CASE SearchStep
  BY <1>5, EnterStep, BackEdgeStep, DescendStep, SkipStep, NotFoundStep, BacktrackStep,
     ExhaustedStep DEF SearchStep
<1>6. CASE Change
  BY <1>6, ChangeStep
<1> QED
  BY <1>1, <1>2, <1>3, <1>4, <1>5, <1>6 DEF GraphNext

\* The graph starts empty, and unsearched.
LEMMA InitGInv == GraphInit => GInv
<1> SUFFICES ASSUME GraphInit PROVE GInv
  OBVIOUS
<1>1. GoodGraph(edges)
  BY EmptyMapType DEF GraphInit, GoodGraph
<1> QED
  BY <1>1 DEF GraphInit, GInv, SearchCorrect, NoSelfDeadlock, NoSearch

\* The invariant holds of every graph, however it has been built, and of every search.
THEOREM GraphInvariant == GraphSpec => []GInv
BY InitGInv, NextGInv, PTL DEF GraphSpec

\* The types of the graph and of the search.
THEOREM GraphTypeCorrect == GraphSpec => []GraphTypeOK
<1>1. GInv => GraphTypeOK
  BY DEF GInv, GoodGraph, GraphTypeOK
<1> QED
  BY <1>1, GraphInvariant, PTL

\* cycle_from and detect_cycle return a cycle reachable from where they start, and None
\* only if there is none.
THEOREM SearchIsCorrect == GraphSpec => []SearchCorrect
<1>1. GInv => SearchCorrect
  BY DEF GInv
<1> QED
  BY <1>1, GraphInvariant, PTL

\* A cycle has two members at least.
THEOREM NobodyAlone == GraphSpec => []NoSelfDeadlock
<1>1. GInv => NoSelfDeadlock
  BY DEF GInv
<1> QED
  BY <1>1, GraphInvariant, PTL

\* The path the search keeps is a path of the graph, and the nodes marked 1.
THEOREM PathIsExact == GraphSpec => []PathExact
<1>1. GInv => PathExact
  <2> SUFFICES ASSUME GInv, search.pc = "loop"
               PROVE  /\ Elems(search.path) = {t \in DOMAIN search.state : search.state[t] = 1}
                      /\ \A i, j \in 1 .. Len(search.path) : i # j => search.path[i] # search.path[j]
                      /\ \A i \in 1 .. Len(search.path) - 1 :
                           <<search.path[i], search.path[i + 1]>> \in EdgeSet
    BY DEF PathExact
  <2>1. PICK g, m, p, k : g = edges /\ m = search.state /\ p = search.path /\ k = search.stack
    OBVIOUS
  <2>2. /\ GoodGraph(g) /\ OnPath(m, p) /\ StackOf(g, p, k)
        /\ DOMAIN m \subseteq TxnId /\ p \in Seq(TxnId)
    BY <2>1, LoopFields DEF InLoop, IsHashMap
  <2>3. \A i \in 1 .. Len(p) - 1 : <<p[i], p[i + 1]>> \in EdgesOf(g)
    BY <2>2, PathEdges
  <2>4. Elems(p) = {t \in DOMAIN m : m[t] = 1}
    BY <2>2 DEF OnPath, Marked, Elems
  <2>5. \A i, j \in 1 .. Len(p) : i # j => p[i] # p[j]
    BY <2>2 DEF OnPath
  <2> QED
    BY <2>1, <2>3, <2>4, <2>5, SameEdges
<1> QED
  BY <1>1, GraphInvariant, PTL

\* What is explored leads to what is explored.
THEOREM ExploredIsClosed == GraphSpec => []ExploredClosed
<1>1. GInv => ExploredClosed
  <2> SUFFICES ASSUME GInv, search.pc = "loop", NEW e \in EdgeSet,
                      e[1] \in DOMAIN search.state, search.state[e[1]] = 2
               PROVE  e[2] \in DOMAIN search.state /\ search.state[e[2]] = 2
    BY DEF ExploredClosed
  <2>1. Finished(edges, search.state) /\ e \in EdgesOf(edges)
    BY LoopFields, SameEdges DEF InLoop
  <2> QED
    BY <2>1 DEF Finished, Explored
<1> QED
  BY <1>1, GraphInvariant, PTL

=============================================================================
