---------------------------- MODULE Collections ----------------------------
(***************************************************************************)
(* The std collections the lock table is built from, as far as it uses     *)
(* them: HashMap (a function whose domain is the set of present keys) and  *)
(* Vec (a sequence).  External to the repository.                          *)
(***************************************************************************)
EXTENDS Integers, Sequences, FiniteSets

IsHashMap(m, K, V) == DOMAIN m \subseteq K /\ m \in [DOMAIN m -> V]

EmptyMap == [k \in {} |-> {}]

insert(m, k, v) == [x \in DOMAIN m \cup {k} |-> IF x = k THEN v ELSE m[x]]

remove(m, k) == [x \in DOMAIN m \ {k} |-> m[x]]

\* entry(k).or_default() of a map to vectors: the vector stored, or a new one.
entry_or_new(m, k) == IF k \in DOMAIN m THEN m[k] ELSE <<>>

\* The vector v without its i-th element, whose place the last one takes.
swap_remove(v, i) ==
  [k \in 1 .. Len(v) - 1 |-> IF k = i THEN v[Len(v)] ELSE v[k]]

\* iter().position(..), given the set of the positions that match.
first(I) == CHOOSE i \in I : \A j \in I : i <= j

Elems(v) == {v[i] : i \in 1 .. Len(v)}

\* retain(|x| x != e): the k-th element kept is the one that makes them k.
without(v, e) ==
  LET kept(i) == Cardinality({j \in 1 .. i : v[j] # e})
  IN  [k \in 1 .. kept(Len(v)) |-> v[first({i \in 1 .. Len(v) : kept(i) = k})]]

\* Mutant: a vector that has become empty stays in the map.
drop_keeps_empty(map, k, i) == insert(map, k, swap_remove(map[k], i))

\* Swap-remove position i of the vector at key k; an empty vector leaves the map.
drop(map, k, i) ==
  LET v == swap_remove(map[k], i)
  IN  IF v = <<>> THEN remove(map, k) ELSE insert(map, k, v)

=============================================================================
