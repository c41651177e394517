----------------------------- MODULE DataProofs -----------------------------
(***************************************************************************)
(* Facts about the data the modules are built from that hold for all       *)
(* arguments: lock modes, key ranges, maps and vectors.  The lemmas that   *)
(* the proofs about every component rest on.                               *)
(***************************************************************************)
EXTENDS LockMode, KeyRange, Collections, FiniteSetTheorems, NaturalsInduction,
        WellFoundedInduction, TLAPS

-----------------------------------------------------------------------------
(* Lock modes and key ranges. *)

\* join stays within the five modes (the const table JOIN of src/mode.rs).
LEMMA JoinType ==
  ASSUME NEW a \in LockModes, NEW b \in LockModes
  PROVE  join(a, b) \in LockModes
BY DEF LockModes, join, JOIN

\* The compatibility matrix is symmetric: who came first does not matter.
LEMMA CompatibleSymmetric ==
  ASSUME NEW a \in LockModes, NEW b \in LockModes
  PROVE  compatible_with(a, b) <=> compatible_with(b, a)
BY DEF LockModes, compatible_with, COMPAT

\* An upgrade is compatible with a holder exactly if what is held and what is
\* asked for both are.  It is why the grant path may test the join while the
\* wait-for graph tests the requested mode alone.
THEOREM JoinCompatible ==
  ASSUME NEW a \in LockModes, NEW b \in LockModes, NEW h \in LockModes
  PROVE  compatible_with(h, join(a, b)) <=> (compatible_with(h, a) /\ compatible_with(h, b))
BY DEF LockModes, join, JOIN, compatible_with, COMPAT

\* The matrix is neither too permissive nor too strict: two modes are compatible
\* exactly if neither writes all and neither reads all while the other writes a
\* part (const COMPAT against the meaning documented at the enum's variants).
THEOREM CompatibleIffNoConflict ==
  ASSUME NEW a \in LockModes, NEW b \in LockModes
  PROVE  compatible_with(a, b) <=>
           /\ ~WritesAll(a) /\ ~WritesAll(b)
           /\ ~(ReadsAll(a) /\ WritesPart(b))
           /\ ~(WritesPart(a) /\ ReadsAll(b))
BY DEF LockModes, compatible_with, COMPAT, ReadsAll, WritesPart, WritesAll,
       is_exclusive

\* An upgrade allows exactly what was held and what was asked for allow.
THEOREM JoinUnitesRights ==
  ASSUME NEW a \in LockModes, NEW b \in LockModes
  PROVE  /\ ReadsAll(join(a, b)) <=> ReadsAll(a) \/ ReadsAll(b)
         /\ WritesPart(join(a, b)) <=> WritesPart(a) \/ WritesPart(b)
         /\ WritesAll(join(a, b)) <=> WritesAll(a) \/ WritesAll(b)
BY DEF LockModes, join, JOIN, ReadsAll, WritesPart, WritesAll,
       is_exclusive

\* join is the least upper bound in the order covers: it covers both arguments,
\* and every mode that covers both covers it.
THEOREM JoinLeastUpperBound ==
  ASSUME NEW a \in LockModes, NEW b \in LockModes
  PROVE  /\ covers(join(a, b), a)
         /\ covers(join(a, b), b)
         /\ \A c \in LockModes : covers(c, a) /\ covers(c, b) => covers(c, join(a, b))
BY DEF LockModes, covers, join, JOIN

\* KeyRange::new and point construct ranges with start <= end only.
LEMMA KeyRangeFields ==
  ASSUME NEW k \in KeyRanges
  PROVE  k.start \in Key /\ k.end \in Key /\ k.start <= k.end
<1>1. CASE \E a, b \in Key : k \in new(a, b)
  <2>1. PICK a, b \in Key : k \in new(a, b)
    BY <1>1
  <2>2. a <= b /\ k = [start |-> a, end |-> b]
    BY <2>1 DEF new
  <2> QED
    BY <2>2
<1>2. CASE \E a \in Key : k = point(a)
  <2>1. PICK a \in Key : k = point(a)
    BY <1>2
  <2>2. a \in Nat
    BY KeyAssumption
  <2> QED
    BY <2>1, <2>2 DEF point
<1> QED
  BY <1>1, <1>2 DEF KeyRanges

\* Two ranges overlap exactly when they have a key in common: the two inclusive
\* comparisons of KeyRange::overlaps decide it, at shared bounds too.
THEOREM OverlapsIffCommonKey ==
  ASSUME NEW k \in KeyRanges, NEW l \in KeyRanges
  PROVE  overlaps(k, l) <=> \E key \in Key : contains(k, key) /\ contains(l, key)
<1> USE KeyAssumption
<1>1. /\ k.start \in Key /\ k.end \in Key /\ k.start <= k.end
      /\ l.start \in Key /\ l.end \in Key /\ l.start <= l.end
  BY KeyRangeFields
<1>2. k.start \in Nat /\ k.end \in Nat /\ l.start \in Nat /\ l.end \in Nat
  BY <1>1
<1>3. ASSUME overlaps(k, l)
      PROVE  \E key \in Key : contains(k, key) /\ contains(l, key)
  <2>1. CASE k.start <= l.start
    <3>1. contains(k, l.start) /\ contains(l, l.start)
      BY <1>1, <1>2, <1>3, <2>1 DEF overlaps, contains
    <3> QED
      BY <1>1, <3>1
  <2>2. CASE l.start <= k.start
    <3>1. contains(k, k.start) /\ contains(l, k.start)
      BY <1>1, <1>2, <1>3, <2>2 DEF overlaps, contains
    <3> QED
      BY <1>1, <3>1
  <2> QED
    BY <1>2, <2>1, <2>2
<1>4. ASSUME NEW key \in Key, contains(k, key), contains(l, key)
      PROVE  overlaps(k, l)
  <2>1. key \in Nat
    OBVIOUS
  <2> QED
    BY <1>2, <1>4, <2>1 DEF overlaps, contains
<1> QED
  BY <1>3, <1>4

-----------------------------------------------------------------------------
(* Maps and vectors. *)

\* HashMap::new() is a map of any type, with no key.
LEMMA EmptyMapType ==
  ASSUME NEW K, NEW V
  PROVE  IsHashMap(EmptyMap, K, V) /\ DOMAIN EmptyMap = {}
BY DEF IsHashMap, EmptyMap

\* insert keeps the type of a map (HashMap::insert).
LEMMA InsertType ==
  ASSUME NEW K, NEW V, NEW m, IsHashMap(m, K, V), NEW k \in K, NEW v \in V
  PROVE  IsHashMap(insert(m, k, v), K, V)
BY DEF IsHashMap, insert

\* remove keeps the type of a map (HashMap::remove).
LEMMA RemoveType ==
  ASSUME NEW K, NEW V, NEW m, IsHashMap(m, K, V), NEW k
  PROVE  IsHashMap(remove(m, k), K, V)
BY DEF IsHashMap, remove

\* entry(..).or_default() yields a vector of the value type, stored or new.
LEMMA EntryType ==
  ASSUME NEW K, NEW V, NEW m, IsHashMap(m, K, Seq(V)), NEW k
  PROVE  entry_or_new(m, k) \in Seq(V)
BY DEF IsHashMap, entry_or_new

\* swap_remove(v, i) has the elements of v at positions other than i, each once:
\* position k of it is position k of v, or the last one.
LEMMA SwapRemoveType ==
  ASSUME NEW V, NEW v \in Seq(V), NEW i \in 1 .. Len(v)
  PROVE  /\ swap_remove(v, i) \in Seq(V)
         /\ Len(swap_remove(v, i)) = Len(v) - 1
         /\ \A k \in 1 .. Len(v) - 1 :
              swap_remove(v, i)[k] = v[IF k = i THEN Len(v) ELSE k]
<1>1. Len(v) - 1 \in Nat
  OBVIOUS
<1>2. \A k \in 1 .. Len(v) - 1 : k \in 1 .. Len(v)
  OBVIOUS
<1>3. \A k \in 1 .. Len(v) : v[k] \in V
  OBVIOUS
<1>4. Len(v) \in 1 .. Len(v)
  OBVIOUS
<1>5. swap_remove(v, i) \in [1 .. Len(v) - 1 -> V]
  BY <1>2, <1>3, <1>4 DEF swap_remove
<1>6. swap_remove(v, i) \in Seq(V) /\ Len(swap_remove(v, i)) = Len(v) - 1
  BY <1>1, <1>5
<1> QED
  BY <1>6 DEF swap_remove

\* The first of some positions is the least of them.
LEMMA FirstIsLeast ==
  ASSUME NEW I \in SUBSET Nat, I # {}
  PROVE  first(I) \in I /\ \A j \in I : first(I) <= j
<1>1. IsWellFoundedOn(OpToRel(<, Nat), Nat)
  BY NatLessThanWellFounded
<1>2. PICK x \in I : \A y \in I : ~(<<y, x>> \in OpToRel(<, Nat))
  BY <1>1, WFMin
<1>3. \A y \in I : ~(y < x)
  BY <1>2 DEF OpToRel
<1>4. \A y \in I : x <= y
  BY <1>3
<1> QED
  BY <1>4 DEF first

\* The release idiom, swap_remove and then remove if empty, keeps the type.
LEMMA DropType ==
  ASSUME NEW K, NEW V, NEW m, IsHashMap(m, K, Seq(V)),
         NEW k \in DOMAIN m, NEW i \in 1 .. Len(m[k])
  PROVE  IsHashMap(drop(m, k, i), K, Seq(V))
<1>1. m[k] \in Seq(V) /\ k \in K
  BY DEF IsHashMap
<1>2. swap_remove(m[k], i) \in Seq(V)
  BY <1>1, SwapRemoveType
<1>3. IsHashMap(remove(m, k), K, Seq(V))
  BY RemoveType
<1>4. IsHashMap(insert(m, k, swap_remove(m[k], i)), K, Seq(V))
  BY <1>1, <1>2, InsertType
<1> QED
  BY <1>3, <1>4 DEF drop

\* It changes no other key, and the vector at its own key is the shortened one.
LEMMA DropValue ==
  ASSUME NEW m, NEW k \in DOMAIN m, NEW i
  PROVE  /\ DOMAIN drop(m, k, i) \subseteq DOMAIN m
         /\ \A x \in DOMAIN drop(m, k, i) :
              drop(m, k, i)[x] = IF x = k THEN swap_remove(m[k], i) ELSE m[x]
<1>1. CASE swap_remove(m[k], i) = <<>>
  BY <1>1 DEF drop, remove
<1>2. CASE swap_remove(m[k], i) # <<>>
  BY <1>2 DEF drop, insert
<1> QED
  BY <1>1, <1>2

\* A stored vector is found under its own key and hides no other (HashMap::insert).
LEMMA EntryInsert ==
  ASSUME NEW m, NEW k, NEW v, NEW x
  PROVE  entry_or_new(insert(m, k, v), x) = IF x = k THEN v ELSE entry_or_new(m, x)
BY DEF insert, entry_or_new

\* A removed key has no vector, the others keep theirs (HashMap::remove).
LEMMA EntryRemove ==
  ASSUME NEW m, NEW k, NEW x
  PROVE  entry_or_new(remove(m, k), x) = IF x = k THEN <<>> ELSE entry_or_new(m, x)
BY DEF remove, entry_or_new

\* The release idiom shortens the vector of its key and touches no other.
LEMMA EntryDrop ==
  ASSUME NEW m, NEW k \in DOMAIN m, NEW i, NEW x
  PROVE  entry_or_new(drop(m, k, i), x) =
           IF x = k THEN swap_remove(m[k], i) ELSE entry_or_new(m, x)
<1>1. CASE swap_remove(m[k], i) = <<>>
  BY <1>1, EntryRemove DEF drop
<1>2. CASE swap_remove(m[k], i) # <<>>
  BY <1>2, EntryInsert DEF drop
<1> QED
  BY <1>1, <1>2

\* It leaves no empty vector under its key (the is_empty test).
LEMMA DropNotEmpty ==
  ASSUME NEW m, NEW k, NEW i, \A x \in DOMAIN m : m[x] # <<>>
  PROVE  \A x \in DOMAIN drop(m, k, i) : drop(m, k, i)[x] # <<>>
<1>1. CASE swap_remove(m[k], i) = <<>>
  BY <1>1 DEF drop, remove
<1>2. CASE swap_remove(m[k], i) # <<>>
  BY <1>2 DEF drop, insert
<1> QED
  BY <1>1, <1>2
\* How many of the first i elements retain keeps.
Kept(v, e, i) == Cardinality({j \in 1 .. i : v[j] # e})

\* The count goes up by one at each element that is kept.
LEMMA KeptStep ==
  ASSUME NEW v, NEW e
  PROVE  /\ Kept(v, e, 0) = 0
         /\ \A i \in Nat : Kept(v, e, i) \in Nat
         /\ \A i \in Nat : Kept(v, e, i + 1) = Kept(v, e, i) + (IF v[i + 1] # e THEN 1 ELSE 0)
<1>1. Kept(v, e, 0) = 0
  <2>1. {j \in 1 .. 0 : v[j] # e} = {}
    OBVIOUS
  <2> QED
    BY <2>1, FS_EmptySet DEF Kept
<1>2. ASSUME NEW i \in Nat
      PROVE  /\ IsFiniteSet({j \in 1 .. i : v[j] # e})
             /\ Kept(v, e, i) \in Nat
  <2>1. IsFiniteSet(1 .. i)
    BY FS_Interval
  <2>2. IsFiniteSet({j \in 1 .. i : v[j] # e})
    BY <2>1, FS_Subset
  <2> QED
    BY <2>2, FS_CardinalityType DEF Kept
<1>3. ASSUME NEW i \in Nat
      PROVE  Kept(v, e, i + 1) = Kept(v, e, i) + (IF v[i + 1] # e THEN 1 ELSE 0)
  <2> DEFINE A == {j \in 1 .. i : v[j] # e}
             B == {j \in 1 .. i + 1 : v[j] # e}
  <2>1. B = IF v[i + 1] # e THEN A \cup {i + 1} ELSE A
    OBVIOUS
  <2>2. i + 1 \notin A
    OBVIOUS
  <2>3. IsFiniteSet(A) /\ Cardinality(A) = Kept(v, e, i) /\ Cardinality(A) \in Nat
    BY <1>2 DEF Kept
  <2>4. Cardinality(B) = Kept(v, e, i + 1)
    BY DEF Kept
  <2> HIDE DEF A, B
  <2>5. Cardinality(A \cup {i + 1}) = Cardinality(A) + 1
    BY <2>2, <2>3, FS_AddElement
  <2> QED
    BY <2>1, <2>3, <2>4, <2>5
<1> QED
  BY <1>1, <1>2, <1>3

\* retain keeps elements of the vector, and none of those it is to remove.
LEMMA WithoutType ==
  ASSUME NEW S, NEW v \in Seq(S), NEW e
  PROVE  /\ without(v, e) \in Seq(S)
         /\ \A k \in 1 .. Len(without(v, e)) :
              \E i \in 1 .. Len(v) : without(v, e)[k] = v[i] /\ v[i] # e
<1> DEFINE n == Len(v)
           J(k) == {i \in 1 .. n : Kept(v, e, i) = k}
<1>1. /\ n \in Nat /\ Kept(v, e, n) \in Nat
      /\ without(v, e) = [k \in 1 .. Kept(v, e, n) |-> v[first(J(k))]]
  <2>1. without(v, e) = [k \in 1 .. Kept(v, e, n) |-> v[first(J(k))]]
    BY Zenon DEF without, Kept
  <2>2. n \in Nat
    OBVIOUS
  <2> QED
    BY <2>1, <2>2, KeptStep
<1>2. ASSUME NEW k \in 1 .. Kept(v, e, n)
      PROVE  \E i \in 1 .. n : v[first(J(k))] = v[i] /\ v[i] # e
  <2> DEFINE I == {i \in 0 .. n : Kept(v, e, i) >= k}
  <2>1. n \in I /\ 0 \notin I
    BY <1>1, KeptStep
  <2>2. PICK i \in I : \A j \in I : i <= j
    <3>1. I \in SUBSET Nat /\ I # {}
      BY <2>1
    <3> HIDE DEF I
    <3> QED
      BY <3>1, FirstIsLeast
  <2>3. i \in 1 .. n /\ i - 1 \in 0 .. n /\ i - 1 \notin I
    BY <2>1, <2>2
  <2>4. Kept(v, e, i) = k /\ v[i] # e
    <3>1. PICK p \in Nat : p = i - 1
      BY <2>3
    <3>2. Kept(v, e, p) \in Nat /\ Kept(v, e, i) \in Nat
      <4>1. \A j \in Nat : Kept(v, e, j) \in Nat
        BY KeptStep
      <4>2. i \in Nat
        BY <2>3
      <4> QED
        BY <4>1, <4>2
    <3>3. Kept(v, e, p + 1) = Kept(v, e, p) + (IF v[p + 1] # e THEN 1 ELSE 0)
      BY KeptStep
    <3>4. p + 1 = i
      BY <2>3, <3>1
    <3>5. Kept(v, e, i) = Kept(v, e, p) + (IF v[i] # e THEN 1 ELSE 0)
      BY <3>3, <3>4
    <3>6. Kept(v, e, i) >= k /\ ~(Kept(v, e, p) >= k)
      BY <2>2, <2>3, <3>1
    <3> QED
      BY <3>2, <3>5, <3>6
  <2>5. i \in J(k) /\ \A j \in J(k) : j \in I
    BY <2>3, <2>4
  <2>6. first(J(k)) = i
    <3>1. J(k) \in SUBSET Nat /\ J(k) # {}
      BY <2>5
    <3>2. first(J(k)) \in J(k) /\ \A j \in J(k) : first(J(k)) <= j
      BY <3>1, FirstIsLeast
    <3>3. first(J(k)) <= i /\ i <= first(J(k)) /\ first(J(k)) \in Nat
      BY <2>2, <2>5, <3>1, <3>2
    <3> QED
      BY <2>3, <3>3
  <2> QED
    BY <2>3, <2>4, <2>6
<1> HIDE DEF J
<1>3. \A k \in 1 .. Kept(v, e, n) : v[first(J(k))] \in S
  BY <1>2
<1> QED
  BY <1>1, <1>2, <1>3

=============================================================================
