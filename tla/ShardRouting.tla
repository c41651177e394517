---------------------------- MODULE ShardRouting ----------------------------
(***************************************************************************)
(* The machine arithmetic that LockTable leaves out: how LockManager sizes *)
(* its shard array (new, with_shards) and how shard_index hashes a         *)
(* resource id into it.  usize and u64 are W bits wide here; the constants *)
(* 16, 1024 and FIB_HASH of the source are scaled to that width.           *)
(***************************************************************************)
EXTENDS Integers, FiniteSets

CONSTANTS
  W,              \* the width of usize and u64
  FIB_HASH,       \* the multiplier
  MinShards,      \* the bounds new clamps to
  MaxShards,
  MaxCapacity,    \* the longest vector of shards: with_capacity panics beyond
  OverflowChecks  \* does the build panic on arithmetic overflow?

Word == 0 .. 2^W - 1

PowersOfTwo == {2^k : k \in 0 .. W - 1}

ASSUME RoutingAssumption ==
  /\ W \in Nat \ {0}
  /\ FIB_HASH \in Word /\ FIB_HASH % 2 = 1
  /\ MinShards \in PowersOfTwo /\ MaxShards \in PowersOfTwo
  /\ MinShards <= MaxShards /\ MaxShards <= MaxCapacity
  /\ OverflowChecks \in BOOLEAN

\* What a proof needs to know of powers (the provers compute 2^3, but not this).
ASSUME PowersAssumption == \A k \in 0 .. W - 1 : 2^(k + 1) = 2 * 2^k

VARIABLES
  asked,          \* the shard count the caller gave
  shards,         \* self.shards.len()
  bits,           \* self.bits
  index           \* the latest lookup: resource id -> index, or empty

routingVars == <<asked, shards, bits, index>>

RoutingTypeOK ==
  /\ asked \in Word
  /\ shards \in Word
  /\ bits \in 0 .. W
  /\ DOMAIN index \subseteq Word
  /\ \A r \in DOMAIN index : index[r] \in Word

-----------------------------------------------------------------------------
(* usize of the standard library. *)

\* The smallest power of two that is not less than n; 0 when that overflows.
next_power_of_two(n) ==
  LET P == {p \in PowersOfTwo : p >= n}
  IN  IF P = {} THEN 0 ELSE CHOOSE p \in P : \A q \in P : p <= q

\* A build with overflow checks panics there instead.
PowerPanics(n) == OverflowChecks /\ next_power_of_two(n) = 0

trailing_zeros(n) ==
  IF n = 0 THEN W ELSE CHOOSE k \in 0 .. W - 1 : n % 2^k = 0 /\ n % 2^(k + 1) # 0

AtLeast(a, b) == IF a < b THEN b ELSE a

AtMost(a, b) == IF a > b THEN b ELSE a

-----------------------------------------------------------------------------
(* The constructors and the lookup. *)

\* Mutant: the requested count is taken as it is.
rounded_not(n) == AtLeast(n, 1)

\* with_shards's first statement.
rounded(n) == next_power_of_two(AtLeast(n, 1))

\* A call that panics returns no manager and is no step.
with_shards(n) ==
  /\ ~PowerPanics(AtLeast(n, 1))
  /\ rounded(n) <= MaxCapacity
  /\ asked' = n
  /\ shards' = rounded(n)
  /\ bits' = trailing_zeros(rounded(n))
  /\ index' = [r \in {} |-> 0]

\* new: four shards per hardware thread, clamped.
new_manager(parallelism) ==
  LET wanted == AtMost(4 * parallelism, 2^W - 1)
  IN  /\ ~PowerPanics(wanted)
      /\ with_shards(AtMost(AtLeast(next_power_of_two(wanted), MinShards), MaxShards))

\* Mutant: one bit too many is kept.
shard_index_long(r) ==
  IF bits = 0 THEN 0 ELSE ((r * FIB_HASH) % 2^W) \div 2^(W - bits - 1)

\* Mutant: the product is computed in a wider type.
shard_index_wide(r) ==
  IF bits = 0 THEN 0 ELSE (r * FIB_HASH) \div 2^(W - bits)

\* The top bits of the hash.
shard_index(r) ==
  IF bits = 0 THEN 0 ELSE ((r * FIB_HASH) % 2^W) \div 2^(W - bits)

\* lock_shard for resource r: the array access is in bounds, or panics.
Lookup(r) ==
  /\ index' = [x \in {r} |-> shard_index(r)]
  /\ UNCHANGED <<asked, shards, bits>>

RoutingInit ==
  /\ asked = MinShards /\ shards = MinShards
  /\ bits = trailing_zeros(MinShards)
  /\ index = [r \in {} |-> 0]

RoutingNext ==
  \/ \E n \in Word : with_shards(n)
  \/ \E p \in Word \ {0} : new_manager(p)
  \/ \E r \in Word : Lookup(r)

RoutingSpec == RoutingInit /\ [][RoutingNext]_routingVars

-----------------------------------------------------------------------------

\* Every lookup lands inside the shard array (lock_shard would panic otherwise).
IndexInBounds == \A r \in DOMAIN index : index[r] \in 0 .. shards - 1

\* The ids are spread evenly: every shard owns equally many of all ids, which
\* takes an odd multiplier and exactly `bits` top bits
\* (shard_index; FIB_HASH's comment; test_fib_hash_constant_is_odd).
ShardsBalanced ==
  shards # 0 => \A s \in 0 .. shards - 1 :
     Cardinality({r \in Word : shard_index(r) = s}) * shards = 2^W

=============================================================================
