--------------------------- MODULE RoutingProofs ---------------------------
(***************************************************************************)
(* The sizing of the shard array and the hash of shard_index, for every    *)
(* width of the machine word: a lookup stays inside the array, and every   *)
(* shard owns equally many ids.                                            *)
(***************************************************************************)
EXTENDS ShardRouting, FiniteSetTheorems, WellFoundedInduction, TLAPS

(***************************************************************************)
(* Powers of two.                                                          *)

\* The natural numbers are well-founded, hence induction over a set of them.
LEMMA LeastNumber ==
  ASSUME NEW T \in SUBSET Nat, T # {}
  PROVE  \E x \in T : \A y \in T : x <= y
<1>1. PICK R : R = OpToRel(<, Nat)
  OBVIOUS
<1>2. IsWellFoundedOn(R, Nat)
  BY <1>1, NatLessThanWellFounded
<1>3. PICK x \in T : \A y \in T : <<y, x>> \notin R
  BY <1>2, WFMin
<1>4. \A y \in Nat : y < x => <<y, x>> \in R
  BY <1>1 DEF OpToRel
<1>5. ASSUME NEW y \in T
      PROVE  x <= y
  <2>1. x \in Nat /\ y \in Nat
    OBVIOUS
  <2>2. ~(y < x)
    BY <1>3, <1>4, <2>1
  <2> QED
    BY <2>1, <2>2
<1> QED
  BY <1>5

LEMMA SetInduction ==
  ASSUME NEW S, 0 \in S, \A n \in Nat : n \in S => n + 1 \in S
  PROVE  Nat \subseteq S
<1> SUFFICES ASSUME Nat \ S # {} PROVE FALSE
  OBVIOUS
<1>1. PICK x \in Nat \ S : \A y \in Nat \ S : x <= y
  BY LeastNumber
<1>2. x - 1 \in Nat /\ x - 1 \in S
  BY <1>1
<1>3. x = (x - 1) + 1
  BY <1>1
<1> QED
  BY <1>1, <1>2, <1>3

LEMMA PowersType == \A k \in 0 .. W : 2^k \in Nat \ {0}
<1> DEFINE S == {k \in Nat : k <= W => 2^k \in Nat \ {0}}
<1>0. W \in Nat
  BY RoutingAssumption
<1>1. 0 \in S
  <2>1. 2^0 = 1
    OBVIOUS
  <2> QED
    BY <2>1
<1>2. \A n \in Nat : n \in S => n + 1 \in S
  BY <1>0, PowersAssumption
<1>3. Nat \subseteq S
  <2> HIDE DEF S
  <2> QED
    BY <1>1, <1>2, SetInduction
<1> QED
  BY <1>0, <1>3

LEMMA PowersProduct ==
  ASSUME NEW a \in Nat
  PROVE  \A b \in Nat : a + b <= W => 2^(a + b) = 2^a * 2^b
<1> DEFINE S == {b \in Nat : a + b <= W => 2^(a + b) = 2^a * 2^b}
<1>0. W \in Nat
  BY RoutingAssumption
<1>1. 0 \in S
  <2>1. 2^0 = 1 /\ a + 0 = a
    OBVIOUS
  <2>2. a <= W => 2^a \in Nat
    BY <1>0, PowersType
  <2> QED
    BY <2>1, <2>2
<1>2. \A b \in Nat : b \in S => b + 1 \in S
  <2> SUFFICES ASSUME NEW b \in Nat, b \in S, a + (b + 1) <= W
               PROVE  2^(a + (b + 1)) = 2^a * 2^(b + 1)
    OBVIOUS
  <2>1. 2^(a + b) = 2^a * 2^b
    BY <1>0
  <2>2. 2^((a + b) + 1) = 2 * 2^(a + b) /\ 2^(b + 1) = 2 * 2^b
    BY <1>0, PowersAssumption
  <2>3. 2^a \in Nat /\ 2^b \in Nat
    BY <1>0, PowersType
  <2>4. a + (b + 1) = (a + b) + 1
    OBVIOUS
  <2>5. \A x, y \in Nat : 2 * (x * y) = x * (2 * y)
    OBVIOUS
  <2> QED
    BY <2>1, <2>2, <2>3, <2>4, <2>5
<1>3. Nat \subseteq S
  <2> HIDE DEF S
  <2> QED
    BY <1>1, <1>2, SetInduction
<1> QED
  BY <1>3

\* A larger exponent: a multiple, and a larger power.
LEMMA PowersDivide ==
  ASSUME NEW a \in 0 .. W, NEW b \in 0 .. W, a <= b
  PROVE  /\ 2^(b - a) \in Nat \ {0}
         /\ 2^b = 2^(b - a) * 2^a
         /\ 2^a <= 2^b
         /\ a < b => 2^a < 2^b /\ \E c \in Nat \ {0} : 2^(b - a) = 2 * c
<1>1. W \in Nat /\ b - a \in Nat /\ b - a <= W /\ a + (b - a) = b
  BY RoutingAssumption
<1>2. 2^a \in Nat \ {0} /\ 2^(b - a) \in Nat \ {0}
  BY <1>1, PowersType
<1>3. 2^b = 2^a * 2^(b - a)
  BY <1>1, PowersProduct
<1>4. 2^b = 2^(b - a) * 2^a /\ 2^a <= 2^b
  <2>1. \A x, y \in Nat \ {0} : x * y = y * x /\ x <= x * y
    OBVIOUS
  <2> QED
    BY <1>2, <1>3, <2>1
<1>5. ASSUME a < b
      PROVE  2^a < 2^b /\ \E c \in Nat \ {0} : 2^(b - a) = 2 * c
  <2>1. b - a - 1 \in 0 .. W - 1 /\ (b - a - 1) + 1 = b - a
    BY <1>1, <1>5
  <2>2. 2^((b - a - 1) + 1) = 2 * 2^(b - a - 1)
    BY <2>1, PowersAssumption
  <2>3. 2^(b - a - 1) \in Nat \ {0}
    BY <1>1, <2>1, PowersType
  <2>4. PICK c \in Nat \ {0} : 2^(b - a) = 2 * c
    BY <2>1, <2>2, <2>3
  <2>5. \A x, y \in Nat \ {0} : x < (2 * y) * x
    OBVIOUS
  <2> QED
    BY <1>2, <1>4, <2>4, <2>5
<1> QED
  BY <1>2, <1>4, <1>5

-----------------------------------------------------------------------------
(* The operations of usize.                                                 *)

LEMMA NextPowerType == \A n \in Word : next_power_of_two(n) \in PowersOfTwo \cup {0}
<1> SUFFICES ASSUME NEW n \in Word
             PROVE  next_power_of_two(n) \in PowersOfTwo \cup {0}
  OBVIOUS
<1> DEFINE P == {p \in PowersOfTwo : p >= n}
<1>1. P \subseteq Nat
  <2>1. \A k \in 0 .. W - 1 : 2^k \in Nat
    BY RoutingAssumption, PowersType
  <2> QED
    BY <2>1 DEF PowersOfTwo
<1>2. CASE P = {}
  BY <1>2 DEF next_power_of_two
<1>3. CASE P # {}
  <2>1. \E p \in P : \A q \in P : p <= q
    <3> HIDE DEF P
    <3> QED
      BY <1>1, <1>3, LeastNumber
  <2>2. (CHOOSE p \in P : \A q \in P : p <= q) \in P
    BY <2>1
  <2> QED
    BY <1>3, <2>2 DEF next_power_of_two
<1> QED
  BY <1>2, <1>3

\* trailing_zeros inverts the powers.
LEMMA TrailingZeros == \A k \in 0 .. W - 1 : trailing_zeros(2^k) = k
<1> SUFFICES ASSUME NEW k \in 0 .. W - 1
             PROVE  trailing_zeros(2^k) = k
  OBVIOUS
<1>0. W \in Nat \ {0} /\ k \in 0 .. W /\ k + 1 \in 0 .. W
  BY RoutingAssumption
<1>1. 2^k \in Nat \ {0}
  BY <1>0, PowersType
<1>2. \A x, c \in Nat \ {0} : (c * x) % x = 0
  OBVIOUS
<1>3. \A x, y \in Nat \ {0} : x < y => x % y = x
  OBVIOUS
<1>4. ASSUME NEW j \in 0 .. W, j <= k
      PROVE  2^k % 2^j = 0
  <2>1. 2^(k - j) \in Nat \ {0} /\ 2^k = 2^(k - j) * 2^j
    BY <1>0, <1>4, PowersDivide
  <2>2. 2^j \in Nat \ {0}
    BY PowersType
  <2> QED
    BY <1>2, <2>1, <2>2
<1>5. ASSUME NEW j \in 0 .. W, k < j
      PROVE  2^k % 2^j # 0
  <2>1. 2^k < 2^j
    BY <1>0, <1>5, PowersDivide
  <2>2. 2^j \in Nat \ {0}
    BY PowersType
  <2> QED
    BY <1>1, <1>3, <2>1, <2>2
<1>6. 2^k % 2^k = 0 /\ 2^k % 2^(k + 1) # 0
  BY <1>0, <1>4, <1>5
<1>7. ASSUME NEW j \in 0 .. W - 1, 2^k % 2^j = 0, 2^k % 2^(j + 1) # 0
      PROVE  j = k
  <2>1. j \in 0 .. W /\ j + 1 \in 0 .. W
    BY <1>0
  <2>2. ~(k < j)
    BY <1>5, <1>7, <2>1
  <2>3. ~(j + 1 <= k)
    BY <1>4, <1>7, <2>1
  <2> QED
    BY <2>1, <2>2, <2>3
<1>8. k = CHOOSE j \in 0 .. W - 1 : 2^k % 2^j = 0 /\ 2^k % 2^(j + 1) # 0
  BY <1>6, <1>7
<1> QED
  BY <1>1, <1>8 DEF trailing_zeros

\* A power of two that a word can hold.
LEMMA PowersAreWords == PowersOfTwo \subseteq Word \ {0}
<1> SUFFICES ASSUME NEW k \in 0 .. W - 1
             PROVE  2^k \in Word \ {0}
  BY DEF PowersOfTwo
<1>1. k \in 0 .. W /\ W \in 0 .. W /\ k < W
  BY RoutingAssumption
<1>2. 2^k \in Nat \ {0} /\ 2^W \in Nat /\ 2^k < 2^W
  BY <1>1, PowersType, PowersDivide
<1> QED
  BY <1>2 DEF Word

-----------------------------------------------------------------------------
(* The number of shards and the number of bits belong together; without     *)
(* overflow checks there may be no shard at all.                            *)

ShardCount ==
  \/ \E k \in 0 .. W - 1 : shards = 2^k /\ bits = k
  \/ shards = 0 /\ bits = W /\ ~OverflowChecks

RInv ==
  /\ RoutingTypeOK /\ ShardCount
  /\ OverflowChecks => IndexInBounds

\* What the hash of an id is.
LEMMA HashType ==
  ASSUME NEW r \in Word
  PROVE  (r * FIB_HASH) % 2^W \in Word
<1>1. 2^W \in Nat \ {0} /\ r \in Nat /\ FIB_HASH \in Nat
  BY RoutingAssumption, PowersType DEF Word
<1>2. \A x \in Nat, m \in Nat \ {0} : x % m \in 0 .. m - 1
  OBVIOUS
<1>3. r * FIB_HASH \in Nat
  BY <1>1
<1> QED
  BY <1>1, <1>2, <1>3 DEF Word

\* The top k bits of a word.
LEMMA TopBits ==
  ASSUME NEW k \in 0 .. W, NEW h \in Word
  PROVE  h \div 2^(W - k) \in 0 .. 2^k - 1
<1>1. W - k \in 0 .. W /\ W \in Nat /\ k + (W - k) = W
  BY RoutingAssumption
<1>2. 2^k \in Nat \ {0} /\ 2^(W - k) \in Nat \ {0}
  BY <1>1, PowersType
<1>3. 2^W = 2^k * 2^(W - k)
  BY <1>1, PowersProduct
<1>4. h \in Nat /\ h < 2^k * 2^(W - k)
  BY <1>2, <1>3 DEF Word
<1>5. \A x \in Nat, a, b \in Nat \ {0} : x < a * b => x \div b \in Nat /\ x \div b < a
  OBVIOUS
<1> QED
  BY <1>2, <1>4, <1>5

\* Where an id lands.
LEMMA IndexBound ==
  ASSUME RInv, NEW r \in Word
  PROVE  /\ shard_index(r) \in Word
         /\ shards # 0 => shard_index(r) \in 0 .. shards - 1
<1>1. bits \in 0 .. W /\ 2^bits \in Nat \ {0} /\ 2^W \in Nat /\ 2^bits <= 2^W
  <2>1. bits \in 0 .. W /\ W \in 0 .. W
    BY RoutingAssumption DEF RInv, RoutingTypeOK
  <2> QED
    BY <2>1, PowersType, PowersDivide
<1>2. shards # 0 => shards = 2^bits
  BY DEF RInv, ShardCount
<1>3. CASE bits = 0
  BY <1>1, <1>2, <1>3 DEF shard_index, Word
<1>4. CASE bits # 0
  <2>1. shard_index(r) \in 0 .. 2^bits - 1
    BY <1>1, <1>4, HashType, TopBits DEF shard_index
  <2> QED
    BY <1>1, <1>2, <2>1 DEF Word
<1> QED
  BY <1>3, <1>4

\* A new manager.
LEMMA NewManagerInv ==
  ASSUME NEW n \in Word, with_shards(n)
  PROVE  RInv'
<1>1. AtLeast(n, 1) \in Word
  <2>1. 1 \in Word
    <3>1. 1 \in PowersOfTwo
      <4>1. 2^0 = 1
        OBVIOUS
      <4>2. 0 \in 0 .. W - 1
        BY RoutingAssumption
      <4>3. 2^0 \in PowersOfTwo
        BY <4>2 DEF PowersOfTwo
      <4> QED
        BY <4>1, <4>3
    <3> QED
      BY <3>1, PowersAreWords
  <2> QED
    BY <2>1 DEF AtLeast
<1>2. rounded(n) \in PowersOfTwo \cup {0}
  BY <1>1, NextPowerType DEF rounded
<1>3. ShardCount' /\ bits' \in 0 .. W
  <2>1. CASE rounded(n) = 0
    <3>1. ~OverflowChecks
      BY <2>1, RoutingAssumption DEF with_shards, PowerPanics, rounded
    <3>2. trailing_zeros(rounded(n)) = W
      BY <2>1 DEF trailing_zeros
    <3> QED
      BY <2>1, <3>1, <3>2, RoutingAssumption DEF with_shards, ShardCount
  <2>2. CASE rounded(n) \in PowersOfTwo
    <3>1. PICK k \in 0 .. W - 1 : rounded(n) = 2^k
      BY <2>2 DEF PowersOfTwo
    <3>2. trailing_zeros(rounded(n)) = k
      BY <3>1, TrailingZeros
    <3> QED
      BY <3>1, <3>2, RoutingAssumption DEF with_shards, ShardCount
  <2> QED
    BY <1>2, <2>1, <2>2
<1>4. rounded(n) \in Word
  <2>1. 0 \in Word
    BY PowersType, RoutingAssumption DEF Word
  <2> QED
    BY <1>2, <2>1, PowersAreWords
<1>5. DOMAIN index' = {}
  BY DEF with_shards
<1>6. RoutingTypeOK' /\ IndexInBounds'
  BY <1>3, <1>4, <1>5 DEF RoutingTypeOK, IndexInBounds, with_shards
<1> QED
  BY <1>3, <1>6 DEF RInv

\* What new asks with_shards for.
LEMMA NewAsksWord ==
  ASSUME NEW p \in Word \ {0}, new_manager(p)
  PROVE  \E n \in Word : with_shards(n)
<1>1. 2^W \in Nat \ {0} /\ 2^W - 1 \in Word
  BY PowersType, RoutingAssumption DEF Word
<1>2. AtMost(4 * p, 2^W - 1) \in Word
  BY <1>1 DEF AtMost, Word
<1>3. next_power_of_two(AtMost(4 * p, 2^W - 1)) \in PowersOfTwo \cup {0}
  BY <1>2, NextPowerType
<1>4. next_power_of_two(AtMost(4 * p, 2^W - 1)) \in Word
  <2>1. 0 \in Word
    BY <1>1 DEF Word
  <2> QED
    BY <1>3, <2>1, PowersAreWords
<1>5. MinShards \in Word /\ MaxShards \in Word
  BY RoutingAssumption, PowersAreWords
<1> QED
  BY <1>4, <1>5 DEF new_manager, AtMost, AtLeast

LEMMA InitRInv == RoutingInit => RInv
<1> SUFFICES ASSUME RoutingInit PROVE RInv
  OBVIOUS
<1>1. PICK k \in 0 .. W - 1 : MinShards = 2^k
  BY RoutingAssumption DEF PowersOfTwo
<1>2. trailing_zeros(MinShards) = k
  BY <1>1, TrailingZeros
<1>3. MinShards \in Word
  BY RoutingAssumption, PowersAreWords
<1>4. DOMAIN index = {} /\ k \in 0 .. W
  BY RoutingAssumption DEF RoutingInit
<1> QED
  BY <1>1, <1>2, <1>3, <1>4 DEF RoutingInit, RInv, RoutingTypeOK, ShardCount, IndexInBounds

LEMMA NextRInv == RInv /\ [RoutingNext]_routingVars => RInv'
<1> SUFFICES ASSUME RInv, [RoutingNext]_routingVars PROVE RInv'
  OBVIOUS
<1>1. CASE \E n \in Word : with_shards(n)
  BY <1>1, NewManagerInv
<1>2. CASE \E p \in Word \ {0} : new_manager(p)
  BY <1>2, NewAsksWord, NewManagerInv
<1>3. CASE \E r \in Word : Lookup(r)
  <2>1. PICK r \in Word : Lookup(r)
    BY <1>3
  <2>2. /\ DOMAIN index' = {r} /\ index'[r] = shard_index(r)
        /\ UNCHANGED <<asked, shards, bits>>
    BY <2>1 DEF Lookup
  <2>3. OverflowChecks => shards # 0
    <3>1. \A k \in 0 .. W - 1 : 2^k # 0
      BY RoutingAssumption, PowersType
    <3> QED
      BY <3>1 DEF RInv, ShardCount
  <2>4. RoutingTypeOK'
    BY <2>2, IndexBound DEF RInv, RoutingTypeOK
  <2>5. ShardCount'
    BY <2>2 DEF RInv, ShardCount
  <2>6. OverflowChecks => IndexInBounds'
    BY <2>2, <2>3, IndexBound DEF IndexInBounds
  <2> QED
    BY <2>4, <2>5, <2>6 DEF RInv
<1>4. CASE UNCHANGED routingVars
  BY <1>4 DEF routingVars, RInv, RoutingTypeOK, ShardCount, IndexInBounds
<1> QED
  BY <1>1, <1>2, <1>3, <1>4 DEF RoutingNext

\* The number of shards is a power of two and bits its exponent, whatever count was
\* asked for (new, with_shards).
THEOREM RoutingInvariant == RoutingSpec => []RInv
BY InitRInv, NextRInv, PTL DEF RoutingSpec

\* The manager's size and an index stay machine words.
THEOREM RoutingTypeCorrect == RoutingSpec => []RoutingTypeOK
<1>1. RInv => RoutingTypeOK
  BY DEF RInv
<1> QED
  BY <1>1, RoutingInvariant, PTL

\* No lookup leaves the shard array, if the build checks for overflow (shard_index, lock_shard).
THEOREM LookupInBounds == ASSUME OverflowChecks PROVE RoutingSpec => []IndexInBounds
<1>1. RInv => IndexInBounds
  BY DEF RInv
<1> QED
  BY <1>1, RoutingInvariant, PTL

-----------------------------------------------------------------------------
(* An odd multiplier permutes the words, so that the ids of a shard are as  *)
(* many as the hashes with its number in their top bits.                    *)

LEMMA OddFactor ==
  ASSUME NEW x \in Nat, NEW f \in Nat, NEW c \in Nat, f % 2 = 1, x * f = 2 * c
  PROVE  \E e \in Nat : x = 2 * e
<1>1. PICK g \in Nat : f = 2 * g + 1
  OBVIOUS
<1>2. x * f = 2 * (x * g) + x
  BY <1>1
<1>3. x * g \in Nat
  BY <1>1
<1>4. PICK y \in Nat : y = x * g
  BY <1>3
<1>5. x = 2 * (c - y)
  BY <1>2, <1>4
<1> QED
  BY <1>4, <1>5

\* A power of two that divides a multiple of an odd number divides the number.
LEMMA PowerDividesFactor ==
  ASSUME NEW x \in Nat, NEW f \in Nat, f % 2 = 1
  PROVE  \A k \in Nat :
           k <= W => \A c \in Nat : x * f = c * 2^k => \E e \in Nat : x = e * 2^k
<1> DEFINE S == {k \in Nat :
                   k <= W => \A c \in Nat : x * f = c * 2^k => \E e \in Nat : x = e * 2^k}
<1>0. W \in Nat
  BY RoutingAssumption
<1>1. 0 \in S
  <2>1. 2^0 = 1 /\ x = x * 1
    OBVIOUS
  <2> QED
    BY <2>1
<1>2. ASSUME NEW k \in Nat, k + 1 <= W,
             \A c \in Nat : x * f = c * 2^k => \E e \in Nat : x = e * 2^k,
             NEW c \in Nat, x * f = c * 2^(k + 1)
      PROVE  \E e \in Nat : x = e * 2^(k + 1)
  <2>1. 2^(k + 1) = 2 * 2^k
    BY <1>0, <1>2, PowersAssumption
  <2>2. PICK p \in Nat \ {0} : p = 2^k
    BY <1>0, <1>2, PowersType
  <2>3. x * f = (2 * c) * p /\ 2 * c \in Nat
    BY <1>2, <2>1, <2>2
  <2>4. PICK d \in Nat : x = d * p
    BY <1>2, <2>2, <2>3
  <2>5. (d * f) * p = (2 * c) * p
    BY <2>2, <2>3, <2>4
  <2>6. \A a, b \in Nat : a * p = b * p => a = b
    BY <2>2
  <2>7. d * f \in Nat /\ 2 * c \in Nat
    OBVIOUS
  <2>8. d * f = 2 * c
    BY <2>5, <2>6, <2>7
  <2>9. PICK e \in Nat : d = 2 * e
    BY <2>8, OddFactor
  <2>10. x = e * (2 * p)
    BY <2>2, <2>4, <2>9
  <2> QED
    BY <2>1, <2>2, <2>10
<1>3. \A k \in Nat : k \in S => k + 1 \in S
  <2> SUFFICES ASSUME NEW k \in Nat, k \in S
               PROVE  k + 1 \in S
    OBVIOUS
  <2>1. ASSUME k + 1 <= W
        PROVE  \A b \in Nat : x * f = b * 2^k => \E e \in Nat : x = e * 2^k
    BY <1>0, <2>1
  <2>2. ASSUME k + 1 <= W, NEW c \in Nat, x * f = c * 2^(k + 1)
        PROVE  \E e \in Nat : x = e * 2^(k + 1)
    BY <1>2, <2>1, <2>2
  <2> QED
    BY <2>2
<1>4. Nat \subseteq S
  <2> HIDE DEF S
  <2> QED
    BY <1>1, <1>3, SetInduction
<1> QED
  BY <1>4

\* The hash of an id, in full.
Hash(r) == (r * FIB_HASH) % 2^W

LEMMA HashInjective ==
  ASSUME NEW r \in Word, NEW q \in Word, q <= r, Hash(r) = Hash(q)
  PROVE  r = q
<1>1. PICK m \in Nat \ {0} : m = 2^W
  BY RoutingAssumption, PowersType
<1>2. r \in Nat /\ q \in Nat /\ r < m /\ FIB_HASH \in Nat /\ FIB_HASH % 2 = 1
  BY <1>1, RoutingAssumption DEF Word
<1>3. PICK x \in Nat : x = r - q
  BY <1>2
<1>4. PICK a \in Nat, b \in Nat : a = r * FIB_HASH /\ b = q * FIB_HASH
  BY <1>2
<1>5. a % m = b % m
  BY <1>1, <1>4 DEF Hash
<1>6. x * FIB_HASH = a - b /\ b <= a
  <2>1. a = b + x * FIB_HASH
    BY <1>2, <1>3, <1>4
  <2>2. x * FIB_HASH \in Nat
    BY <1>2
  <2> QED
    BY <2>1, <2>2
<1>7. \E c \in Nat : a - b = c * m
  <2>1. \A y \in Nat : y = m * (y \div m) + (y % m)
    BY <1>1
  <2>2. \A y \in Nat : y \div m \in Nat /\ y % m \in Nat
    BY <1>1
  <2>3. PICK u \in Nat : u = a \div m
    BY <2>2
  <2>4. PICK v \in Nat : v = b \div m
    BY <2>2
  <2>5. PICK w \in Nat : w = a % m
    BY <2>2
  <2>6. a = m * u + w /\ b = m * v + w
    BY <1>5, <2>1, <2>3, <2>4, <2>5
  <2>7. a - b = (u - v) * m
    BY <2>6
  <2>8. u - v \in Nat
    BY <1>1, <1>6, <2>7
  <2> QED
    BY <2>7, <2>8
<1>8. PICK e \in Nat : x = e * m
  <2>1. PICK c \in Nat : x * FIB_HASH = c * 2^W
    BY <1>1, <1>6, <1>7
  <2>2. W \in Nat /\ W <= W
    BY RoutingAssumption
  <2>3. \A k \in Nat :
          k <= W => \A d \in Nat : x * FIB_HASH = d * 2^k => \E e \in Nat : x = e * 2^k
    BY <1>2, PowerDividesFactor, Zenon
  <2>4. \E e \in Nat : x = e * 2^W
    BY <2>1, <2>2, <2>3, Zenon
  <2> QED
    BY <1>1, <2>4
<1>9. x < m
  BY <1>1, <1>2, <1>3
<1>10. e = 0
  <2>1. \A y \in Nat \ {0} : y * m >= m
    BY <1>1
  <2> QED
    BY <1>8, <1>9, <2>1
<1> QED
  BY <1>2, <1>3, <1>8, <1>10

\* Every word is the hash of exactly one id.
LEMMA HashPermutes ==
  /\ \A r, q \in Word : Hash(r) = Hash(q) => r = q
  /\ \A h \in Word : \E r \in Word : Hash(r) = h
<1>1. \A r, q \in Word : Hash(r) = Hash(q) => r = q
  <2> SUFFICES ASSUME NEW r \in Word, NEW q \in Word, Hash(r) = Hash(q)
               PROVE  r = q
    OBVIOUS
  <2>1. r \in Int /\ q \in Int
    BY DEF Word
  <2>2. q <= r \/ r <= q
    BY <2>1
  <2> QED
    BY <2>2, HashInjective
<1>2. IsFiniteSet(Word)
  <2>1. 2^W - 1 \in Int
    BY RoutingAssumption, PowersType
  <2> QED
    BY <2>1, FS_Interval DEF Word
<1>3. PICK f : f = [r \in Word |-> Hash(r)]
  OBVIOUS
<1>4. f \in Injection(Word, Word)
  <2>1. f \in [Word -> Word]
    BY <1>3, HashType DEF Hash
  <2> QED
    BY <1>1, <1>3, <2>1 DEF Injection, IsInjective
<1>5. f \in Surjection(Word, Word)
  BY <1>2, <1>4, FS_Injection
<1>6. \A h \in Word : \E r \in Word : Hash(r) = h
  BY <1>3, <1>5 DEF Surjection
<1> QED
  BY <1>1, <1>6

\* As many ids hash into an interval as it has words.
LEMMA HashesCounted ==
  ASSUME NEW a \in Nat, NEW n \in Nat, a + n <= 2^W
  PROVE  Cardinality({r \in Word : Hash(r) \in a .. a + n - 1}) = n
<1> DEFINE I == a .. a + n - 1
           T == {r \in Word : Hash(r) \in I}
<1>1. I \subseteq Word
  <2>1. 2^W \in Nat
    BY RoutingAssumption, PowersType
  <2> QED
    BY <2>1 DEF Word
<1>2. IsFiniteSet(I) /\ Cardinality(I) = n
  <2>1. a \in Int /\ a + n - 1 \in Int
    OBVIOUS
  <2>2. /\ IsFiniteSet(a .. a + n - 1)
        /\ Cardinality(a .. a + n - 1) = IF a > a + n - 1 THEN 0 ELSE (a + n - 1) - a + 1
    BY <2>1, FS_Interval
  <2> QED
    BY <2>2
<1>3. PICK f : f = [r \in T |-> Hash(r)]
  OBVIOUS
<1>4. f \in Bijection(T, I)
  <2>1. f \in [T -> I]
    BY <1>3
  <2>2. \A r, q \in T : f[r] = f[q] => r = q
    BY <1>3, HashPermutes
  <2>3. \A h \in I : \E r \in T : f[r] = h
    <3> SUFFICES ASSUME NEW h \in I
                 PROVE  \E r \in T : f[r] = h
      OBVIOUS
    <3>1. PICK r \in Word : Hash(r) = h
      BY <1>1, HashPermutes
    <3>2. r \in T /\ f[r] = h
      BY <1>3, <3>1
    <3> QED
      BY <3>2
  <2> HIDE DEF T, I
  <2> QED
    BY <2>1, <2>2, <2>3 DEF Bijection, Injection, Surjection, IsInjective
<1>5. IsFiniteSet(T)
  BY <1>1, FS_Interval, FS_Injection, <1>2, <1>4 DEF Bijection
<1>6. Cardinality(I) = Cardinality(T)
  <2> HIDE DEF T, I
  <2> QED
    BY <1>4, <1>5, FS_Bijection DEF ExistsBijection
<1> QED
  BY <1>2, <1>6

\* Which hashes have s in their top k bits.
LEMMA TopBitsInterval ==
  ASSUME NEW k \in 0 .. W, NEW h \in Word, NEW s \in Nat
  PROVE  h \div 2^(W - k) = s <=> h \in s * 2^(W - k) .. s * 2^(W - k) + 2^(W - k) - 1
<1>1. W - k \in 0 .. W
  BY RoutingAssumption
<1>2. PICK b \in Nat \ {0} : b = 2^(W - k)
  BY <1>1, PowersType
<1>3. h \in Nat
  BY DEF Word
<1>4. PICK q \in Nat : q = h \div b /\ q * b <= h /\ h < q * b + b
  BY <1>2, <1>3
<1>5. ASSUME h \in s * b .. s * b + b - 1
      PROVE  q = s
  <2>1. s * b <= h /\ h < s * b + b /\ s * b \in Nat /\ q * b \in Nat
    BY <1>3, <1>5
  <2>2. ASSUME NEW x \in Nat, NEW y \in Nat, x < y
        PROVE  x * b + b <= y * b
    <3>1. PICK d \in Nat : y = x + 1 + d
      BY <2>2
    <3>2. y * b = x * b + b + d * b /\ d * b \in Nat /\ x * b \in Nat
      BY <3>1
    <3> QED
      BY <3>2
  <2>3. ~(q < s)
    BY <1>3, <1>4, <2>1, <2>2
  <2>4. ~(s < q)
    BY <1>3, <1>4, <2>1, <2>2
  <2> QED
    BY <2>3, <2>4
<1>6. q = s => h \in s * b .. s * b + b - 1
  BY <1>3, <1>4
<1> QED
  BY <1>2, <1>4, <1>5, <1>6

LEMMA InvBalanced == RInv => ShardsBalanced
<1> SUFFICES ASSUME RInv, shards # 0, NEW s \in 0 .. shards - 1
             PROVE  Cardinality({r \in Word : shard_index(r) = s}) * shards = 2^W
  BY DEF ShardsBalanced
<1>1. PICK k \in 0 .. W - 1 : shards = 2^k /\ bits = k
  BY DEF RInv, ShardCount
<1>2. k \in 0 .. W /\ W - k \in 0 .. W /\ W \in Nat /\ k + (W - k) = W
  BY RoutingAssumption
<1>3. PICK b \in Nat \ {0} : b = 2^(W - k)
  BY <1>2, PowersType
<1>4. PICK n \in Nat \ {0} : n = 2^k
  BY <1>2, PowersType
<1>5. 2^W = n * b
  BY <1>2, <1>3, <1>4, PowersProduct
<1>6. s \in Nat /\ s + 1 <= n
  BY <1>1, <1>4
<1>7. PICK a \in Nat : a = s * b
  BY <1>6
<1>8. a + b <= 2^W
  <2>1. PICK d \in Nat : n = s + 1 + d
    BY <1>6
  <2>2. n * b = s * b + b + d * b /\ d * b \in Nat
    BY <2>1, <1>6
  <2> QED
    BY <1>5, <1>7, <2>2
<1>9. ASSUME NEW r \in Word
      PROVE  shard_index(r) = s <=> Hash(r) \in a .. a + b - 1
  <2>1. Hash(r) \in Word
    BY HashType DEF Hash
  <2>2. Hash(r) \div b = s <=> Hash(r) \in a .. a + b - 1
    BY <1>2, <1>3, <1>6, <1>7, <2>1, TopBitsInterval
  <2>3. CASE k = 0
    <3>1. n = 1 /\ s = 0 /\ a = 0 /\ b = 2^W
      <4>1. 2^0 = 1
        OBVIOUS
      <4> QED
        BY <1>2, <1>3, <1>4, <1>6, <1>7, <2>3, <4>1
    <3>2. shard_index(r) = 0
      BY <1>1, <2>3 DEF shard_index
    <3>3. Hash(r) \in 0 .. 2^W - 1
      BY <2>1 DEF Word
    <3> QED
      BY <3>1, <3>2, <3>3
  <2>4. CASE k # 0
    BY <1>1, <1>3, <2>2, <2>4 DEF shard_index, Hash
  <2> QED
    BY <2>3, <2>4
<1>10. {r \in Word : shard_index(r) = s} = {r \in Word : Hash(r) \in a .. a + b - 1}
  BY <1>9
<1>11. Cardinality({r \in Word : Hash(r) \in a .. a + b - 1}) = b
  BY <1>8, HashesCounted
<1>12. b * n = n * b
  OBVIOUS
<1> QED
  BY <1>1, <1>4, <1>5, <1>10, <1>11, <1>12

\* Every shard owns equally many of all ids: the multiplier is odd and bits is the
\* exponent of the number of shards (shard_index, FIB_HASH).
THEOREM ShardsAreBalanced == RoutingSpec => []ShardsBalanced
BY InvBalanced, RoutingInvariant, PTL

=============================================================================
