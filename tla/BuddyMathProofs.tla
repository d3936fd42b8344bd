--------------------------- MODULE BuddyMathProofs ---------------------------
(***************************************************************************)
(* The powers and logarithms of two of BuddyMath, for every word width.    *)
(***************************************************************************)
EXTENDS BuddyMath, FiniteSums

Exponent == 0 .. WordBits

(* Powers of two are positive integers.                                    *)
LEMMA PowerPositive ==
  ASSUME NEW k \in Exponent
  PROVE  2^k \in Nat \ {0}
<1> DEFINE Bad == {j \in Exponent : 2^j \notin Nat \ {0}}
<1>1. SUFFICES ASSUME Bad # {} PROVE FALSE
  OBVIOUS
<1>2. Bad \in SUBSET Nat
  BY WordBitsAssumption DEF Exponent
<1>3. PICK m \in Bad : \A n \in Bad : m <= n
  BY <1>1, <1>2, LeastElement
<1>4. m \in Exponent /\ 2^m \notin Nat \ {0}
  BY <1>3
<1>0. 2^0 \in Nat \ {0}
  BY PowerAssumption
<1>5. m # 0
  BY <1>0, <1>4, Zenon
<1>6. m - 1 \in 0 .. WordBits - 1 /\ m - 1 \in Exponent /\ (m - 1) + 1 = m
  BY <1>4, <1>5, WordBitsAssumption DEF Exponent
<1>7. 2^(m - 1) \in Nat \ {0}
  BY <1>3, <1>4, <1>6 DEF Exponent
<1>8. 2^m = 2 * 2^(m - 1)
  BY <1>6, PowerAssumption
<1> QED
  BY <1>4, <1>7, <1>8

(* Each is at least twice every smaller one.                               *)
LEMMA PowersGrow ==
  ASSUME NEW j \in Exponent, NEW k \in Exponent, j < k
  PROVE  2 * 2^j <= 2^k
<1> DEFINE Bad == {n \in Exponent : j < n /\ ~(2 * 2^j <= 2^n)}
<1>1. SUFFICES ASSUME Bad # {} PROVE FALSE
  OBVIOUS
<1>2. Bad \in SUBSET Nat
  BY WordBitsAssumption DEF Exponent
<1>3. PICK m \in Bad : \A n \in Bad : m <= n
  BY <1>1, <1>2, LeastElement
<1>4. m \in Exponent /\ j < m /\ ~(2 * 2^j <= 2^m)
  BY <1>3
<1>5. m - 1 \in 0 .. WordBits - 1 /\ m - 1 \in Exponent /\ (m - 1) + 1 = m
  BY <1>4, WordBitsAssumption DEF Exponent
<1>6. 2^m = 2 * 2^(m - 1) /\ 2^(m - 1) \in Nat /\ 2^j \in Nat
  BY <1>5, PowerAssumption, PowerPositive
<1>7. CASE m - 1 = j
  BY <1>4, <1>6, <1>7
<1>8. CASE m - 1 # j
  <2>1. j < m - 1
    BY <1>4, <1>5, <1>8 DEF Exponent
  <2>2. 2 * 2^j <= 2^(m - 1)
    BY <1>3, <1>5, <2>1 DEF Exponent
  <2> QED
    BY <1>4, <1>6, <2>2
<1> QED
  BY <1>7, <1>8

(* The order of powers is that of their exponents.                         *)
LEMMA PowersOrdered ==
  ASSUME NEW j \in Exponent, NEW k \in Exponent
  PROVE  /\ j < k <=> 2^j < 2^k
         /\ j <= k <=> 2^j <= 2^k
<1>1. 2^j \in Nat \ {0} /\ 2^k \in Nat \ {0} /\ j \in Int /\ k \in Int
  BY PowerPositive DEF Exponent
<1>2. CASE j < k
  BY <1>1, <1>2, PowersGrow
<1>3. CASE k < j
  BY <1>1, <1>3, PowersGrow
<1>4. CASE j = k
  BY <1>1, <1>4
<1> QED
  BY <1>1, <1>2, <1>3, <1>4

(* bit_width counts the powers of two up to x: these are the first ones.   *)
LEMMA BitWidthSpec ==
  ASSUME NEW x \in Nat, x < 2^WordBits
  PROVE  /\ bit_width(x) \in Exponent
         /\ x < 2^bit_width(x)
         /\ x # 0 => bit_width(x) # 0 /\ 2^(bit_width(x) - 1) <= x
<1> DEFINE Above == {k \in Exponent : x < 2^k}
<1>1. Above \in SUBSET Nat /\ WordBits \in Above
  BY WordBitsAssumption DEF Exponent
<1>2. PICK m \in Above : \A n \in Above : m <= n
  BY <1>1, LeastElement
<1>3. m \in Exponent /\ x < 2^m
  BY <1>2
<1>4. \A w \in Exponent : w < m => 2^w <= x
  BY <1>2, PowerPositive DEF Exponent
<1>5. {w \in 0 .. WordBits - 1 : 2^w <= x} = 0 .. m - 1
  <2>1. ASSUME NEW w \in 0 .. WordBits - 1, 2^w <= x PROVE w \in 0 .. m - 1
    <3>1. w \in Exponent /\ 2^w \in Nat /\ 2^m \in Nat
      BY <1>3, WordBitsAssumption, PowerPositive DEF Exponent
    <3>2. 2^w < 2^m
      BY <1>3, <2>1, <3>1
    <3>3. w < m
      BY <1>3, <3>1, <3>2, PowersOrdered
    <3> QED
      BY <1>3, <3>1, <3>3 DEF Exponent
  <2>2. ASSUME NEW w \in 0 .. m - 1 PROVE w \in 0 .. WordBits - 1 /\ 2^w <= x
    <3>1. w \in 0 .. WordBits - 1 /\ w \in Exponent /\ w < m
      BY <1>3, WordBitsAssumption DEF Exponent
    <3> QED
      BY <1>4, <3>1
  <2> QED
    BY <2>1, <2>2
<1>6. bit_width(x) = m
  <2>1. bit_width(x) = Cardinality(0 .. m - 1)
    BY <1>5, Zenon DEF bit_width
  <2>2. Cardinality(0 .. m - 1) = m
    BY <1>3, FS_Interval DEF Exponent
  <2> QED
    BY <2>1, <2>2
<1>7. ASSUME x # 0 PROVE m # 0 /\ 2^(m - 1) <= x
  <2>0. ~(x < 2^0)
    BY <1>7, PowerAssumption
  <2>1. m # 0
    BY <1>3, <2>0, Zenon
  <2>2. m - 1 \in Exponent /\ m - 1 < m
    BY <1>3, <2>1, WordBitsAssumption DEF Exponent
  <2> QED
    BY <1>4, <2>1, <2>2
<1> QED
  BY <1>3, <1>6, <1>7

(* 2^ceil_log2(x) is the least power of two that is no smaller than x.     *)
LEMMA CeilLog2Spec ==
  ASSUME NEW x \in Nat, x <= 2^WordBits
  PROVE  /\ ceil_log2(x) \in Exponent
         /\ x <= 2^ceil_log2(x)
         /\ \A k \in Exponent : x <= 2^k => ceil_log2(x) <= k
<1>1. 0 \in Exponent /\ WordBits \in Exponent
  BY WordBitsAssumption DEF Exponent
<1>2. CASE x <= 1
  <2>1. ceil_log2(x) = 0
    BY <1>2 DEF ceil_log2
  <2>2. 2^0 = 1
    BY PowerAssumption
  <2>3. x <= 2^ceil_log2(x)
    BY <1>2, <2>1, <2>2, Zenon
  <2> QED
    BY <1>1, <2>1, <2>3 DEF Exponent
<1>3. CASE ~(x <= 1)
  <2> DEFINE w == bit_width(x - 1)
  <2>1. ceil_log2(x) = w
    BY <1>3 DEF ceil_log2
  <2>2. x - 1 \in Nat /\ x - 1 # 0 /\ x - 1 < 2^WordBits
    BY <1>1, <1>3, PowerPositive
  <2>3. /\ w \in Exponent /\ x - 1 < 2^w /\ w # 0 /\ 2^(w - 1) <= x - 1
    BY <2>2, BitWidthSpec
  <2> HIDE DEF w
  <2>4. x <= 2^w
    BY <2>3, PowerPositive
  <2>5. ASSUME NEW k \in Exponent, x <= 2^k PROVE w <= k
    <3>1. w - 1 \in Exponent
      BY <2>3, WordBitsAssumption DEF Exponent
    <3>2. 2^(w - 1) < 2^k
      BY <2>3, <2>5, <3>1, PowerPositive
    <3>3. w - 1 < k
      BY <3>1, <3>2, PowersOrdered
    <3> QED
      BY <2>3, <3>3 DEF Exponent
  <2> QED
    BY <2>1, <2>3, <2>4, <2>5
<1> QED
  BY <1>2, <1>3

(* It is exact for powers of two, and larger sizes have no smaller one.    *)
LEMMA CeilLog2OfPower ==
  ASSUME NEW k \in Exponent
  PROVE  ceil_log2(2^k) = k
<1>1. 2^k \in Nat /\ 2^k <= 2^WordBits
  BY PowerPositive, PowersOrdered, WordBitsAssumption DEF Exponent
<1>2. /\ ceil_log2(2^k) \in Exponent /\ 2^k <= 2^ceil_log2(2^k)
      /\ ceil_log2(2^k) <= k
  BY <1>1, CeilLog2Spec
<1>3. k <= ceil_log2(2^k)
  BY <1>2, PowersOrdered
<1> QED
  BY <1>2, <1>3 DEF Exponent

LEMMA CeilLog2Monotone ==
  ASSUME NEW x \in Nat, NEW y \in Nat, x <= y, y <= 2^WordBits
  PROVE  ceil_log2(x) <= ceil_log2(y)
<1>1. WordBits \in Exponent
  BY WordBitsAssumption DEF Exponent
<1>2. x <= 2^WordBits
  BY <1>1, PowerPositive
<1>3. ceil_log2(y) \in Exponent /\ y <= 2^ceil_log2(y)
  BY CeilLog2Spec
<1>4. x <= 2^ceil_log2(y)
  BY <1>3, PowerPositive
<1> QED
  BY <1>2, <1>3, <1>4, CeilLog2Spec

(* A power of two is a multiple of every smaller one.                      *)
LEMMA PowerDivides ==
  ASSUME NEW j \in Exponent, NEW k \in Exponent, j <= k
  PROVE  \E q \in Nat \ {0} : 2^k = q * 2^j
<1> DEFINE Bad == {n \in Exponent : j <= n /\ \A q \in Nat \ {0} : 2^n # q * 2^j}
<1>1. SUFFICES ASSUME Bad # {} PROVE FALSE
  OBVIOUS
<1>2. Bad \in SUBSET Nat
  BY WordBitsAssumption DEF Exponent
<1>3. PICK m \in Bad : \A n \in Bad : m <= n
  BY <1>1, <1>2, LeastElement
<1>4. m \in Exponent /\ j <= m /\ \A q \in Nat \ {0} : 2^m # q * 2^j
  BY <1>3
<1>5. 2^j \in Nat \ {0}
  BY PowerPositive
<1>6. m # j
  BY <1>4, <1>5
<1>7. m - 1 \in 0 .. WordBits - 1 /\ m - 1 \in Exponent /\ (m - 1) + 1 = m /\ j <= m - 1
  BY <1>4, <1>6, WordBitsAssumption DEF Exponent
<1>8. PICK q \in Nat \ {0} : 2^(m - 1) = q * 2^j
  BY <1>3, <1>7 DEF Exponent
<1>9. 2^m = 2 * 2^(m - 1)
  BY <1>7, PowerAssumption
<1>10. 2^m = (2 * q) * 2^j
  BY <1>5, <1>8, <1>9
<1> QED
  BY <1>4, <1>10

-----------------------------------------------------------------------------
(* The tree of a slab of 2^k bytes with blocks of at least 2^m.            *)

(* A node lies on a level of the tree, and its block is a power of two.    *)
LEMMA LevelOfNode ==
  ASSUME NEW k \in 0 .. WordBits - 1, NEW m \in 0 .. k,
         NEW n \in 0 .. node_count(max_level(k, m)) - 1
  PROVE  /\ level_of(n) \in 0 .. k - m
         /\ k - level_of(n) \in Exponent
         /\ block_bytes_at_level(k, level_of(n)) \in Nat \ {0}
         /\ index_in_level(n) \in Nat
<1>1. (k - m) + 1 \in Exponent /\ WordBits \in Exponent /\ (k - m) + 1 <= WordBits
  BY WordBitsAssumption DEF Exponent
<1>2. /\ 2^((k - m) + 1) \in Nat /\ 2^WordBits \in Nat
      /\ 2^((k - m) + 1) <= 2^WordBits
  BY <1>1, PowerPositive, PowersOrdered
<1>3. n \in Nat /\ n + 1 < 2^((k - m) + 1)
  BY <1>2 DEF node_count, max_level
<1>4. n + 1 \in Nat /\ n + 1 # 0 /\ n + 1 < 2^WordBits
  BY <1>2, <1>3
<1> DEFINE w == bit_width(n + 1)
<1>5. w \in Exponent /\ w # 0 /\ 2^(w - 1) <= n + 1
  BY <1>4, BitWidthSpec
<1> HIDE DEF w
<1>6. w - 1 \in Exponent /\ 2^(w - 1) \in Nat
  BY <1>5, WordBitsAssumption, PowerPositive DEF Exponent
<1>7. 2^(w - 1) < 2^((k - m) + 1)
  BY <1>2, <1>3, <1>5, <1>6
<1>8. w - 1 < (k - m) + 1
  BY <1>1, <1>6, <1>7, PowersOrdered
<1>9. level_of(n) = w - 1
  BY DEF level_of, w
<1>10. level_of(n) \in 0 .. k - m /\ k - level_of(n) \in Exponent
  BY <1>6, <1>8, <1>9, WordBitsAssumption DEF Exponent
<1> QED
  BY <1>3, <1>5, <1>6, <1>9, <1>10, PowerPositive
     DEF block_bytes_at_level, index_in_level

(* A block of the level for a request holds it.                            *)
LEMMA LevelServes ==
  ASSUME NEW k \in 0 .. WordBits - 1, NEW m \in 0 .. k,
         NEW bytes \in Nat, bytes <= 2^WordBits,
         level_for_size(bytes, k, m) \in 0 .. k - m
  PROVE  bytes <= block_bytes_at_level(k, level_for_size(bytes, k, m))
<1> DEFINE x == IF bytes < 2^m THEN 2^m ELSE bytes
           need == ceil_log2(x)
<1>1. m \in Exponent /\ 2^m \in Nat /\ 2^m <= 2^WordBits /\ 2^WordBits \in Nat
  BY PowerPositive, PowersOrdered, WordBitsAssumption DEF Exponent
<1>2. x \in Nat /\ x <= 2^WordBits /\ bytes <= x
  BY <1>1
<1> HIDE DEF x
<1>3. need \in Exponent /\ x <= 2^need
  BY <1>2, CeilLog2Spec
<1>4. need \in Int /\ 2^need \in Nat
  BY <1>3, PowerPositive DEF Exponent
<1>5. level_for_size(bytes, k, m) = IF need > k THEN (k - m) + 1 ELSE k - need
  BY DEF level_for_size, x, max_level
<1> HIDE DEF need
<1>6. level_for_size(bytes, k, m) = k - need /\ k - (k - need) = need
  BY <1>4, <1>5
<1>7. block_bytes_at_level(k, level_for_size(bytes, k, m)) = 2^need
  BY <1>6, Zenon DEF block_bytes_at_level
<1> QED
  BY <1>2, <1>3, <1>4, <1>7
=============================================================================
