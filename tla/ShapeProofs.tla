---------------------------- MODULE ShapeProofs ----------------------------
(***************************************************************************)
(* What client and server rely on when they derive a layout from a number  *)
(* of entries (DatabaseShape), for every ring dimension and vector width.  *)
(***************************************************************************)
EXTENDS DatabaseShape, TLAPS, WellFoundedInduction

(* Arithmetic.                                                             *)
LEMMA DivBounds ==
  ASSUME NEW a \in Nat, NEW b \in Nat \ {0}
  PROVE  /\ a \div b \in Nat /\ a % b \in 0..(b - 1)
         /\ a = b * (a \div b) + (a % b)
  OBVIOUS

(* A quotient is determined by its bounds.                                 *)
LEMMA DivUnique ==
  ASSUME NEW a \in Nat, NEW b \in Nat \ {0}, NEW q \in Nat, NEW r \in 0..(b - 1), a = b * q + r
  PROVE  a \div b = q /\ a % b = r
  OBVIOUS

(* Products grow with their factors.                                       *)
LEMMA MulMono ==
  ASSUME NEW a \in Nat, NEW b \in Nat, NEW c \in Nat, a <= b
  PROVE  a * c <= b * c
  OBVIOUS

(* A common factor cancels from a strict inequality.                       *)
LEMMA MulCancel ==
  ASSUME NEW a \in Nat, NEW b \in Nat, NEW c \in Nat \ {0}, a * c < b * c
  PROVE  a < b
  OBVIOUS

(* The shifts in play: N is SIMD_COUNT times a power of two, that power is *)
(* even, and so is half of N.                                              *)
LEMMA Powers ==
  ASSUME NEW j \in 0..LOG2_N
  PROVE  2^j \in Nat \ {0} /\ 2^(LOG2_N - j) \in Nat \ {0} /\ N = 2^j * 2^(LOG2_N - j)
<1>1. LOG2_N \in Nat /\ LOG2_N - j \in 0..LOG2_N /\ j + (LOG2_N - j) = LOG2_N
  BY ParameterAssumption
<1>2. \A i, k \in 0..LOG2_N : 2^k \in Nat \ {0} /\ (i + k <= LOG2_N => 2^(i + k) = 2^i * 2^k)
  BY ShiftAssumption
<1>3. 2^(j + (LOG2_N - j)) = 2^j * 2^(LOG2_N - j)
  BY <1>1, <1>2
<1> QED BY <1>1, <1>2, <1>3 DEF N

(* The sizes as multiples of each other, from ParameterAssumption.         *)
LEMMA Sizes ==
        /\ N \in Nat \ {0} /\ SIMD_COUNT \in Nat \ {0}
        /\ \E m \in Nat \ {0} : N = SIMD_COUNT * (2 * m)
        /\ \E h \in Nat \ {0} : N = 2 * (2 * h)
        /\ \E s \in Nat \ {0} : SIMD_COUNT = 2 * s
<1>1. /\ LOG2_N \in Nat /\ LOG2_SIMD \in 1..LOG2_N /\ LOG2_N - LOG2_SIMD \in 1..LOG2_N
      /\ 1 \in 0..LOG2_N /\ LOG2_N - 1 \in 1..LOG2_N
  BY ParameterAssumption
<1>2. \A i, k \in 0..LOG2_N : 2^k \in Nat \ {0} /\ (i + k <= LOG2_N => 2^(i + k) = 2^i * 2^k)
  BY ShiftAssumption
<1>3. ASSUME NEW k \in 1..LOG2_N PROVE 2^k = 2 * 2^(k - 1) /\ 2^(k - 1) \in Nat \ {0}
  <2>1. k - 1 \in 0..LOG2_N /\ 1 + (k - 1) = k /\ 1 + (k - 1) <= LOG2_N /\ 1 \in 0..LOG2_N
    BY <1>1
  <2>2. 2^(1 + (k - 1)) = 2^1 * 2^(k - 1)
    BY <1>2, <2>1
  <2> QED BY <1>2, <2>1, <2>2, ShiftAssumption
<1>4. N = SIMD_COUNT * 2^(LOG2_N - LOG2_SIMD) /\ SIMD_COUNT \in Nat \ {0} /\ N \in Nat \ {0}
  <2>1. LOG2_SIMD \in 0..LOG2_N /\ LOG2_N \in 0..LOG2_N
    BY <1>1
  <2> QED BY <1>2, <2>1, Powers DEF SIMD_COUNT, N
<1>5. N = 2 * 2^(LOG2_N - 1)
  BY <1>1, <1>3 DEF N
<1>6. \E m \in Nat \ {0} : N = SIMD_COUNT * (2 * m)
  <2>1. /\ 2^(LOG2_N - LOG2_SIMD) = 2 * 2^(LOG2_N - LOG2_SIMD - 1)
        /\ 2^(LOG2_N - LOG2_SIMD - 1) \in Nat \ {0}
    BY <1>1, <1>3
  <2> QED BY <1>4, <2>1
<1>7. \E h \in Nat \ {0} : N = 2 * (2 * h)
  <2>1. 2^(LOG2_N - 1) = 2 * 2^(LOG2_N - 1 - 1) /\ 2^(LOG2_N - 1 - 1) \in Nat \ {0}
    BY <1>1, <1>3
  <2> QED BY <1>5, <2>1
<1>8. \E s \in Nat \ {0} : SIMD_COUNT = 2 * s
  BY <1>1, <1>3 DEF SIMD_COUNT
<1> QED BY <1>4, <1>6, <1>7, <1>8

----------------------------------------------------------------------------
(* A non-empty set of naturals has a least element.                        *)
LEMMA LeastNatural ==
  ASSUME NEW T, T \subseteq Nat, T # {}
  PROVE  \E x \in T : \A y \in T : x <= y
<1> DEFINE Less == {ss \in Nat \X Nat : ss[1] < ss[2]}
<1>1. IsWellFoundedOn(Less, Nat)
  BY NatLessThanWellFounded DEF OpToRel
<1> HIDE DEF Less
<1>2. PICK x \in T : \A y \in T : ~(<<y, x>> \in Less)
  BY <1>1, WFMin, Zenon
<1>3. \A y \in T : ~(y < x)
  BY <1>2 DEF Less
<1> QED BY <1>3

(* abs_log2_ceil is a shift that reaches n, and no larger than one that    *)
(* does.                                                                   *)
LEMMA Log2Ceil ==
  ASSUME NEW d \in 0..LOG2_N, NEW n \in Nat \ {0}, n <= 2^d
  PROVE  abs_log2_ceil(n) \in 0..d /\ n <= 2^abs_log2_ceil(n)
<1>1. LOG2_N \in Nat /\ \A k \in 0..LOG2_N : 2^k \in Nat
  BY ParameterAssumption, ShiftAssumption
<1> DEFINE T == {k \in 0..LOG2_N : 2^k >= n}
<1>2. T \subseteq Nat /\ d \in T
  BY <1>1
<1>3. PICK x \in T : \A y \in T : x <= y
  <2> HIDE DEF T
  <2>1. T # {} BY <1>2
  <2> QED BY <1>2, <2>1, LeastNatural
<1>4. x \in 0..LOG2_N /\ IsLog2Ceil(x, n)
  BY <1>1, <1>3 DEF IsLog2Ceil
<1>5. PICK c : c = abs_log2_ceil(n)
  OBVIOUS
<1>6. c \in 0..LOG2_N /\ IsLog2Ceil(c, n)
  BY <1>4, <1>5 DEF abs_log2_ceil
<1>7. c <= d
  <2> SUFFICES ASSUME d < c PROVE FALSE
    BY <1>6
  <2>1. d \in 0..(c - 1)
    BY <1>6
  <2>2. 2^d < n
    BY <1>6, <2>1 DEF IsLog2Ceil
  <2> QED BY <1>1, <2>2
<1>8. n <= 2^c
  BY <1>1, <1>6 DEF IsLog2Ceil
<1> QED BY <1>5, <1>6, <1>7, <1>8

----------------------------------------------------------------------------
(* The secondary group of a fleet of n shards.                             *)

(* What is used of an index group: its order is even and divides N, so     *)
(* does the number of iterations of its loop, and that number is even.     *)
GoodGroup(g) ==
  /\ g = [l |-> g.l] /\ g.l \in 1..N
  /\ g.l # N => 2 * g.l <= N
  /\ loop_len(g) \in 1..(N \div 2) /\ loop_len(g) % 2 = 0

(* An even order of at most N / 2, and N itself, make a usable group.      *)
LEMMA GoodGroups ==
  ASSUME NEW l \in Nat \ {0}, l = N \/ (l % 2 = 0 /\ 2 * l <= N)
  PROVE  GoodGroup([l |-> l])
<1>1. PICK h \in Nat \ {0} : N = 2 * (2 * h)
  BY Sizes
<1>2. N \div 2 = 2 * h /\ (2 * h) % 2 = 0 /\ N \in Nat
  BY <1>1
<1>3. PICK g : g = [l |-> l]
  OBVIOUS
<1>4. g = [l |-> g.l] /\ g.l = l
  BY <1>3
<1>5. CASE l = N
  <2>1. loop_len(g) = 2 * h
    BY <1>2, <1>4, <1>5 DEF loop_len
  <2> QED BY <1>2, <1>3, <1>4, <1>5, <2>1 DEF GoodGroup
<1>6. CASE l # N
  <2>1. l % 2 = 0 /\ 2 * l <= N
    BY <1>6
  <2>2. l < N /\ l <= N \div 2
    BY <1>1, <1>2, <2>1
  <2>3. loop_len(g) = l
    BY <1>4, <2>2 DEF loop_len
  <2> QED BY <1>2, <1>3, <1>4, <2>1, <2>2, <2>3 DEF GoodGroup
<1> QED BY <1>5, <1>6

(* choose_index_group_secondary passes its assertions and has room.        *)
LEMMA SecondaryGroup ==
  ASSUME NEW n \in 1..(N \div SIMD_COUNT)
  PROVE  /\ secondary_asserts(n)
         /\ GoodGroup(choose_index_group_secondary(n))
         /\ group_order(choose_index_group_secondary(n)) \in Nat
         /\ n * SIMD_COUNT <= group_order(choose_index_group_secondary(n))
         /\ n <= group_order(choose_index_group_secondary(n)) \div SIMD_COUNT
<1>1. PICK d \in 0..LOG2_N : d = LOG2_N - LOG2_SIMD
  BY ParameterAssumption
<1>2. /\ LOG2_N \in Nat /\ LOG2_SIMD \in 0..LOG2_N /\ d + LOG2_SIMD = LOG2_N
      /\ \A i, k \in 0..LOG2_N : 2^k \in Nat \ {0} /\ (i + k <= LOG2_N => 2^(i + k) = 2^i * 2^k)
  BY <1>1, ParameterAssumption, ShiftAssumption
<1>3. N = SIMD_COUNT * 2^d /\ 2^d \in Nat \ {0} /\ SIMD_COUNT \in Nat \ {0}
  BY <1>1, <1>2, Powers DEF SIMD_COUNT
<1>4. N \div SIMD_COUNT = 2^d
  BY <1>3, DivUnique
<1>5. n \in Nat \ {0} /\ n <= 2^d
  BY <1>3, <1>4
<1>6. PICK k \in 0..d : k = abs_log2_ceil(n) /\ n <= 2^k
  BY <1>1, <1>2, <1>5, Log2Ceil
<1>7. PICK e \in 0..d : e = d - k
  BY <1>2, <1>6
<1>8. /\ 2^k \in Nat \ {0} /\ 2^e \in Nat \ {0} /\ 2^d = 2^k * 2^e
  <2>1. k \in 0..LOG2_N /\ e \in 0..LOG2_N /\ k + e = d /\ k + e <= LOG2_N
    BY <1>2, <1>6, <1>7
  <2> QED BY <1>2, <2>1
<1>9. PICK order \in Nat \ {0} : order = SIMD_COUNT * 2^k
  BY <1>3, <1>8
<1>10. N = order * 2^e
  BY <1>3, <1>8, <1>9
<1>11. PICK s \in Nat \ {0} : SIMD_COUNT = 2 * s
  BY Sizes
<1>12. order = 2 * (s * 2^k) /\ order % 2 = 0
  <2>1. PICK x \in Nat : x = s * 2^k
    BY <1>8, <1>11
  <2>2. order = 2 * x
    BY <1>8, <1>9, <1>11, <2>1
  <2> QED BY <2>1, <2>2
<1>13. order # N => 2 * order <= N /\ N % order = 0
  <2> SUFFICES ASSUME order # N PROVE 2 * order <= N /\ N % order = 0
    OBVIOUS
  <2>1. 2^e # 1
    BY <1>10
  <2>2. PICK y \in Nat : y = 2^e /\ y >= 2
    BY <1>8, <2>1
  <2>3. N = order * y + 0
    BY <1>10, <2>2
  <2>4. 2 * order <= y * order
    BY <2>2, MulMono
  <2>5. N \in Nat /\ 0 \in 0..(order - 1) /\ y * order = order * y
    BY <2>2, Sizes
  <2>6. N % order = 0
    BY <2>2, <2>3, <2>5, DivUnique
  <2> QED BY <2>3, <2>4, <2>5, <2>6
<1>14. choose_index_group_secondary(n) = [l |-> order]
  BY <1>6, <1>9 DEF choose_index_group_secondary, full_group, subgroup_of_size
<1>15. GoodGroup([l |-> order])
  BY <1>12, <1>13, GoodGroups
<1>16. secondary_asserts(n)
  <2>1. n <= N \div SIMD_COUNT
    BY <1>4, <1>5
  <2>2. order # N => subgroup_asserts(order)
    BY <1>13 DEF subgroup_asserts
  <2> QED BY <1>6, <1>9, <2>1, <2>2 DEF secondary_asserts
<1>17. n * SIMD_COUNT <= order
  BY <1>3, <1>5, <1>6, <1>8, <1>9, MulMono
<1>18. order \div SIMD_COUNT = 2^k
  BY <1>3, <1>8, <1>9, DivUnique
<1> QED BY <1>6, <1>14, <1>15, <1>16, <1>17, <1>18 DEF group_order

----------------------------------------------------------------------------
(* The primary group, and what its shards hold.                            *)
LEMMA PrimaryGroup ==
  ASSUME NEW n \in Nat
  PROVE  /\ GoodGroup(index_group_primary(n))
         /\ group_order(index_group_primary(n)) \in Nat \ {0}
         /\ group_order(index_group_primary(n)) =
              IF n <= HALF_SIZE_PRIMARY_MAX_ENTRIES THEN N \div 2 ELSE N
         /\ entries_per_shard(n) = SIMD_COUNT * group_order(index_group_primary(n))
         /\ entries_per_shard(n) \in Nat \ {0}
         /\ subgroup_asserts(N \div 2)
<1>1. PICK h \in Nat \ {0} : N = 2 * (2 * h)
  BY Sizes
<1>2. N \div 2 = 2 * h /\ (2 * h) % 2 = 0 /\ N \in Nat \ {0} /\ SIMD_COUNT \in Nat \ {0}
  BY <1>1, Sizes
<1>3. GoodGroup([l |-> N \div 2]) /\ GoodGroup([l |-> N])
  BY <1>1, <1>2, GoodGroups
<1>4. index_group_primary(n) = [l |-> IF n <= HALF_SIZE_PRIMARY_MAX_ENTRIES THEN N \div 2 ELSE N]
  BY DEF index_group_primary, subgroup_of_size, full_group
<1>5. group_order(index_group_primary(n)) =
        IF n <= HALF_SIZE_PRIMARY_MAX_ENTRIES THEN N \div 2 ELSE N
  BY <1>4 DEF group_order
<1>6. group_order(index_group_primary(n)) \in Nat \ {0}
  BY <1>1, <1>2, <1>5
<1>7. entries_per_shard(n) = SIMD_COUNT * group_order(index_group_primary(n))
  BY DEF entries_per_shard
<1>8. SIMD_COUNT * group_order(index_group_primary(n)) \in Nat \ {0}
  BY <1>2, <1>6
<1>9. subgroup_asserts(N \div 2)
  <2>1. N = (2 * h) * 2 + 0
    BY <1>1
  <2>2. N % (2 * h) = 0
    <3>1. 0 \in 0..(2 * h - 1) /\ 2 * h \in Nat \ {0} /\ N \in Nat
      BY <1>2
    <3> QED BY <2>1, <3>1, DivUnique
  <2> QED BY <1>1, <1>2, <2>2 DEF subgroup_asserts
<1> QED BY <1>3, <1>4, <1>5, <1>6, <1>7, <1>8, <1>9

(* PIRDatabase::create splits exactly the memory that required_memory      *)
(* claimed: the conjugated half makes up for the halved loop.              *)
LEMMA SlicesFit ==
  ASSUME NEW g, GoodGroup(g)
  PROVE  create_slices(g) = required_memory_general(g)
<1>1. PICK h \in Nat \ {0} : N = 2 * (2 * h)
  BY Sizes
<1>2. N \div 2 = 2 * h /\ N \in Nat /\ g.l \in Nat /\ g.l <= N /\ GK_DIGITS \in Nat
  BY <1>1, ParameterAssumption DEF GoodGroup
<1>3. CASE g.l = N
  <2>1. loop_len(g) = 2 * h /\ requires_conj(g) /\ group_order(g) = N
    BY <1>2, <1>3 DEF loop_len, requires_conj, group_order
  <2>2. PICK x \in Nat : x = N * (2 * h)
    BY <1>2
  <2>3. N * N = 2 * x
    BY <1>1, <1>2, <2>2
  <2>4. create_slices(g) = 2 * (2 * x + GK_DIGITS * 2 * x)
    BY <2>1, <2>2 DEF create_slices
  <2>5. required_memory_general(g) = (GK_DIGITS + 1) * 2 * N * N
    BY <2>1 DEF required_memory_general
  <2>6. (GK_DIGITS + 1) * 2 * N * N = (GK_DIGITS + 1) * 2 * (2 * x)
    BY <1>2, <2>2, <2>3
  <2>7. (GK_DIGITS + 1) * 2 * (2 * x) = 2 * (2 * x + GK_DIGITS * 2 * x)
    BY <1>2
  <2> QED BY <2>4, <2>5, <2>6, <2>7
<1>4. CASE g.l # N
  <2>1. loop_len(g) = g.l /\ ~requires_conj(g) /\ group_order(g) = g.l
    BY <1>2, <1>4 DEF loop_len, requires_conj, group_order
  <2>2. PICK x \in Nat : x = N * g.l
    BY <1>2
  <2>3. create_slices(g) = 1 * (2 * x + GK_DIGITS * 2 * x)
    BY <2>1, <2>2 DEF create_slices
  <2>4. required_memory_general(g) = (GK_DIGITS + 1) * 2 * N * g.l
    BY <2>1 DEF required_memory_general
  <2>5. (GK_DIGITS + 1) * 2 * N * g.l = (GK_DIGITS + 1) * 2 * x
    BY <1>2, <2>2
  <2>6. (GK_DIGITS + 1) * 2 * x = 1 * (2 * x + GK_DIGITS * 2 * x)
    BY <1>2
  <2> QED BY <2>3, <2>4, <2>5, <2>6
<1> QED BY <1>3, <1>4

(* div_ceil is the least number of shards that hold n entries.             *)
LEMMA DivCeil ==
  ASSUME NEW n \in Nat \ {0}, NEW E \in Nat \ {0}
  PROVE  /\ div_ceil(n, E) \in Nat \ {0}
         /\ n <= div_ceil(n, E) * E /\ (div_ceil(n, E) - 1) * E < n
         /\ \A m \in Nat : n <= m * E => div_ceil(n, E) <= m
<1>1. PICK a \in Nat : a = n + E - 1
  OBVIOUS
<1>2. PICK q \in Nat : q = a \div E
  BY DivBounds
<1>3. PICK r \in 0..(E - 1) : a = E * q + r
  <2>1. a % E \in 0..(E - 1) /\ a = E * (a \div E) + (a % E)
    BY DivBounds, Zenon
  <2> QED BY <1>2, <2>1, Zenon
<1>4. q # 0
  <2> SUFFICES ASSUME q = 0 PROVE FALSE
    OBVIOUS
  <2>1. E * q = 0
    OBVIOUS
  <2> QED BY <1>1, <1>3, <2>1
<1>5. E * q = q * E /\ (q - 1) * E = q * E - E
  OBVIOUS
<1>6. n <= q * E /\ (q - 1) * E < n
  BY <1>1, <1>3, <1>5
<1>7. ASSUME NEW m \in Nat, n <= m * E PROVE q <= m
  <2>1. PICK p \in Nat : p = q - 1
    BY <1>4
  <2>2. p * E < m * E
    BY <1>6, <1>7, <2>1
  <2>3. p < m
    BY <2>2, MulCancel
  <2> QED BY <2>1, <2>3
<1>8. div_ceil(n, E) = q
  BY <1>1, <1>2 DEF div_ceil
<1> QED BY <1>4, <1>6, <1>7, <1>8

(* Every accepted number of entries needs no more shards than a secondary  *)
(* database can address.                                                   *)
LEMMA ShardCount ==
  ASSUME NEW n \in EntryCounts
  PROVE  /\ num_databases(n) \in 1..(N \div SIMD_COUNT)
         /\ n <= num_databases(n) * entries_per_shard(n)
         /\ (num_databases(n) - 1) * entries_per_shard(n) < n
<1>1. PICK h \in Nat \ {0} : N = 2 * (2 * h)
  BY Sizes
<1>2. PICK m \in Nat \ {0} : N = SIMD_COUNT * (2 * m)
  BY Sizes
<1>3. N \in Nat \ {0} /\ SIMD_COUNT \in Nat \ {0} /\ N * N \in Nat
  BY Sizes
<1>4. n \in Nat \ {0} /\ n <= N * N
  BY <1>3 DEF EntryCounts
<1>5. PICK M \in Nat \ {0} : M = 2 * m
  OBVIOUS
<1>6. N \div SIMD_COUNT = M
  <2>1. N = SIMD_COUNT * M + 0 /\ 0 \in 0..(SIMD_COUNT - 1)
    BY <1>2, <1>3, <1>5
  <2> QED BY <1>3, <2>1, DivUnique
<1>7. PICK E \in Nat \ {0} : E = entries_per_shard(n)
  BY <1>4, PrimaryGroup
<1>8. n <= M * E
  <2>1. CASE n <= HALF_SIZE_PRIMARY_MAX_ENTRIES
    <3>1. E = SIMD_COUNT * (2 * h)
      BY <1>1, <1>3, <1>4, <1>7, <2>1, PrimaryGroup
    <3>2. M * E = N * (2 * h)
      BY <1>2, <1>3, <1>5, <3>1
    <3>3. HALF_SIZE_PRIMARY_MAX_ENTRIES \in Nat /\ 16 * HALF_SIZE_PRIMARY_MAX_ENTRIES <= N * N
      BY <1>3 DEF HALF_SIZE_PRIMARY_MAX_ENTRIES
    <3>4. N * N = 2 * (N * (2 * h))
      BY <1>1, <1>3
    <3> QED BY <1>3, <1>4, <2>1, <3>2, <3>3, <3>4
  <2>2. CASE ~(n <= HALF_SIZE_PRIMARY_MAX_ENTRIES)
    <3>1. E = SIMD_COUNT * N
      BY <1>4, <1>7, <2>2, PrimaryGroup
    <3>2. M * E = N * N
      BY <1>2, <1>3, <1>5, <3>1
    <3> QED BY <1>4, <3>2
  <2> QED BY <2>1, <2>2
<1>9. num_databases(n) = div_ceil(n, E)
  BY <1>7 DEF num_databases
<1>10. div_ceil(n, E) \in Nat \ {0} /\ div_ceil(n, E) <= M
  BY <1>4, <1>8, DivCeil
<1> QED BY <1>4, <1>6, <1>7, <1>9, <1>10, DivCeil

(* No assertion of get_database_shape fails on an accepted entry count.    *)
LEMMA ShapeAccepted ==
  ASSUME NEW n \in EntryCounts
  PROVE  shape_asserts(n)
<1>1. n \in Nat /\ n >= 1 /\ n <= N * N
  BY Sizes DEF EntryCounts
<1>2. secondary_asserts(num_databases(n))
  BY ShardCount, SecondaryGroup
<1> QED BY <1>1, <1>2, PrimaryGroup DEF shape_asserts

(* Whatever the hash, bucket::slot names an existing shard, a position     *)
(* inside it and a row of the secondary database, and the address          *)
(* determines the hash.                                                    *)
LEMMA SlotInShape ==
  ASSUME NEW n \in EntryCounts, NEW s \in 0..(n - 1)
  PROVE  /\ slot(s, n).secondary \in 0..(num_databases(n) - 1)
         /\ slot(s, n).primary \in 0..(entries_per_shard(n) - 1)
         /\ slot(s, n).secondary < group_order(get_database_shape(n).secondary) \div SIMD_COUNT
         /\ slot(s, n).secondary * entries_per_shard(n) + slot(s, n).primary = s
<1>1. n \in Nat \ {0} /\ s \in Nat /\ s < n
  BY Sizes DEF EntryCounts
<1>2. PICK E \in Nat \ {0} : E = entries_per_shard(n)
  BY <1>1, PrimaryGroup
<1>3. PICK d \in Nat \ {0} : d = num_databases(n)
  <2>1. N \div SIMD_COUNT \in Nat
    BY Sizes, DivBounds
  <2> QED BY <2>1, ShardCount
<1>4. PICK q \in Nat : q = s \div E
  BY <1>1, DivBounds
<1>5. PICK r \in 0..(E - 1) : r = s % E /\ s = E * q + r
  <2>1. s % E \in 0..(E - 1) /\ s = E * (s \div E) + (s % E)
    BY <1>1, DivBounds, Zenon
  <2> QED BY <1>4, <2>1, Zenon
<1>6. slot(s, n) = [secondary |-> q, primary |-> r]
  BY <1>2, <1>4, <1>5 DEF slot
<1>7. E * q = q * E
  OBVIOUS
<1>8. q < d
  <2>1. n <= d * E
    BY <1>2, <1>3, ShardCount
  <2>2. q * E < d * E
    BY <1>1, <1>5, <1>7, <2>1
  <2> QED BY <2>2, MulCancel
<1>9. d <= group_order(get_database_shape(n).secondary) \div SIMD_COUNT
  <2>1. get_database_shape(n).secondary = choose_index_group_secondary(num_databases(n))
    BY DEF get_database_shape
  <2>2. d \in 1..(N \div SIMD_COUNT)
    BY <1>3, ShardCount
  <2> QED BY <1>3, <2>1, <2>2, SecondaryGroup
<1>10. group_order(get_database_shape(n).secondary) \div SIMD_COUNT \in Nat
  <2>1. get_database_shape(n).secondary = choose_index_group_secondary(num_databases(n))
    BY DEF get_database_shape
  <2>2. group_order(choose_index_group_secondary(num_databases(n))) \in Nat
    BY ShardCount, SecondaryGroup
  <2> QED BY <2>1, <2>2, Sizes, DivBounds
<1> QED BY <1>2, <1>3, <1>5, <1>6, <1>7, <1>8, <1>9, <1>10

=============================================================================
