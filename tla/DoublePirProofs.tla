-------------------------- MODULE DoublePirProofs --------------------------
(***************************************************************************)
(* A batch of queries is answered with the entries asked for, without a    *)
(* panic on either side, for every ring dimension, vector width, number of *)
(* digits, parts and batch slots, every size of fleet and every slot       *)
(* (DoublePir).  The argument follows the batch through its phases: what   *)
(* the server unpacks is what the client encrypted, the first level finds  *)
(* the entry's row in every shard, the second level the shard and lane.    *)
(***************************************************************************)
EXTENDS DoublePir, ShapeProofs, SequenceTheorems, FiniteSetTheorems

Ciphertexts == [seeds : {"FirstSet", "SecondSet"}, exp : Int, conj : BOOLEAN]

(* The two ciphertexts of a selector; the second only if it is required.   *)
Direct(set, index, g) == Ciphertext(set, index * query_base_power(g), FALSE)
Conjugate(set, index, g) == Ciphertext(set, 2 * N - index * query_base_power(g), TRUE)
ConjOrNone(set, index, g) == IF requires_conj(g) THEN Conjugate(set, index, g) ELSE None

(* The rows a slot is found in: of its shard, and of the second level.     *)
FirstRow(s, n) == slot(s, n).primary \div SIMD_COUNT
SecondRow(s, n) == slot(s, n).secondary * SIMD_COUNT + (slot(s, n).primary % SIMD_COUNT)

(* What the server must unpack from a client's query for slot s.           *)
Unpacked(s, n) ==
  LET shape == get_database_shape(n)
  IN  [primary        |-> Direct("FirstSet", FirstRow(s, n), shape.primary),
       primary_conj   |-> ConjOrNone("FirstSet", FirstRow(s, n), shape.primary),
       secondary      |-> Direct("SecondSet", SecondRow(s, n), shape.secondary),
       secondary_conj |-> ConjOrNone("SecondSet", SecondRow(s, n), shape.secondary)]

(* What the server must reply, part by part.                               *)
Answer(s) == [j \in 0..(CTXT_PARTS - 1) |-> Part(s, j)]

(* What each phase has established for an occupied batch slot.             *)
SlotInv(b) ==
  /\ phase # "idle" => want[b] \in 0..(NumEntries(b) - 1)
  /\ phase = "sent" => wire[b] = enc_double_pir(want[b], Shape(b), NumEntries(b))
  /\ phase \in {"unpacked", "primary_done"} =>
       unpacked[b] = Unpacked(want[b], NumEntries(b))
  /\ phase = "primary_done" => parts[b] = primary_results(NumEntries(b), unpacked[b])
  /\ phase = "replied" => reply[b] = Answer(want[b])
  /\ phase = "decoded" => got[b] = want[b]

(* The inductive invariant.                                                *)
Inv ==
  /\ HonestBatch(batch)
  /\ phase \in {"idle", "sent", "unpacked", "primary_done", "replied", "decoded"}
  /\ \A b \in batch.asked : SlotInv(b)

----------------------------------------------------------------------------
(* Selectors.                                                              *)

(* The exponents of neighbouring rows differ by at least one.              *)
LEMMA BasePower ==
  ASSUME NEW g, GoodGroup(g)
  PROVE  query_base_power(g) \in Nat \ {0}
<1>1. PICK a \in Nat : a = N \div 2
  BY Sizes
<1>2. PICK c \in Nat \ {0} : c = loop_len(g) /\ c <= a
  BY <1>1 DEF GoodGroup
<1>3. a \div c \in Nat /\ a = c * (a \div c) + (a % c) /\ a % c \in 0..(c - 1)
  BY DivBounds
<1>4. PICK x \in Nat : x = a \div c
  BY <1>3
<1>5. PICK r \in 0..(c - 1) : r = a % c
  BY <1>3
<1>6. x # 0
  <2> SUFFICES ASSUME x = 0 PROVE FALSE
    OBVIOUS
  <2>1. c * x = 0
    OBVIOUS
  <2> QED BY <1>2, <1>3, <1>4, <1>5, <2>1
<1> QED BY <1>1, <1>2, <1>4, <1>6 DEF query_base_power

(* A base-level database returns the row its selector was made for.        *)
LEMMA RowOfSelector ==
  ASSUME NEW g, GoodGroup(g), NEW set, NEW i \in 0..(group_order(g) - 1)
  PROVE  Row(g, set, Direct(set, i, g), ConjOrNone(set, i, g)) = i
<1>1. PICK p \in Nat \ {0} : p = query_base_power(g)
  BY BasePower
<1>2. group_order(g) \in Nat /\ i \in Nat
  BY Sizes DEF GoodGroup, group_order
<1>3. PICK e \in Nat : e = i * p
  BY <1>2
<1>4. e % p = 0 /\ e \div p = i
  <2>1. e = p * i + 0 /\ 0 \in 0..(p - 1)
    BY <1>2, <1>3
  <2> QED BY <1>2, <2>1, DivUnique
<1>5. PICK ct : ct = Direct(set, i, g)
  OBVIOUS
<1>6. ct.seeds = set /\ ct.conj = FALSE /\ ct.exp = e
  BY <1>1, <1>3, <1>5 DEF Direct, Ciphertext
<1>7. requires_conj(g) => ConjOrNone(set, i, g) = Ciphertext(set, 2 * N - ct.exp, TRUE)
  BY <1>1, <1>3, <1>6 DEF ConjOrNone, Conjugate
<1>8. ct.exp \div query_base_power(g) < group_order(g) /\ ct.exp % query_base_power(g) = 0
  BY <1>1, <1>2, <1>4, <1>6
<1>9. Row(g, set, ct, ConjOrNone(set, i, g)) = ct.exp \div query_base_power(g)
  BY <1>6, <1>7, <1>8 DEF Row
<1> QED BY <1>1, <1>4, <1>5, <1>6, <1>9

(* The ciphertexts of a selector on the wire.                              *)
IsSelector(x, set, i, g) ==
  /\ x \in Seq(Ciphertexts)
  /\ Len(x) = IF requires_conj(g) THEN 2 ELSE 1
  /\ x[1] = Direct(set, i, g)
  /\ requires_conj(g) => x[2] = Conjugate(set, i, g)

(* A client's selector has that layout.                                    *)
LEMMA SelectorLayout ==
  ASSUME NEW set \in {"FirstSet", "SecondSet"}, NEW i \in Nat, NEW g, GoodGroup(g)
  PROVE  IsSelector(Selector(set, i, g), set, i, g)
<1>1. PICK e \in Nat : e = i * query_base_power(g)
  BY BasePower
<1>2. PICK x \in Ciphertexts : x = Ciphertext(set, e, FALSE)
  <2>1. Ciphertext(set, e, FALSE) \in Ciphertexts
    BY DEF Ciphertexts, Ciphertext
  <2> QED BY <2>1, Zenon
<1>3. PICK y \in Ciphertexts : y = Ciphertext(set, 2 * N - e, TRUE)
  <2>0. 2 * N - e \in Int
    BY Sizes
  <2>1. PICK f \in Int : f = 2 * N - e
    BY <2>0, Zenon
  <2>2. Ciphertext(set, f, TRUE) \in Ciphertexts
    BY DEF Ciphertexts, Ciphertext
  <2> QED BY <2>1, <2>2, Zenon
<1>4. x = Direct(set, i, g) /\ y = Conjugate(set, i, g)
  BY <1>1, <1>2, <1>3 DEF Direct, Conjugate
<1>5. Selector(set, i, g) = <<x>> \o IF requires_conj(g) THEN <<y>> ELSE <<>>
  BY <1>1, <1>2, <1>3 DEF Selector
<1>6. <<x>> \in Seq(Ciphertexts) /\ <<y>> \in Seq(Ciphertexts) /\ <<>> \in Seq(Ciphertexts)
  OBVIOUS
<1>7. CASE requires_conj(g)
  <2>1. Selector(set, i, g) = <<x>> \o <<y>>
    BY <1>5, <1>7
  <2>2. PICK u \in Seq(Ciphertexts) : u = <<x>> /\ Len(u) = 1 /\ u[1] = x
    BY <1>6
  <2>3. PICK v \in Seq(Ciphertexts) : v = <<y>> /\ Len(v) = 1 /\ v[1] = y
    BY <1>6
  <2>4. /\ u \o v \in Seq(Ciphertexts) /\ Len(u \o v) = Len(u) + Len(v)
        /\ \A j \in 1..(Len(u) + Len(v)) :
             (u \o v)[j] = IF j <= Len(u) THEN u[j] ELSE v[j - Len(u)]
    BY ConcatProperties, Zenon
  <2>5. Len(u \o v) = 2 /\ (u \o v)[1] = x /\ (u \o v)[2] = y
    BY <2>2, <2>3, <2>4
  <2>6. Selector(set, i, g) = u \o v
    BY <2>1, <2>2, <2>3
  <2> QED BY <1>4, <1>7, <2>4, <2>5, <2>6 DEF IsSelector
<1>8. CASE ~requires_conj(g)
  <2>1. Selector(set, i, g) = <<x>> \o <<>>
    BY <1>5, <1>8
  <2>2. <<x>> \o <<>> = <<x>>
    BY <1>6, ConcatEmptySeq
  <2> QED BY <1>4, <1>6, <1>8, <2>1, <2>2 DEF IsSelector
<1> QED BY <1>7, <1>8

(* A function on 1..n is a sequence of length n.                           *)
LEMMA FunctionIsSeq ==
  ASSUME NEW S, NEW n \in Nat, NEW f \in [1..n -> S]
  PROVE  f \in Seq(S) /\ Len(f) = n
<1>1. f \in Seq(S)
  BY SeqDef
<1>2. DOMAIN f = 1..n /\ DOMAIN f = 1..Len(f) /\ Len(f) \in Nat
  BY <1>1, LenProperties
<1> QED BY <1>1, <1>2

(* The places of three sequences in their concatenation.                   *)
LEMMA ThreeParts ==
  ASSUME NEW S, NEW k \in Seq(S), NEW a \in Seq(S), NEW b \in Seq(S)
  PROVE  /\ Len(k) \in Nat /\ Len(a) \in Nat /\ Len(b) \in Nat
         /\ Len((k \o a) \o b) = Len(k) + Len(a) + Len(b)
         /\ \A i \in 1..Len(a) : ((k \o a) \o b)[Len(k) + i] = a[i]
         /\ \A i \in 1..Len(b) : ((k \o a) \o b)[Len(k) + Len(a) + i] = b[i]
<1>1. Len(k) \in Nat /\ Len(a) \in Nat /\ Len(b) \in Nat
  BY LenProperties
<1>2. /\ k \o a \in Seq(S) /\ Len(k \o a) = Len(k) + Len(a)
      /\ \A i \in 1..(Len(k) + Len(a)) :
           (k \o a)[i] = IF i <= Len(k) THEN k[i] ELSE a[i - Len(k)]
  BY ConcatProperties, Zenon
<1>3. PICK c \in Seq(S) : c = k \o a
  BY <1>2, Zenon
<1>4. /\ c \o b \in Seq(S) /\ Len(c \o b) = Len(c) + Len(b)
      /\ \A i \in 1..(Len(c) + Len(b)) :
           (c \o b)[i] = IF i <= Len(c) THEN c[i] ELSE b[i - Len(c)]
  BY ConcatProperties, Zenon
<1>5. Len(c) = Len(k) + Len(a) /\ \A i \in 1..Len(a) : c[Len(k) + i] = a[i]
  BY <1>1, <1>2, <1>3
<1>6. PICK d : d = c \o b
  OBVIOUS
<1>7. \A i \in 1..Len(a) : d[Len(k) + i] = a[i]
  BY <1>1, <1>4, <1>5, <1>6
<1>8. \A i \in 1..Len(b) : d[Len(k) + Len(a) + i] = b[i]
  <2> TAKE i \in 1..Len(b)
  <2>1. Len(c) + i \in 1..(Len(c) + Len(b)) /\ ~(Len(c) + i <= Len(c)) /\ Len(c) + i - Len(c) = i
    BY <1>1, <1>5
  <2>2. d[Len(c) + i] = b[Len(c) + i - Len(c)]
    BY <1>4, <1>6, <2>1
  <2> QED BY <1>5, <2>1, <2>2
<1> QED BY <1>1, <1>3, <1>4, <1>5, <1>6, <1>7, <1>8

----------------------------------------------------------------------------
(* A client's query.                                                       *)

(* The index groups of an accepted entry count are good ones.              *)
LEMMA GroupsOf ==
  ASSUME NEW n \in EntryCounts
  PROVE  /\ n \in Nat \ {0}
         /\ get_database_shape(n).primary = index_group_primary(n)
         /\ get_database_shape(n).secondary = choose_index_group_secondary(num_databases(n))
         /\ GoodGroup(get_database_shape(n).primary)
         /\ GoodGroup(get_database_shape(n).secondary)
         /\ num_databases(n) \in Nat \ {0} /\ entries_per_shard(n) \in Nat \ {0}
         /\ group_order(get_database_shape(n).primary) \in Nat \ {0}
         /\ group_order(get_database_shape(n).secondary) \in Nat \ {0}
         /\ entries_per_shard(n) = SIMD_COUNT * group_order(get_database_shape(n).primary)
         /\ num_databases(n) * SIMD_COUNT <= group_order(get_database_shape(n).secondary)
<1>1. n \in Nat \ {0}
  BY Sizes DEF EntryCounts
<1>2. /\ get_database_shape(n).primary = index_group_primary(n)
      /\ get_database_shape(n).secondary = choose_index_group_secondary(num_databases(n))
  BY DEF get_database_shape
<1>3. N \div SIMD_COUNT \in Nat
  BY Sizes, DivBounds
<1>4. PICK d \in 1..(N \div SIMD_COUNT) : d = num_databases(n)
  BY ShardCount
<1>5. /\ GoodGroup(choose_index_group_secondary(d))
      /\ d * SIMD_COUNT <= group_order(choose_index_group_secondary(d))
  BY SecondaryGroup
<1>6. group_order(choose_index_group_secondary(d)) \in Nat \ {0}
  BY <1>5, Sizes DEF GoodGroup, group_order
<1> QED BY <1>1, <1>2, <1>3, <1>4, <1>5, <1>6, PrimaryGroup

(* The rows a slot is found in exist.                                      *)
LEMMA RowsOfSlot ==
  ASSUME NEW n \in EntryCounts, NEW s \in 0..(n - 1)
  PROVE  /\ FirstRow(s, n) \in 0..(group_order(get_database_shape(n).primary) - 1)
         /\ SecondRow(s, n) \in 0..(num_databases(n) * SIMD_COUNT - 1)
         /\ SecondRow(s, n) \in 0..(group_order(get_database_shape(n).secondary) - 1)
         /\ SecondRow(s, n) \div SIMD_COUNT = slot(s, n).secondary
         /\ FirstRow(s, n) * SIMD_COUNT + (SecondRow(s, n) % SIMD_COUNT) = slot(s, n).primary
<1>1. PICK S \in Nat \ {0} : S = SIMD_COUNT
  BY Sizes
<1>2. PICK o \in Nat \ {0} : o = group_order(get_database_shape(n).primary)
  BY GroupsOf
<1>3. PICK d \in Nat \ {0} : d = num_databases(n)
  BY GroupsOf
<1>4. PICK x \in Nat : x = slot(s, n).primary /\ x < S * o
  BY <1>1, <1>2, GroupsOf, SlotInShape
<1>5. PICK y \in Nat : y = slot(s, n).secondary /\ y < d
  BY <1>3, SlotInShape
<1>6. PICK f \in Nat : f = x \div S
  BY DivBounds
<1>7. PICK r \in 0..(S - 1) : r = x % S /\ x = S * f + r
  BY <1>6, DivBounds
<1>8. f < o
  <2>1. f * S < o * S
    <3>1. f * S = S * f /\ o * S = S * o
      OBVIOUS
    <3> QED BY <1>4, <1>7, <3>1
  <2> QED BY <2>1, MulCancel
<1>9. PICK z \in Nat : z = S * y + r
  BY <1>7
<1>10. z \div S = y /\ z % S = r
  BY <1>9, DivUnique
<1>11. z < d * S
  <2>1. (y + 1) * S <= d * S
    BY <1>5, MulMono
  <2>2. (y + 1) * S = S * y + S
    OBVIOUS
  <2> QED BY <1>7, <1>9, <2>1, <2>2
<1>12. FirstRow(s, n) = f /\ SecondRow(s, n) = z
  <2>1. y * S = S * y
    OBVIOUS
  <2> QED BY <1>1, <1>4, <1>5, <1>6, <1>7, <1>9, <2>1 DEF FirstRow, SecondRow
<1>13. f * S = S * f
  OBVIOUS
<1>14. z \in 0..(d * S - 1) /\ f \in 0..(o - 1) /\ d * S \in Nat
  BY <1>8, <1>11
<1>15. z \in 0..(group_order(get_database_shape(n).secondary) - 1)
  <2>1. PICK w \in Nat : w = group_order(get_database_shape(n).secondary) /\ d * S <= w
    BY <1>1, <1>3, GroupsOf
  <2> QED BY <1>14, <2>1
<1> QED BY <1>1, <1>2, <1>3, <1>4, <1>5, <1>7, <1>10, <1>12, <1>13, <1>14, <1>15

(* The assertions of prepare_query hold for every slot of the fleet.       *)
LEMMA QueryAccepted ==
  ASSUME NEW n \in EntryCounts, NEW s \in 0..(n - 1)
  PROVE  enc_asserts(s, get_database_shape(n), n)
<1>1. shape_asserts(n)
  BY ShapeAccepted
<1>2. slot(s, n).primary < group_order(get_database_shape(n).primary) * SIMD_COUNT
  <2>1. PICK o \in Nat \ {0} : o = group_order(get_database_shape(n).primary)
    BY GroupsOf
  <2>2. PICK S \in Nat \ {0} : S = SIMD_COUNT
    BY Sizes
  <2>3. entries_per_shard(n) = S * o /\ S * o = o * S /\ S * o \in Nat
    BY <2>1, <2>2, GroupsOf
  <2> QED BY <2>1, <2>2, <2>3, SlotInShape
<1> QED BY <1>1, <1>2, SlotInShape DEF enc_asserts

(* The layout of a query: c1 and c2 ciphertexts select the two rows.       *)
IsQuery(q, s, n, c1, c2) ==
  LET shape == get_database_shape(n)
  IN  /\ Len(q) = GK_DIGITS + c1 + c2
      /\ q[GK_DIGITS + 1] = Direct("FirstSet", FirstRow(s, n), shape.primary)
      /\ c1 = 2 => q[GK_DIGITS + 2] = Conjugate("FirstSet", FirstRow(s, n), shape.primary)
      /\ q[GK_DIGITS + c1 + 1] = Direct("SecondSet", SecondRow(s, n), shape.secondary)
      /\ c2 = 2 => q[GK_DIGITS + c1 + 2] =
                     Conjugate("SecondSet", SecondRow(s, n), shape.secondary)

(* A client's query has that layout.                                       *)
LEMMA QueryLayout ==
  ASSUME NEW n \in EntryCounts, NEW s \in 0..(n - 1),
         NEW q, q = enc_double_pir(s, get_database_shape(n), n),
         NEW c1 \in 1..2, c1 = IF requires_conj(get_database_shape(n).primary) THEN 2 ELSE 1,
         NEW c2 \in 1..2, c2 = IF requires_conj(get_database_shape(n).secondary) THEN 2 ELSE 1
  PROVE  IsQuery(q, s, n, c1, c2)
<1>1. PICK g1 : g1 = get_database_shape(n).primary /\ GoodGroup(g1)
  BY GroupsOf
<1>2. PICK g2 : g2 = get_database_shape(n).secondary /\ GoodGroup(g2)
  BY GroupsOf
<1>3. PICK i \in Nat : i = FirstRow(s, n)
  BY RowsOfSlot, GroupsOf
<1>4. PICK j \in Nat : j = SecondRow(s, n)
  BY RowsOfSlot, GroupsOf
<1>5. /\ Selector("FirstSet", i, g1) \in Seq(Ciphertexts)
      /\ Len(Selector("FirstSet", i, g1)) = c1
      /\ Selector("FirstSet", i, g1)[1] = Direct("FirstSet", i, g1)
      /\ c1 = 2 => Selector("FirstSet", i, g1)[2] = Conjugate("FirstSet", i, g1)
  <2>1. PICK set \in {"FirstSet", "SecondSet"} : set = "FirstSet"
    OBVIOUS
  <2>2. IsSelector(Selector(set, i, g1), set, i, g1)
    BY <1>1, SelectorLayout
  <2> QED BY <1>1, <2>1, <2>2 DEF IsSelector
<1>6. /\ Selector("SecondSet", j, g2) \in Seq(Ciphertexts)
      /\ Len(Selector("SecondSet", j, g2)) = c2
      /\ Selector("SecondSet", j, g2)[1] = Direct("SecondSet", j, g2)
      /\ c2 = 2 => Selector("SecondSet", j, g2)[2] = Conjugate("SecondSet", j, g2)
  <2>1. PICK set \in {"FirstSet", "SecondSet"} : set = "SecondSet"
    OBVIOUS
  <2>2. IsSelector(Selector(set, j, g2), set, j, g2)
    BY <1>2, SelectorLayout
  <2> QED BY <1>2, <2>1, <2>2 DEF IsSelector
<1>7. GaloisKeys \in Seq(Ciphertexts) /\ Len(GaloisKeys) = GK_DIGITS /\ GK_DIGITS \in Nat
  <2>1. GK_DIGITS \in Nat
    BY ParameterAssumption
  <2>2. Ciphertext("FirstSet", 5, FALSE) \in Ciphertexts
    BY DEF Ciphertexts, Ciphertext
  <2>3. GaloisKeys \in [1..GK_DIGITS -> Ciphertexts]
    BY <2>2 DEF GaloisKeys
  <2> QED BY <2>1, <2>3, FunctionIsSeq
<1>8. PICK k \in Seq(Ciphertexts) : k = GaloisKeys
  BY <1>7, Zenon
<1>9. PICK a \in Seq(Ciphertexts) : a = Selector("FirstSet", i, g1)
  BY <1>5, Zenon
<1>10. PICK b \in Seq(Ciphertexts) : b = Selector("SecondSet", j, g2)
  BY <1>6, Zenon
<1>11. q = (k \o a) \o b
  BY <1>1, <1>2, <1>3, <1>4, <1>8, <1>9, <1>10 DEF enc_double_pir, FirstRow, SecondRow
<1>12. /\ Len(q) = Len(k) + Len(a) + Len(b)
       /\ \A x \in 1..Len(a) : q[Len(k) + x] = a[x]
       /\ \A x \in 1..Len(b) : q[Len(k) + Len(a) + x] = b[x]
  <2>1. /\ Len((k \o a) \o b) = Len(k) + Len(a) + Len(b)
        /\ \A x \in 1..Len(a) : ((k \o a) \o b)[Len(k) + x] = a[x]
        /\ \A x \in 1..Len(b) : ((k \o a) \o b)[Len(k) + Len(a) + x] = b[x]
    BY ThreeParts, SMT
  <2> QED BY <1>11, <2>1, Zenon
<1>13. Len(k) = GK_DIGITS /\ Len(a) = c1 /\ Len(b) = c2 /\ GK_DIGITS \in Nat
  BY <1>5, <1>6, <1>7, <1>8, <1>9, <1>10
<1>p. /\ \A x \in 1..c1 : q[GK_DIGITS + x] = a[x]
      /\ \A x \in 1..c2 : q[GK_DIGITS + c1 + x] = b[x]
  BY <1>12, <1>13, Zenon
<1>14. /\ q[GK_DIGITS + 1] = a[1]
       /\ c1 = 2 => q[GK_DIGITS + 2] = a[2]
  <2>1. 1 \in 1..c1 /\ (c1 = 2 => 2 \in 1..c1)
    OBVIOUS
  <2> QED BY <1>p, <2>1, Zenon
<1>15. /\ q[GK_DIGITS + c1 + 1] = b[1]
       /\ c2 = 2 => q[GK_DIGITS + c1 + 2] = b[2]
  <2>1. 1 \in 1..c2 /\ (c2 = 2 => 2 \in 1..c2)
    OBVIOUS
  <2> QED BY <1>p, <2>1, Zenon
<1> QED
  BY <1>1, <1>2, <1>3, <1>4, <1>5, <1>6, <1>9, <1>10, <1>12, <1>13, <1>14, <1>15 DEF IsQuery

----------------------------------------------------------------------------
(* The server's side of an honest batch.                                   *)

(* The groups the server derives are those of every client in the batch.   *)
LEMMA ServerGroups ==
  ASSUME HonestBatch(batch), NEW b \in batch.asked
  PROVE  /\ b \in BatchSlots /\ b \in Nat /\ b < BATCH_COUNT
         /\ 0 \in BatchSlots /\ 1 \in BatchSlots
         /\ NumEntries(b) \in EntryCounts
         /\ ServerPrimary = get_database_shape(NumEntries(b)).primary
         /\ ServerSecondary = get_database_shape(NumEntries(b)).secondary
<1>1. BATCH_COUNT \in Nat /\ BATCH_COUNT >= 2
  BY PackingAssumption
<1>2. PICK k \in 1..BATCH_COUNT : batch.asked = 0..(k - 1)
  BY DEF HonestBatch
<1>3. b \in BatchSlots /\ b \in Nat /\ b < BATCH_COUNT /\ 0 \in BatchSlots /\ 1 \in BatchSlots
  BY <1>1, <1>2 DEF BatchSlots
<1>4. NumEntries(b) \in EntryCounts /\ NumEntries(0) \in EntryCounts
  BY <1>3 DEF HonestBatch, NumEntries
<1>5. get_database_shape(NumEntries(b)) = get_database_shape(NumEntries(0))
  BY DEF HonestBatch, NumEntries
<1>6. /\ ServerPrimary = get_database_shape(NumEntries(0)).primary
      /\ ServerSecondary = get_database_shape(NumEntries(0)).secondary
  BY <1>4, GroupsOf DEF ServerPrimary, ServerSecondary, DatabasesLen
<1> QED BY <1>3, <1>4, <1>5, <1>6

(* The server reads the whole of a client's query, and reads in it what    *)
(* the client put there.                                                   *)
LEMMA QueryUnpacked ==
  ASSUME HonestBatch(batch), NEW b \in batch.asked, NEW s \in 0..(NumEntries(b) - 1),
         NEW q, q = enc_double_pir(s, Shape(b), NumEntries(b))
  PROVE  Len(q) = SectionsRead /\ unpack(q) = Unpacked(s, NumEntries(b))
<1>1. PICK n \in EntryCounts : n = NumEntries(b)
  BY ServerGroups
<1>2. PICK g1 : g1 = get_database_shape(n).primary /\ g1 = ServerPrimary
  BY <1>1, ServerGroups
<1>3. PICK g2 : g2 = get_database_shape(n).secondary /\ g2 = ServerSecondary
  BY <1>1, ServerGroups
<1>4. PICK c1 \in 1..2 : c1 = IF requires_conj(g1) THEN 2 ELSE 1
  OBVIOUS
<1>5. PICK c2 \in 1..2 : c2 = IF requires_conj(g2) THEN 2 ELSE 1
  OBVIOUS
<1>6. q = enc_double_pir(s, get_database_shape(n), n) /\ s \in 0..(n - 1)
  BY <1>1 DEF Shape
<1>7. /\ Len(q) = GK_DIGITS + c1 + c2
      /\ q[GK_DIGITS + 1] = Direct("FirstSet", FirstRow(s, n), g1)
      /\ c1 = 2 => q[GK_DIGITS + 2] = Conjugate("FirstSet", FirstRow(s, n), g1)
      /\ q[GK_DIGITS + c1 + 1] = Direct("SecondSet", SecondRow(s, n), g2)
      /\ c2 = 2 => q[GK_DIGITS + c1 + 2] = Conjugate("SecondSet", SecondRow(s, n), g2)
  <2>1. c1 = IF requires_conj(get_database_shape(n).primary) THEN 2 ELSE 1
    BY <1>2, <1>4, Zenon
  <2>2. c2 = IF requires_conj(get_database_shape(n).secondary) THEN 2 ELSE 1
    BY <1>3, <1>5, Zenon
  <2>3. IsQuery(q, s, n, c1, c2)
    BY <1>6, <2>1, <2>2, QueryLayout
  <2> QED BY <1>2, <1>3, <2>3 DEF IsQuery
<1>8. GK_DIGITS \in Nat
  BY ParameterAssumption
<1>9. Len(q) = SectionsRead
  BY <1>2, <1>3, <1>4, <1>5, <1>7, <1>8 DEF SectionsRead
<1>10. PICK q1 \in Nat : q1 = GK_DIGITS + 1
  BY <1>8
<1>11. PICK q2 \in Nat : q2 = q1 + c1
  BY <1>10
<1>12. q2 = q1 + (IF requires_conj(g1) THEN 2 ELSE 1)
  BY <1>4, <1>11
<1>13. /\ q[q1] = Direct("FirstSet", FirstRow(s, n), g1)
       /\ requires_conj(g1) => q[q1 + 1] = Conjugate("FirstSet", FirstRow(s, n), g1)
       /\ q[q2] = Direct("SecondSet", SecondRow(s, n), g2)
       /\ requires_conj(g2) => q[q2 + 1] = Conjugate("SecondSet", SecondRow(s, n), g2)
  <2>1. q1 + 1 = GK_DIGITS + 2 /\ q2 = GK_DIGITS + c1 + 1 /\ q2 + 1 = GK_DIGITS + c1 + 2
    BY <1>8, <1>10, <1>11
  <2>2. (requires_conj(g1) => c1 = 2) /\ (requires_conj(g2) => c2 = 2)
    BY <1>4, <1>5
  <2> QED BY <1>7, <1>10, <2>1, <2>2
<1>14. unpack(q) =
         [primary        |-> q[q1],
          primary_conj   |-> IF requires_conj(g1) THEN q[q1 + 1] ELSE None,
          secondary      |-> q[q2],
          secondary_conj |-> IF requires_conj(g2) THEN q[q2 + 1] ELSE None]
  BY <1>2, <1>3, <1>10, <1>12, Zenon DEF unpack
<1>15. Unpacked(s, n) =
         [primary        |-> Direct("FirstSet", FirstRow(s, n), g1),
          primary_conj   |-> ConjOrNone("FirstSet", FirstRow(s, n), g1),
          secondary      |-> Direct("SecondSet", SecondRow(s, n), g2),
          secondary_conj |-> ConjOrNone("SecondSet", SecondRow(s, n), g2)]
  BY <1>2, <1>3, Zenon DEF Unpacked
<1>16. /\ ConjOrNone("FirstSet", FirstRow(s, n), g1) =
            IF requires_conj(g1) THEN q[q1 + 1] ELSE None
       /\ ConjOrNone("SecondSet", SecondRow(s, n), g2) =
            IF requires_conj(g2) THEN q[q2 + 1] ELSE None
  BY <1>13 DEF ConjOrNone
<1> QED BY <1>1, <1>9, <1>13, <1>14, <1>15, <1>16

(* The selectors in what the server unpacks.                               *)
LEMMA UnpackedFields ==
  ASSUME NEW n, NEW s
  PROVE  /\ Unpacked(s, n).primary =
              Direct("FirstSet", FirstRow(s, n), get_database_shape(n).primary)
         /\ Unpacked(s, n).primary_conj =
              ConjOrNone("FirstSet", FirstRow(s, n), get_database_shape(n).primary)
         /\ Unpacked(s, n).secondary =
              Direct("SecondSet", SecondRow(s, n), get_database_shape(n).secondary)
         /\ Unpacked(s, n).secondary_conj =
              ConjOrNone("SecondSet", SecondRow(s, n), get_database_shape(n).secondary)
  BY DEF Unpacked

(* The first level: position SecondRow of the results holds the parts of   *)
(* the entry asked for.                                                    *)
LEMMA FirstLevel ==
  ASSUME NEW n \in EntryCounts, NEW s \in 0..(n - 1), NEW j \in 0..(CTXT_PARTS - 1)
  PROVE  primary_results(n, Unpacked(s, n))[SecondRow(s, n)][j] = Part(s, j)
<1>1. PICK g : g = get_database_shape(n).primary /\ g = index_group_primary(n) /\ GoodGroup(g)
  BY GroupsOf
<1>2. PICK i \in 0..(group_order(g) - 1) : i = FirstRow(s, n)
  BY <1>1, RowsOfSlot
<1>3. PICK z \in 0..(num_databases(n) * SIMD_COUNT - 1) : z = SecondRow(s, n)
  BY RowsOfSlot
<1>4. PICK u : u = Unpacked(s, n)
  OBVIOUS
<1>5. u.primary = Direct("FirstSet", i, g) /\ u.primary_conj = ConjOrNone("FirstSet", i, g)
  BY <1>1, <1>2, <1>4, UnpackedFields
<1>6. Row(index_group_primary(n), "FirstSet", u.primary, u.primary_conj) = i
  BY <1>1, <1>5, RowOfSelector
<1>7. i \in Nat /\ i # Garbage
  <2>1. group_order(g) \in Nat
    BY <1>1, GroupsOf
  <2> QED BY <2>1, ClientAssumption
<1>8. Entry(n, z \div SIMD_COUNT, i * SIMD_COUNT + (z % SIMD_COUNT)) = s
  <2>1. z \div SIMD_COUNT = slot(s, n).secondary
    BY <1>3, RowsOfSlot
  <2>2. i * SIMD_COUNT + (z % SIMD_COUNT) = slot(s, n).primary
    BY <1>2, <1>3, RowsOfSlot
  <2>3. slot(s, n).secondary * entries_per_shard(n) + slot(s, n).primary = s
    BY SlotInShape
  <2>4. n \in Nat /\ s < n
    BY GroupsOf
  <2>5. Entry(n, slot(s, n).secondary, slot(s, n).primary) = s
    BY <2>3, <2>4 DEF Entry
  <2> QED BY <2>1, <2>2, <2>5
<1>9. primary_results(n, u)[z][j] =
        Part(IF i = Garbage THEN Garbage
             ELSE Entry(n, z \div SIMD_COUNT, i * SIMD_COUNT + (z % SIMD_COUNT)), j)
  BY <1>6, Zenon DEF primary_results
<1> QED BY <1>3, <1>4, <1>7, <1>8, <1>9

(* The second level: the lanes of a batch slot carry the parts of the      *)
(* entry its client asked for, whatever the buffer held before.            *)
LEMMA SecondLevel ==
  ASSUME HonestBatch(batch), NEW b \in batch.asked, NEW s \in 0..(NumEntries(b) - 1),
         unpacked[b] = Unpacked(s, NumEntries(b)),
         parts[b] = primary_results(NumEntries(b), unpacked[b]),
         NEW j \in 0..(CTXT_PARTS - 1), NEW mem, mem = set_db(memory)
  PROVE  lane(mem, b * CTXT_PARTS + j) = Part(s, j)
<1>1. PICK n \in EntryCounts : n = NumEntries(b)
  BY ServerGroups
<1>2. PICK C \in Nat \ {0} : C = CTXT_PARTS
  BY PackingAssumption
<1>3. b \in Nat /\ b < BATCH_COUNT /\ BATCH_COUNT \in Nat /\ j \in 0..(C - 1)
  BY <1>2, ServerGroups, PackingAssumption
<1>4. PICK i \in Nat : i = b * CTXT_PARTS + j
  BY <1>2, <1>3
<1>5. i \div C = b /\ i % C = j
  <2>1. i = C * b + j
    BY <1>2, <1>3, <1>4
  <2> QED BY <1>3, <2>1, DivUnique
<1>6. i < C * BATCH_COUNT /\ i \in Lanes
  <2>1. (b + 1) * C <= BATCH_COUNT * C
    BY <1>3, MulMono
  <2>2. (b + 1) * C = b * C + C /\ BATCH_COUNT * C = C * BATCH_COUNT
    BY <1>3
  <2>3. i < C * BATCH_COUNT
    BY <1>2, <1>3, <1>4, <2>1, <2>2
  <2>4. C * BATCH_COUNT <= SIMD_COUNT /\ C * BATCH_COUNT \in Nat /\ SIMD_COUNT \in Nat
    BY <1>2, <1>3, PackingAssumption, Sizes
  <2> QED BY <2>3, <2>4 DEF Lanes
<1>7. PICK g : g = get_database_shape(n).secondary /\ g = ServerSecondary /\ GoodGroup(g)
  BY <1>1, ServerGroups, GroupsOf
<1>8. PICK z \in 0..(group_order(g) - 1) : z = SecondRow(s, n)
  BY <1>1, <1>7, RowsOfSlot
<1>9. Row(ServerSecondary, "SecondSet", unpacked[b].secondary, unpacked[b].secondary_conj) = z
  <2>1. PICK u : u = unpacked[b] /\ u = Unpacked(s, n)
    BY <1>1
  <2>2. /\ u.secondary = Direct("SecondSet", z, g)
        /\ u.secondary_conj = ConjOrNone("SecondSet", z, g)
    <3>1. /\ Unpacked(s, n).secondary = Direct("SecondSet", SecondRow(s, n), g)
          /\ Unpacked(s, n).secondary_conj = ConjOrNone("SecondSet", SecondRow(s, n), g)
      <4>1. g = get_database_shape(n).secondary
        BY <1>7
      <4> QED BY <4>1, UnpackedFields, Zenon
    <3> QED BY <1>8, <2>1, <3>1, Zenon
  <2> QED BY <1>7, <2>1, <2>2, RowOfSelector
<1>10. z \in Nat /\ z # Garbage
  <2>1. group_order(g) \in Nat
    BY <1>7, GroupsOf
  <2> QED BY <2>1, ClientAssumption
<1>11. z \in Rows /\ mem[z] = secondary_row(z)
  BY <1>7, <1>8 DEF Rows, set_db
<1>12. z < SIMD_COUNT * DatabasesLen(b)
  <2>1. PICK d \in Nat : d = DatabasesLen(b) /\ d = num_databases(n)
    BY <1>1, GroupsOf DEF DatabasesLen
  <2>2. PICK S \in Nat : S = SIMD_COUNT
    BY Sizes
  <2>3. z \in 0..(d * S - 1) /\ d * S = S * d /\ d * S \in Nat
    BY <1>1, <1>8, <2>1, <2>2, RowsOfSlot
  <2> QED BY <2>1, <2>2, <2>3
<1>13. secondary_row(z)[i] = parts[b][z][j]
  <2>1. secondary_row(z)[i] =
          IF i < CTXT_PARTS * BATCH_COUNT /\ z < SIMD_COUNT * DatabasesLen(i \div CTXT_PARTS)
             /\ Asked(i \div CTXT_PARTS)
          THEN parts[i \div CTXT_PARTS][z][i % CTXT_PARTS]
          ELSE Zero
    BY <1>6, Zenon DEF secondary_row
  <2>2. i \div CTXT_PARTS = b /\ i % CTXT_PARTS = j /\ i < CTXT_PARTS * BATCH_COUNT
    BY <1>2, <1>5, <1>6
  <2> QED BY <1>12, <2>1, <2>2, Zenon DEF Asked
<1>14. parts[b][z][j] = Part(s, j)
  BY <1>1, <1>8, FirstLevel
<1>15. lane(mem, i) = mem[z][i]
  <2>1. i \div CTXT_PARTS = b
    BY <1>2, <1>5
  <2> QED BY <1>9, <1>10, <2>1, Zenon DEF lane
<1> QED BY <1>4, <1>11, <1>13, <1>14, <1>15

(* What the client decodes from the parts of an entry is the entry.        *)
LEMMA Decoded ==
  ASSUME NEW s \in Nat
  PROVE  dec_double_pir(Answer(s)) = s
<1>1. CTXT_PARTS \in Nat /\ 0 \in 0..(CTXT_PARTS - 1)
  BY PackingAssumption
<1>2. PICK r : r = Answer(s)
  OBVIOUS
<1>3. DOMAIN r = 0..(CTXT_PARTS - 1) /\ \A j \in 0..(CTXT_PARTS - 1) : r[j] = Part(s, j)
  BY <1>2 DEF Answer
<1>4. ASSUME NEW j \in Nat PROVE Part(s, j) \in [entry : Nat, part : Nat]
  BY DEF Part
<1>5. \A j \in DOMAIN r : r[j] \notin {Garbage, Zero}
  <2> SUFFICES ASSUME NEW j \in 0..(CTXT_PARTS - 1) PROVE Part(s, j) \notin {Garbage, Zero}
    BY <1>3
  <2>1. Part(s, j) \in [entry : Nat, part : Nat]
    BY <1>1, <1>4
  <2> QED BY <2>1, ClientAssumption, Zenon
<1>6. r[0].entry = s
  BY <1>1, <1>3 DEF Part
<1>7. \A j \in DOMAIN r : r[j] = Part(r[0].entry, j)
  BY <1>3, <1>6
<1> QED BY <1>2, <1>5, <1>6, <1>7 DEF dec_double_pir

----------------------------------------------------------------------------
(* The steps of a batch.                                                   *)

(* No assertion of the client fails, and the queries go out.               *)
LEMMA PrepareInv ==
  ASSUME Inv, prepare_query
  PROVE  Inv'
<1>1. HonestBatch(batch) /\ batch' = batch
  BY DEF Inv, prepare_query
<1>2. PICK w \in [batch.asked -> UNION {SlotsOf(NumEntries(b)) : b \in batch.asked}] :
       /\ \A b \in batch.asked : w[b] \in SlotsOf(NumEntries(b))
       /\ want' = [b \in BatchSlots |-> IF Asked(b) THEN w[b] ELSE None]
       /\ IF \A b \in batch.asked : enc_asserts(w[b], Shape(b), NumEntries(b))
          THEN /\ wire' = [b \in BatchSlots |->
                    IF Asked(b) THEN enc_double_pir(w[b], Shape(b), NumEntries(b))
                                ELSE <<>>]
               /\ phase' = "sent"
          ELSE phase' = "client_panic" /\ UNCHANGED wire
  BY DEF prepare_query
<1>3. ASSUME NEW b \in batch.asked
      PROVE  /\ b \in BatchSlots /\ NumEntries(b) \in EntryCounts
             /\ w[b] \in 0..(NumEntries(b) - 1)
             /\ enc_asserts(w[b], Shape(b), NumEntries(b))
  <2>1. b \in BatchSlots /\ NumEntries(b) \in EntryCounts
    BY <1>1, ServerGroups
  <2>2. w[b] \in 0..(NumEntries(b) - 1)
    BY <1>2, <2>1, ClientAssumption
  <2>3. enc_asserts(w[b], get_database_shape(NumEntries(b)), NumEntries(b))
    BY <2>1, <2>2, QueryAccepted
  <2> QED BY <2>1, <2>2, <2>3 DEF Shape
<1>4. /\ wire' = [b \in BatchSlots |->
           IF Asked(b) THEN enc_double_pir(w[b], Shape(b), NumEntries(b)) ELSE <<>>]
      /\ phase' = "sent"
  BY <1>2, <1>3
<1>5. ASSUME NEW b \in batch.asked PROVE SlotInv(b)'
  <2>1. want'[b] = w[b] /\ wire'[b] = enc_double_pir(w[b], Shape(b), NumEntries(b))
    BY <1>2, <1>3, <1>4, <1>5 DEF Asked
  <2>2. NumEntries(b)' = NumEntries(b) /\ Shape(b)' = Shape(b)
    BY <1>1 DEF NumEntries, Shape
  <2> QED BY <1>3, <1>4, <1>5, <2>1, <2>2 DEF SlotInv
<1> QED BY <1>1, <1>4, <1>5 DEF Inv

(* The server unpacks what the clients sent, without a panic.              *)
LEMMA ProcessQueriesInv ==
  ASSUME Inv, process_queries
  PROVE  Inv'
<1>1. HonestBatch(batch) /\ batch' = batch /\ want' = want /\ phase = "sent"
  BY DEF Inv, process_queries
<1>2. ASSUME NEW b \in batch.asked
      PROVE  /\ want[b] \in 0..(NumEntries(b) - 1)
             /\ Len(wire[b]) = SectionsRead
             /\ unpack(wire[b]) = Unpacked(want[b], NumEntries(b))
  <2>1. /\ want[b] \in 0..(NumEntries(b) - 1)
        /\ wire[b] = enc_double_pir(want[b], Shape(b), NumEntries(b))
    BY <1>1, <1>2 DEF Inv, SlotInv
  <2> QED BY <1>1, <2>1, QueryUnpacked
<1>3. DatabasesLen(0) >= DatabasesLen(1) /\ secondary_asserts(DatabasesLen(0))
  <2>1. 0 \in BatchSlots /\ 1 \in BatchSlots
    BY PackingAssumption DEF BatchSlots
  <2>2. NumEntries(0) \in EntryCounts /\ NumEntries(1) \in EntryCounts
    BY <1>1, <2>1 DEF HonestBatch, NumEntries
  <2>3. secondary_asserts(num_databases(NumEntries(0)))
    BY <2>2, ShardCount, SecondaryGroup
  <2>4. num_databases(NumEntries(1)) <= num_databases(NumEntries(0))
    BY <1>1, <2>1 DEF HonestBatch, NumEntries
  <2>5. num_databases(NumEntries(1)) \in Nat /\ num_databases(NumEntries(0)) \in Nat
    BY <2>2, GroupsOf
  <2> QED BY <2>3, <2>4, <2>5 DEF DatabasesLen
<1>4. SectionsRead \in Nat
  BY ParameterAssumption DEF SectionsRead
<1>5. /\ unpacked' = [b \in BatchSlots |-> IF Asked(b) THEN unpack(wire[b]) ELSE None]
      /\ phase' = "unpacked"
  <2>1. \A b \in batch.asked : Len(wire[b]) >= SectionsRead
    BY <1>2, <1>4
  <2> QED BY <1>3, <2>1 DEF process_queries
<1>6. ASSUME NEW b \in batch.asked PROVE SlotInv(b)'
  <2>1. unpacked'[b] = unpack(wire[b])
    BY <1>1, <1>5, <1>6, ServerGroups DEF Asked
  <2>2. NumEntries(b)' = NumEntries(b)
    BY <1>1 DEF NumEntries
  <2> QED BY <1>1, <1>2, <1>5, <1>6, <2>1, <2>2 DEF SlotInv
<1> QED BY <1>1, <1>5, <1>6 DEF Inv

(* A batch slot's place among the occupied ones is its own number.         *)
LEMMA OwnRank ==
  ASSUME HonestBatch(batch), NEW b \in batch.asked
  PROVE  Rank(b) = b
<1>1. PICK k \in 1..BATCH_COUNT : batch.asked = 0..(k - 1)
  BY DEF HonestBatch
<1>2. BATCH_COUNT \in Nat
  BY PackingAssumption
<1>3. {c \in batch.asked : c < b} = 0..(b - 1) /\ b \in Nat
  BY <1>1, <1>2
<1>4. Cardinality(0..(b - 1)) = b
  BY <1>3, FS_Interval
<1> QED BY <1>3, <1>4 DEF Rank

(* The first-level pass runs, and nothing it asserts fails.                *)
LEMMA PrimaryInv ==
  ASSUME Inv, primary_phase
  PROVE  Inv'
<1>1. /\ HonestBatch(batch) /\ batch' = batch /\ want' = want /\ unpacked' = unpacked
      /\ phase = "unpacked"
  BY DEF Inv, primary_phase
<1>2. ASSUME NEW b \in batch.asked
      PROVE  /\ want[b] \in 0..(NumEntries(b) - 1)
             /\ unpacked[b] = Unpacked(want[b], NumEntries(b))
  BY <1>1, <1>2 DEF Inv, SlotInv
<1>3. ASSUME NEW b \in BatchSlots
      PROVE  DatabasesLen(b) * SIMD_COUNT <= group_order(ServerSecondary)
  <2>1. 0 \in BatchSlots
    BY PackingAssumption DEF BatchSlots
  <2>2. NumEntries(0) \in EntryCounts /\ NumEntries(b) \in EntryCounts
    BY <1>1, <2>1 DEF HonestBatch, NumEntries
  <2>3. PICK d0 \in Nat : d0 = DatabasesLen(0)
    BY <2>2, GroupsOf DEF DatabasesLen
  <2>4. PICK d \in Nat : d = DatabasesLen(b)
    BY <2>2, GroupsOf DEF DatabasesLen
  <2>5. d <= d0
    BY <1>1, <1>3, <2>3, <2>4 DEF HonestBatch, DatabasesLen, NumEntries
  <2>6. PICK o \in Nat : o = group_order(ServerSecondary) /\ d0 * SIMD_COUNT <= o
    BY <2>2, <2>3, GroupsOf DEF ServerSecondary, DatabasesLen
  <2>7. PICK S \in Nat : S = SIMD_COUNT
    BY Sizes
  <2>8. d * S <= d0 * S
    BY <2>5, MulMono
  <2> QED BY <2>4, <2>6, <2>7, <2>8
<1>4. ASSUME NEW b \in batch.asked
      PROVE  requires_conj(index_group_primary(NumEntries(b)))
               <=> unpacked[b].primary_conj # None
  <2>1. PICK n \in EntryCounts : n = NumEntries(b)
    BY <1>1, <1>4, ServerGroups
  <2>2. PICK g : g = get_database_shape(n).primary /\ g = index_group_primary(n) /\ GoodGroup(g)
    BY GroupsOf
  <2>3. PICK i \in Nat : i = FirstRow(want[b], n)
    BY <1>2, <1>4, <2>1, RowsOfSlot, GroupsOf
  <2>4. unpacked[b].primary_conj = ConjOrNone("FirstSet", i, g)
    <3>1. unpacked[b] = Unpacked(want[b], n)
      BY <1>2, <1>4, <2>1
    <3>2. g = get_database_shape(n).primary
      BY <2>2
    <3> QED BY <2>3, <3>1, <3>2, UnpackedFields, Zenon
  <2>5. Conjugate("FirstSet", i, g) # None
    <3>1. PICK e \in Nat : e = i * query_base_power(g)
      BY <2>2, <2>3, BasePower
    <3>2. PICK f \in Int : f = 2 * N - e
      <4>1. 2 * N - e \in Int
        BY Sizes
      <4> QED BY <4>1, Zenon
    <3>3. Ciphertext("FirstSet", f, TRUE) \in Ciphertexts
      BY DEF Ciphertexts, Ciphertext
    <3>4. None \notin Ciphertexts
      BY ClientAssumption DEF Ciphertexts
    <3> QED BY <3>1, <3>2, <3>3, <3>4, Zenon DEF Conjugate
  <2> QED BY <2>1, <2>2, <2>4, <2>5, Zenon DEF ConjOrNone
<1>5. result_length_assert
  BY <1>1, OwnRank DEF result_length_assert
<1>6. /\ parts' = [b \in BatchSlots |->
           IF Asked(b) THEN primary_results(NumEntries(b), unpacked[b]) ELSE None]
      /\ phase' = "primary_done"
  BY <1>3, <1>4, <1>5, Zenon DEF primary_phase
<1>7. ASSUME NEW b \in batch.asked PROVE SlotInv(b)'
  <2>1. parts'[b] = primary_results(NumEntries(b), unpacked[b])
    BY <1>1, <1>6, <1>7, ServerGroups DEF Asked
  <2>2. NumEntries(b)' = NumEntries(b)
    BY <1>1 DEF NumEntries
  <2>3. /\ want'[b] \in 0..(NumEntries(b)' - 1)
        /\ unpacked'[b] = Unpacked(want'[b], NumEntries(b)')
        /\ parts'[b] = primary_results(NumEntries(b)', unpacked'[b])
    BY <1>1, <1>2, <1>7, <2>1, <2>2
  <2> QED BY <1>6, <2>3 DEF SlotInv
<1> QED BY <1>1, <1>6, <1>7 DEF Inv

(* The second-level pass answers every client with its entry.              *)
LEMMA SecondaryInv ==
  ASSUME Inv, secondary_phase
  PROVE  Inv'
<1>1. /\ HonestBatch(batch) /\ batch' = batch /\ want' = want
      /\ phase = "primary_done" /\ phase' = "replied"
  BY DEF Inv, secondary_phase
<1>2. PICK mem : mem = memory' /\ mem = set_db(memory)
  BY DEF secondary_phase
<1>3. ASSUME NEW b \in batch.asked PROVE SlotInv(b)'
  <2>1. /\ want[b] \in 0..(NumEntries(b) - 1)
        /\ unpacked[b] = Unpacked(want[b], NumEntries(b))
        /\ parts[b] = primary_results(NumEntries(b), unpacked[b])
    BY <1>1, <1>3 DEF Inv, SlotInv
  <2>2. PICK s \in 0..(NumEntries(b) - 1) : s = want[b]
    BY <2>1, Zenon
  <2>3. \A j \in 0..(CTXT_PARTS - 1) : lane(mem, b * CTXT_PARTS + j) = Part(s, j)
    BY <1>1, <1>2, <1>3, <2>1, <2>2, SecondLevel
  <2>4. reply'[b] = [j \in 0..(CTXT_PARTS - 1) |-> lane(mem, b * CTXT_PARTS + j)]
    <3>1. b \in BatchSlots
      BY <1>1, <1>3, ServerGroups
    <3> QED BY <1>2, <1>3, <3>1, Zenon DEF secondary_phase, Asked
  <2>5. reply'[b] = Answer(want'[b])
    BY <1>1, <2>2, <2>3, <2>4 DEF Answer
  <2>6. NumEntries(b)' = NumEntries(b)
    BY <1>1 DEF NumEntries
  <2> QED BY <1>1, <2>1, <2>5, <2>6 DEF SlotInv
<1> QED BY <1>1, <1>3 DEF Inv

(* Every client decodes the entry it asked for.                            *)
LEMMA ProcessReplyInv ==
  ASSUME Inv, process_reply
  PROVE  Inv'
<1>1. /\ HonestBatch(batch) /\ batch' = batch /\ want' = want
      /\ phase = "replied" /\ phase' = "decoded"
      /\ got' = [b \in BatchSlots |-> IF Asked(b) THEN dec_double_pir(reply[b]) ELSE None]
  BY DEF Inv, process_reply
<1>2. ASSUME NEW b \in batch.asked PROVE SlotInv(b)'
  <2>1. want[b] \in 0..(NumEntries(b) - 1) /\ reply[b] = Answer(want[b])
    BY <1>1, <1>2 DEF Inv, SlotInv
  <2>2. want[b] \in Nat
    BY <1>1, <1>2, <2>1, ServerGroups, GroupsOf
  <2>3. got'[b] = want'[b]
    BY <1>1, <1>2, <2>1, <2>2, ServerGroups, Decoded DEF Asked
  <2>4. NumEntries(b)' = NumEntries(b)
    BY <1>1 DEF NumEntries
  <2> QED BY <1>1, <2>1, <2>3, <2>4 DEF SlotInv
<1> QED BY <1>1, <1>2 DEF Inv

(* Inv holds in every initial state when every batch is an honest one.     *)
LEMMA InitInv ==
  ASSUME \A bt \in Batches : HonestBatch(bt), Init
  PROVE  Inv
BY DEF Init, Inv, SlotInv

(* Every step preserves Inv.                                               *)
LEMMA StepInv ==
  ASSUME \A bt \in Batches : HonestBatch(bt), Inv, [Next]_vars
  PROVE  Inv'
<1>1. CASE next_batch
  BY <1>1 DEF next_batch, Inv, SlotInv
<1>2. CASE UNCHANGED vars
  <2>1. /\ batch' = batch /\ phase' = phase /\ want' = want /\ wire' = wire
        /\ unpacked' = unpacked /\ parts' = parts /\ reply' = reply /\ got' = got
    BY <1>2 DEF vars
  <2>2. ASSUME NEW b \in batch.asked PROVE SlotInv(b)'
    <3>1. NumEntries(b)' = NumEntries(b) /\ Shape(b)' = Shape(b)
      BY <2>1 DEF NumEntries, Shape
    <3> QED BY <2>1, <2>2, <3>1 DEF Inv, SlotInv
  <2> QED BY <2>1, <2>2 DEF Inv
<1> QED BY <1>1, <1>2, PrepareInv, ProcessQueriesInv, PrimaryInv, SecondaryInv,
           ProcessReplyInv DEF Next

(* Every client whose query is in a batch decodes exactly the entry stored *)
(* under the slot it asked for, for every fleet get_database_shape accepts *)
(* and every batch of the form process_queries is called with.             *)
THEOREM RepliesCorrect ==
  ASSUME \A bt \in Batches : HonestBatch(bt)
  PROVE  Spec => []RepliesAreRequested
<1>1. Init => Inv
  BY InitInv
<1>2. Inv /\ [Next]_vars => Inv'
  BY StepInv
<1>3. Inv => RepliesAreRequested
  BY DEF Inv, SlotInv, RepliesAreRequested
<1> QED BY <1>1, <1>2, <1>3, PTL DEF Spec

(* No assertion of prepare_query, process_queries or                       *)
(* perform_batched_double_pir fails on such a batch.                       *)
THEOREM NeverPanics ==
  ASSUME \A bt \in Batches : HonestBatch(bt)
  PROVE  Spec => []NoPanic
<1>1. Init => Inv
  BY InitInv
<1>2. Inv /\ [Next]_vars => Inv'
  BY StepInv
<1>3. Inv => NoPanic
  BY DEF Inv, NoPanic
<1> QED BY <1>1, <1>2, <1>3, PTL DEF Spec

(* The server reads every ciphertext a client uploads.                     *)
THEOREM QueriesFullyRead ==
  ASSUME \A bt \in Batches : HonestBatch(bt)
  PROVE  Spec => []QueryFullyRead
<1>1. Init => Inv
  BY InitInv
<1>2. Inv /\ [Next]_vars => Inv'
  BY StepInv
<1>3. Inv => QueryFullyRead
  BY QueryUnpacked DEF Inv, SlotInv, QueryFullyRead
<1> QED BY <1>1, <1>2, <1>3, PTL DEF Spec

=============================================================================
