---------------------------- MODULE FleetProofs ----------------------------
(***************************************************************************)
(* Start-up sizes and fills a fleet whose every bucket a client can        *)
(* address, for every ring dimension, vector width and number of digits,   *)
(* and whatever the predicted loads are (FleetSizing).                     *)
(***************************************************************************)
EXTENDS FleetSizing, ShapeProofs

(* Start-up meets no assertion, and a fleet that is ready has exactly the  *)
(* shards that clients derive from its number of entries.                  *)
StartUpIsSound ==
  /\ phase # "panic"
  /\ phase = "ready" => shards_done = num_databases(num_entries)

Inv ==
  /\ phase \in {"sizing", "preprocessing", "ready"}
  /\ tried \in 0..NumCandidates
  /\ num_entries = IF tried = 0 THEN 0 ELSE candidate(tried)
  /\ phase = "sizing" => shards_done = 0
  /\ phase # "sizing" => tried # 0
  /\ phase = "preprocessing" => shards_done \in 0..(num_databases(num_entries) - 1)
  /\ phase = "ready" => shards_done = num_databases(num_entries)

----------------------------------------------------------------------------
(* The list of candidates.                                                 *)
LEMMA ShardSizes ==
  /\ half_shard \in Nat \ {0} /\ half_shard = SIMD_COUNT * (N \div 2)
  /\ full_shard \in Nat \ {0} /\ full_shard = SIMD_COUNT * N
  /\ max_shards \in Nat /\ max_shards * full_shard = N * N
  /\ HALF_SIZE_PRIMARY_MAX_ENTRIES \in Nat /\ HALF_SIZE_PRIMARY_MAX_ENTRIES <= N * N
<1>1. PICK h \in Nat \ {0} : N = 2 * (2 * h)
  BY Sizes
<1>2. PICK m \in Nat \ {0} : N = SIMD_COUNT * (2 * m)
  BY Sizes
<1>3. N \in Nat \ {0} /\ SIMD_COUNT \in Nat \ {0} /\ N \div 2 = 2 * h
  BY <1>1, Sizes
<1>4. SIMD_COUNT * N \in Nat \ {0} /\ SIMD_COUNT * (2 * h) \in Nat \ {0}
  BY <1>3
<1>5. half_shard = SIMD_COUNT * (2 * h)
  <2>1. PICK x \in Nat : x = SIMD_COUNT * (2 * h)
    BY <1>4
  <2>2. SIMD_COUNT * N = 2 * x
    BY <1>1, <1>3, <2>1
  <2>3. (2 * x) \div 2 = x
    BY <2>1
  <2> QED BY <2>1, <2>2, <2>3 DEF half_shard
<1>6. max_shards = 2 * m
  <2>1. N = SIMD_COUNT * (2 * m) + 0 /\ 0 \in 0..(SIMD_COUNT - 1) /\ 2 * m \in Nat
    BY <1>2, <1>3
  <2> QED BY <1>3, <2>1, DivUnique DEF max_shards
<1>7. (2 * m) * (SIMD_COUNT * N) = N * N
  BY <1>2, <1>3
<1>8. HALF_SIZE_PRIMARY_MAX_ENTRIES \in Nat /\ HALF_SIZE_PRIMARY_MAX_ENTRIES <= N * N
  <2>1. PICK x \in Nat : x = N * N
    BY <1>3
  <2>2. x \div 16 \in Nat /\ x \div 16 <= x
    BY <2>1
  <2> QED BY <2>1, <2>2 DEF HALF_SIZE_PRIMARY_MAX_ENTRIES
<1> QED BY <1>3, <1>4, <1>5, <1>6, <1>7, <1>8 DEF full_shard

(* The threshold lies behind the last half-size fleet and before the first *)
(* full-size one.                                                          *)
LEMMA Threshold ==
  /\ max_half_shards \in Nat /\ first_full_shards \in Nat \ {0}
  /\ max_half_shards * half_shard <= HALF_SIZE_PRIMARY_MAX_ENTRIES
  /\ HALF_SIZE_PRIMARY_MAX_ENTRIES < first_full_shards * full_shard
  /\ first_full_shards <= max_shards + 1
  /\ NumCandidates \in Nat /\ NumCandidates = max_half_shards + max_shards + 1 - first_full_shards
<1>1. PICK X \in Nat : X = HALF_SIZE_PRIMARY_MAX_ENTRIES /\ X <= N * N
  BY ShardSizes
<1>2. PICK Hs \in Nat \ {0} : Hs = half_shard
  BY ShardSizes
<1>3. PICK F \in Nat \ {0} : F = full_shard
  BY ShardSizes
<1>4. PICK a \in Nat : a = X \div Hs /\ Hs * a <= X
  <2>1. X \div Hs \in Nat /\ X % Hs \in 0..(Hs - 1) /\ X = Hs * (X \div Hs) + (X % Hs)
    BY DivBounds
  <2>2. PICK r \in Nat : r = X % Hs
    BY <2>1
  <2>3. PICK q \in Nat : q = X \div Hs
    BY <2>1
  <2>4. Hs * q <= X
    BY <2>1, <2>2, <2>3
  <2> QED BY <2>3, <2>4
<1>5. PICK b \in Nat : b = X \div F /\ F * b <= X /\ X < F * b + F
  <2>1. X \div F \in Nat /\ X % F \in 0..(F - 1) /\ X = F * (X \div F) + (X % F)
    BY DivBounds
  <2>2. PICK r \in 0..(F - 1) : r = X % F
    BY <2>1
  <2>3. PICK q \in Nat : q = X \div F
    BY <2>1
  <2>4. F * q <= X /\ X < F * q + F
    BY <2>1, <2>2, <2>3
  <2> QED BY <2>3, <2>4
<1>6. max_half_shards = a /\ first_full_shards = b + 1
  BY <1>1, <1>2, <1>3, <1>4, <1>5 DEF max_half_shards, first_full_shards
<1>7. a * Hs <= X /\ X < (b + 1) * F /\ b * F <= X
  <2>1. a * Hs = Hs * a /\ (b + 1) * F = F * b + F /\ b * F = F * b
    OBVIOUS
  <2> QED BY <1>4, <1>5, <2>1
<1>8. b <= max_shards
  <2>1. max_shards \in Nat /\ max_shards * F = N * N
    BY <1>3, ShardSizes
  <2>2. b * F < (max_shards + 1) * F
    <3>1. (max_shards + 1) * F = max_shards * F + F
      BY <2>1
    <3> QED BY <1>1, <1>7, <2>1, <3>1
  <2>3. b < max_shards + 1
    BY <2>1, <2>2, MulCancel
  <2> QED BY <2>1, <2>3
<1> QED BY <1>1, <1>2, <1>3, <1>6, <1>7, <1>8, ShardSizes DEF NumCandidates

(* Whole shards: k of them of the size the derivation gives their entries. *)
LEMMA WholeShards ==
  ASSUME NEW k \in Nat \ {0}, NEW E \in Nat \ {0}, NEW c \in EntryCounts,
         c = k * E, entries_per_shard(c) = E
  PROVE  num_databases(c) = k /\ c = num_databases(c) * entries_per_shard(c)
<1>1. c \in Nat \ {0}
  BY Sizes DEF EntryCounts
<1>2. PICK d \in Nat \ {0} : d = num_databases(c) /\ c <= d * E /\ (d - 1) * E < c
  BY <1>1, DivCeil DEF num_databases
<1>3. d <= k
  BY <1>1, <1>2, DivCeil DEF num_databases
<1>4. k <= d
  <2> SUFFICES ASSUME d < k PROVE FALSE
    OBVIOUS
  <2>1. (d + 1) * E <= k * E
    BY MulMono
  <2>2. (d + 1) * E = d * E + E
    OBVIOUS
  <2> QED BY <1>1, <1>2, <2>1, <2>2
<1>5. num_databases(c) = k
  BY <1>2, <1>3, <1>4
<1> QED BY <1>5

(* Every candidate is accepted by the derivation and fills its shards.     *)
LEMMA CandidateShape ==
  ASSUME NEW i \in 1..NumCandidates
  PROVE  /\ candidate(i) \in EntryCounts
         /\ candidate(i) = num_databases(candidate(i)) * entries_per_shard(candidate(i))
         /\ i <= max_half_shards => candidate(i) <= HALF_SIZE_PRIMARY_MAX_ENTRIES
         /\ i > max_half_shards => candidate(i) > HALF_SIZE_PRIMARY_MAX_ENTRIES
<1>1. PICK c : c = candidate(i)
  OBVIOUS
<1>2. N * N \in Nat /\ i \in Nat \ {0}
  BY Sizes, Threshold
<1>3. PICK X \in Nat : X = HALF_SIZE_PRIMARY_MAX_ENTRIES /\ X <= N * N
  BY ShardSizes
<1>4. CASE i <= max_half_shards
  <2>1. PICK E \in Nat \ {0} : E = half_shard /\ E = SIMD_COUNT * (N \div 2)
    BY ShardSizes
  <2>2. c = i * E
    BY <1>1, <1>4, <2>1 DEF candidate
  <2>3. i * E \in Nat \ {0}
    BY <1>2
  <2>4. i * E <= max_half_shards * E
    BY <1>2, <1>4, Threshold, MulMono
  <2>5. c \in Nat \ {0} /\ c <= X
    BY <1>3, <2>1, <2>2, <2>3, <2>4, Threshold
  <2>6. c \in EntryCounts
    BY <1>2, <1>3, <2>5 DEF EntryCounts
  <2>7. entries_per_shard(c) = E
    BY <1>3, <2>1, <2>5, PrimaryGroup
  <2>8. c = num_databases(c) * entries_per_shard(c)
    BY <1>2, <2>2, <2>6, <2>7, WholeShards
  <2> QED BY <1>1, <1>2, <1>3, <1>4, <2>5, <2>6, <2>8, Threshold
<1>5. CASE i > max_half_shards
  <2>1. PICK E \in Nat \ {0} : E = full_shard /\ E = SIMD_COUNT * N
    BY ShardSizes
  <2>2. PICK k \in Nat \ {0} : /\ k = first_full_shards + (i - max_half_shards - 1)
                              /\ k >= first_full_shards /\ k <= max_shards
    BY <1>2, <1>5, Threshold, ShardSizes
  <2>3. c = k * E
    BY <1>1, <1>2, <1>5, <2>1, <2>2, Threshold DEF candidate
  <2>4. first_full_shards * E <= k * E /\ k * E <= max_shards * E /\ k * E \in Nat \ {0}
    BY <2>2, Threshold, ShardSizes, MulMono
  <2>5. c \in Nat \ {0} /\ X < c /\ c <= N * N
    <3>1. X < first_full_shards * E /\ first_full_shards * E \in Nat /\ max_shards * E = N * N
      BY <1>3, <2>1, Threshold, ShardSizes
    <3> QED BY <1>2, <2>3, <2>4, <3>1
  <2>6. c \in EntryCounts
    BY <1>2, <2>5 DEF EntryCounts
  <2>7. entries_per_shard(c) = E
    BY <1>3, <2>1, <2>5, PrimaryGroup
  <2>8. c = num_databases(c) * entries_per_shard(c)
    BY <2>2, <2>3, <2>6, <2>7, WholeShards
  <2> QED BY <1>1, <1>2, <1>3, <1>5, <2>5, <2>6, <2>8, Threshold
<1> QED BY <1>2, <1>4, <1>5, Threshold

(* Candidates grow, also where the shard size changes.                     *)
LEMMA CandidatesGrow ==
  ASSUME NEW i \in 1..NumCandidates, i > 1
  PROVE  candidate(i) > candidate(i - 1)
<1>1. i \in Nat /\ i - 1 \in 1..NumCandidates /\ i - 1 \in Nat
  BY Threshold
<1>2. max_half_shards \in Nat /\ first_full_shards \in Nat \ {0}
  BY Threshold
<1>3. half_shard \in Nat \ {0} /\ full_shard \in Nat \ {0}
  BY ShardSizes
<1>4. CASE i <= max_half_shards
  <2>1. candidate(i) = i * half_shard /\ candidate(i - 1) = (i - 1) * half_shard
    BY <1>1, <1>2, <1>4 DEF candidate
  <2>2. i * half_shard = (i - 1) * half_shard + half_shard /\ (i - 1) * half_shard \in Nat
    BY <1>1, <1>3
  <2> QED BY <1>3, <2>1, <2>2
<1>5. CASE i - 1 > max_half_shards
  <2>1. PICK k \in Nat : k = first_full_shards + (i - 1 - max_half_shards - 1)
    BY <1>1, <1>2, <1>5
  <2>2. candidate(i) = (k + 1) * full_shard /\ candidate(i - 1) = k * full_shard
    BY <1>1, <1>2, <1>5, <2>1 DEF candidate
  <2>3. (k + 1) * full_shard = k * full_shard + full_shard /\ k * full_shard \in Nat
    BY <1>3
  <2> QED BY <1>3, <2>2, <2>3
<1>6. CASE i > max_half_shards /\ i - 1 <= max_half_shards
  <2>1. /\ candidate(i) > HALF_SIZE_PRIMARY_MAX_ENTRIES
        /\ candidate(i - 1) <= HALF_SIZE_PRIMARY_MAX_ENTRIES
    BY <1>1, <1>6, CandidateShape
  <2>2. candidate(i) \in Nat /\ candidate(i - 1) \in Nat /\ HALF_SIZE_PRIMARY_MAX_ENTRIES \in Nat
    BY <1>1, CandidateShape, Sizes, ShardSizes DEF EntryCounts
  <2> QED BY <2>1, <2>2
<1> QED BY <1>1, <1>2, <1>4, <1>5, <1>6

----------------------------------------------------------------------------
(* The invariant.                                                          *)

(* A chosen number of entries is one the derivation accepts.               *)
LEMMA ChosenCount ==
  ASSUME Inv, tried # 0
  PROVE  /\ tried \in 1..NumCandidates /\ num_entries = candidate(tried)
         /\ num_entries \in EntryCounts
         /\ num_databases(num_entries) \in 1..max_shards
<1>1. tried \in 1..NumCandidates /\ num_entries = candidate(tried)
  BY Threshold DEF Inv
<1>2. num_entries \in EntryCounts
  BY <1>1, CandidateShape
<1> QED BY <1>1, <1>2, ShardCount DEF max_shards

(* The invariant holds before the first candidate.                         *)
LEMMA InitInv == Init => Inv
  BY Threshold DEF Init, Inv

(* Each turn of pick_num_entries and of preprocess keeps it.               *)
LEMMA StepInv == Inv /\ [Next]_vars => Inv'
<1> SUFFICES ASSUME Inv, [Next]_vars PROVE Inv'
  OBVIOUS
<1>1. ASSUME NEW fits \in BOOLEAN, pick_num_entries(fits) PROVE Inv'
  <2>1. /\ phase = "sizing" /\ tried < NumCandidates /\ tried' = tried + 1
        /\ num_entries' = candidate(tried + 1) /\ shards_done' = shards_done
    BY <1>1 DEF pick_num_entries
  <2>2. phase' \in {"preprocessing", "sizing"}
    BY <1>1 DEF pick_num_entries
  <2>3. tried' \in 0..NumCandidates /\ tried' \in 1..NumCandidates /\ tried' # 0
    BY <2>1, Threshold DEF Inv
  <2>4. shards_done' = 0 /\ num_entries' = candidate(tried')
    BY <2>1 DEF Inv
  <2>5. 0 \in 0..(num_databases(num_entries') - 1)
    <3>1. num_entries' \in EntryCounts
      BY <2>3, <2>4, CandidateShape
    <3>2. PICK c \in EntryCounts : c = num_entries'
      BY <3>1
    <3>3. num_databases(c) \in 1..max_shards
      BY ShardCount DEF max_shards
    <3> QED BY <3>2, <3>3, ShardSizes
  <2> QED BY <2>2, <2>3, <2>4, <2>5 DEF Inv
<1>2. CASE preprocess
  <2>1. phase = "preprocessing" /\ tried' = tried /\ num_entries' = num_entries
    BY <1>2 DEF preprocess
  <2>2. PICK c \in EntryCounts : c = num_entries
    BY <2>1, ChosenCount DEF Inv
  <2>3. PICK d \in Nat \ {0} : d = num_databases(c)
    BY ShardCount, ShardSizes DEF max_shards
  <2>4. get_database_shape(c).primary = index_group_primary(c)
    BY DEF get_database_shape
  <2>5. shape_asserts(c)
    BY ShapeAccepted
  <2>6. c \in Nat
    BY Sizes DEF EntryCounts
  <2>7. GoodGroup(index_group_primary(c))
    BY <2>6, PrimaryGroup
  <2>8. /\ create_slices(index_group_primary(c)) = required_memory_general(index_group_primary(c))
        /\ required_memory_general(index_group_primary(c)) \in Nat
    <3>1. group_order(index_group_primary(c)) \in Nat
      BY <2>6, PrimaryGroup
    <3>2. required_memory_general(index_group_primary(c)) \in Nat
      BY <3>1, Sizes, ParameterAssumption DEF required_memory_general
    <3> QED BY <2>7, <3>2, SlicesFit
  <2>9. entries_per_shard(c) = group_order(index_group_primary(c)) * SIMD_COUNT
    BY <2>6, PrimaryGroup, Sizes
  <2>10. /\ shards_done' = shards_done + 1
         /\ phase' = IF shards_done + 1 = d THEN "ready" ELSE "preprocessing"
    <3>1. create_slices(index_group_primary(c)) <= required_memory_general(index_group_primary(c))
      BY <2>8
    <3> QED BY <1>2, <2>2, <2>3, <2>4, <2>5, <2>9, <3>1 DEF preprocess
  <2>11. shards_done \in 0..(d - 1)
    BY <2>1, <2>2, <2>3 DEF Inv
  <2> QED BY <2>1, <2>2, <2>3, <2>10, <2>11 DEF Inv
<1>3. CASE UNCHANGED vars
  BY <1>3 DEF vars, Inv
<1> QED BY <1>1, <1>2, <1>3 DEF Next

----------------------------------------------------------------------------
(* Types; sizing stays inside its list, and no fleet is larger than one    *)
(* secondary database.                                                     *)
THEOREM TypeCorrect == Spec => []TypeOK
<1>1. Inv => TypeOK
  <2> SUFFICES ASSUME Inv PROVE TypeOK
    OBVIOUS
  <2>1. max_shards \in Nat
    BY ShardSizes
  <2>2. CASE tried = 0
    BY <2>1, <2>2 DEF Inv, TypeOK
  <2>3. CASE tried # 0
    <3>1. num_entries \in Nat /\ num_databases(num_entries) \in 1..max_shards
      BY <2>3, ChosenCount, Sizes DEF EntryCounts
    <3> QED BY <2>1, <3>1 DEF Inv, TypeOK
  <2> QED BY <2>2, <2>3
<1> QED BY <1>1, InitInv, StepInv, PTL DEF Spec

(* Start-up of a server meets no assertion of get_database_shape, create   *)
(* or set_db, and prepares exactly the shards clients will derive.         *)
THEOREM StartUpSound == Spec => []StartUpIsSound
<1>1. Inv => StartUpIsSound
  BY DEF Inv, StartUpIsSound
<1> QED BY <1>1, InitInv, StepInv, PTL DEF Spec

(* pick_num_entries keeps its promise for every parameter set: each        *)
(* candidate fills its shards completely, and candidates grow.             *)
THEOREM CandidatesFill == Spec => []CandidateFillsItsShards
<1>1. Inv => CandidateFillsItsShards
  <2> SUFFICES ASSUME Inv, num_entries # 0 PROVE
        /\ num_entries = num_databases(num_entries) * entries_per_shard(num_entries)
        /\ tried > 1 => num_entries > candidate(tried - 1)
    BY DEF CandidateFillsItsShards
  <2>1. tried # 0
    BY DEF Inv
  <2> QED BY <2>1, ChosenCount, CandidateShape, CandidatesGrow
<1> QED BY <1>1, InitInv, StepInv, PTL DEF Spec

(* Whatever hash a name has, the client's address for it exists in the     *)
(* fleet the server built, and no two buckets share an address.            *)
THEOREM SlotsAddressable == Spec => []EverySlotAddressable
<1>1. Inv => EverySlotAddressable
  <2> SUFFICES ASSUME Inv, phase = "ready", NEW s \in Hashes(num_entries)
               PROVE  LET at == slot(s, num_entries)
                      IN  /\ at.secondary \in 0..(num_databases(num_entries) - 1)
                          /\ at.primary \in 0..(entries_per_shard(num_entries) - 1)
                          /\ at.secondary < group_order(get_database_shape(num_entries).secondary)
                                              \div SIMD_COUNT
                          /\ at.secondary * entries_per_shard(num_entries) + at.primary = s
    BY DEF EverySlotAddressable
  <2>1. tried # 0
    BY DEF Inv
  <2>2. /\ tried \in 1..NumCandidates /\ num_entries = candidate(tried)
        /\ num_entries \in EntryCounts
    BY <2>1, ChosenCount
  <2>3. s \in 0..(num_entries - 1)
    BY <2>2, HashAssumption
  <2> QED BY <2>2, <2>3, SlotInShape
<1> QED BY <1>1, InitInv, StepInv, PTL DEF Spec

(* Both index groups of a chosen fleet have an even loop length, so the    *)
(* main loop leaves its sum where the caller reads it.                     *)
THEOREM LoopsEven == Spec => []LoopLengthsEven
<1>1. Inv => LoopLengthsEven
  <2> SUFFICES ASSUME Inv, phase \in {"preprocessing", "ready"}
               PROVE  /\ loop_len(get_database_shape(num_entries).primary) % 2 = 0
                      /\ loop_len(get_database_shape(num_entries).secondary) % 2 = 0
    BY DEF LoopLengthsEven
  <2>1. tried # 0
    BY DEF Inv
  <2>2. PICK c \in EntryCounts : c = num_entries
    BY <2>1, ChosenCount
  <2>3. /\ get_database_shape(c).primary = index_group_primary(c)
        /\ get_database_shape(c).secondary = choose_index_group_secondary(num_databases(c))
    BY DEF get_database_shape
  <2>4. c \in Nat
    BY Sizes DEF EntryCounts
  <2>5. GoodGroup(index_group_primary(c))
    BY <2>4, PrimaryGroup
  <2>6. GoodGroup(choose_index_group_secondary(num_databases(c)))
    BY ShardCount, SecondaryGroup
  <2> QED BY <2>2, <2>3, <2>5, <2>6 DEF GoodGroup
<1> QED BY <1>1, InitInv, StepInv, PTL DEF Spec

=============================================================================
