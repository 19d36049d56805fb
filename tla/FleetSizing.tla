---------------------------- MODULE FleetSizing ----------------------------
(***************************************************************************)
(* Server start-up: pick_num_entries walks the candidate bucket counts and *)
(* preprocess turns the bucket arrays into one PIRDatabase per shard       *)
(* (server.rs).  The predicted maximum load is floating-point; whether it  *)
(* fits a bucket is an arbitrary verdict here.                             *)
(***************************************************************************)
EXTENDS DatabaseShape

CONSTANT
  Hashes(_)   \* bound: hash values tried, of those below an entry count

half_shard == (SIMD_COUNT * N) \div 2
full_shard == SIMD_COUNT * N
max_shards == N \div SIMD_COUNT

\* mutant: one half-size fleet too many
max_half_shards_inclusive == HALF_SIZE_PRIMARY_MAX_ENTRIES \div half_shard + 1

max_half_shards == HALF_SIZE_PRIMARY_MAX_ENTRIES \div half_shard

first_full_shards == HALF_SIZE_PRIMARY_MAX_ENTRIES \div full_shard + 1

NumCandidates == max_half_shards + (max_shards - first_full_shards + 1)

(* The i-th candidate: fleets of full half-size shards, then of full-size  *)
(* shards.                                                                 *)
candidate(i) ==
  IF i <= max_half_shards
  THEN i * half_shard
  ELSE (first_full_shards + (i - max_half_shards - 1)) * full_shard

(* A name's hash is taken modulo the number of entries.                    *)
ASSUME HashAssumption ==
  \A i \in 1..NumCandidates : Hashes(candidate(i)) \subseteq 0..(candidate(i) - 1)

VARIABLES
  phase,        \* "sizing", "preprocessing", "ready", "panic"
  tried,        \* candidates looked at so far
  num_entries,  \* the current candidate, then the chosen count (0 before)
  shards_done   \* PIRDatabases preprocess has filled

vars == <<phase, tried, num_entries, shards_done>>

Init ==
  /\ phase = "sizing"
  /\ tried = 0
  /\ num_entries = 0
  /\ shards_done = 0

(* One turn of the loop: the candidate is taken if the predicted load fits *)
(* and, at the end of the list, even if it does not.                       *)
pick_num_entries(fits) ==
  /\ phase = "sizing"
  /\ tried < NumCandidates
  /\ tried' = tried + 1
  /\ num_entries' = candidate(tried + 1)
  /\ phase' = IF fits \/ tried + 1 = NumCandidates THEN "preprocessing" ELSE "sizing"
  /\ UNCHANGED shards_done

(* One shard of preprocess: create splits the shard's chunk of the backing *)
(* memory and set_db consumes the shard's entries_per_shard buckets; each  *)
(* panics on a wrong length.                                               *)
preprocess ==
  LET g == get_database_shape(num_entries).primary
      shard_ok == /\ shape_asserts(num_entries)
                  /\ create_slices(g) <= required_memory_general(g)
                  /\ entries_per_shard(num_entries) = group_order(g) * SIMD_COUNT
  IN  /\ phase = "preprocessing"
      /\ shards_done' = IF shard_ok THEN shards_done + 1 ELSE shards_done
      /\ phase' = IF ~shard_ok THEN "panic"
                  ELSE IF shards_done + 1 = num_databases(num_entries) THEN "ready"
                  ELSE "preprocessing"
      /\ UNCHANGED <<tried, num_entries>>

Next ==
  \/ \E fits \in BOOLEAN : pick_num_entries(fits)
  \/ preprocess

Spec == Init /\ [][Next]_vars /\ WF_vars(Next)

----------------------------------------------------------------------------
(* Sizing never looks past the end of its candidate list, and no fleet has *)
(* more shards than one secondary database can address.                    *)
TypeOK ==
  /\ phase \in {"sizing", "preprocessing", "ready", "panic"}
  /\ tried \in 0..NumCandidates
  /\ num_entries \in Nat
  /\ shards_done \in 0..max_shards

(* Every candidate is a fleet of fully-used shards of the shape            *)
(* get_database_shape derives back from it, as pick_num_entries promises:  *)
(* no advertised bucket lies in a padding region and no memory is wasted.  *)
(* Candidates grow, also where the shard size changes, so that the first   *)
(* one that fits is the cheapest.                                          *)
CandidateFillsItsShards ==
  num_entries # 0 =>
    /\ num_entries = num_databases(num_entries) * entries_per_shard(num_entries)
    /\ tried > 1 => num_entries > candidate(tried - 1)

(* Whatever hash value a name gets, the client's address for it names an   *)
(* existing shard, a position inside that shard, and a row of the          *)
(* secondary database; distinct buckets get distinct addresses.            *)
EverySlotAddressable ==
  phase = "ready" =>
    \A s \in Hashes(num_entries) :
      LET at == slot(s, num_entries)
      IN  /\ at.secondary \in 0..(num_databases(num_entries) - 1)
          /\ at.primary \in 0..(entries_per_shard(num_entries) - 1)
          /\ at.secondary < group_order(get_database_shape(num_entries).secondary)
                              \div SIMD_COUNT
          /\ at.secondary * entries_per_shard(num_entries) + at.primary = s

(* The main loop of a PIR query leaves its sum in the buffer the caller    *)
(* reads only after an even number of buffer swaps: both index groups of a *)
(* chosen fleet have an even loop length.                                  *)
LoopLengthsEven ==
  phase \in {"preprocessing", "ready"} =>
    /\ loop_len(get_database_shape(num_entries).primary) % 2 = 0
    /\ loop_len(get_database_shape(num_entries).secondary) % 2 = 0

(* Start-up ends, no assertion of preprocess, create or set_db fails on    *)
(* the way, and the fleet has exactly the shards the clients will derive.  *)
StartUpCompletes ==
  <>(phase = "ready" /\ shards_done = num_databases(num_entries))

=============================================================================
