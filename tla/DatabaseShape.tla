--------------------------- MODULE DatabaseShape ---------------------------
(***************************************************************************)
(* The rule from which client and server independently derive the layout   *)
(* of a PIR fleet: the server advertises one number, num_entries, and both *)
(* sides compute index groups, shard count and slot addresses from it      *)
(* (crates/pir/src/pir_wrapper.rs, base_pir.rs; bucket::slot of the DNS    *)
(* crate).  Everything here is a pure function of the parameters.          *)
(***************************************************************************)
EXTENDS Integers

CONSTANTS
  LOG2_N,      \* log2 of the ring dimension N, 11 in the code
  LOG2_SIMD,   \* log2 of SIMD_COUNT, 3 in the code
  GK_DIGITS    \* gadget digits of a Galois key, 2 in the code

N == 2^LOG2_N
SIMD_COUNT == 2^LOG2_SIMD

(* Two powers of two fit between SIMD_COUNT and N: N/2 is a multiple of     *)
(* SIMD_COUNT, as every caller needs, and N*N/16 is an integer.            *)
ASSUME ParameterAssumption ==
  /\ LOG2_N \in Nat /\ LOG2_SIMD \in Nat
  /\ 1 <= LOG2_SIMD /\ LOG2_SIMD + 1 <= LOG2_N /\ 2 <= LOG2_N
  /\ GK_DIGITS \in Nat

(* What is used of the library's exponentiation, on the exponents in play. *)
ASSUME ShiftAssumption ==
  /\ 2^0 = 1
  /\ 2^1 = 2
  /\ \A j, k \in 0..LOG2_N :
       /\ 2^k \in Nat \ {0}
       /\ j + k <= LOG2_N => 2^(j + k) = 2^j * 2^k

----------------------------------------------------------------------------
(* IndexGroup (base_pir.rs).  The field l is the group order.              *)

IndexGroups == [l : 1..N]

full_group == [l |-> N]

(* The two assertions of subgroup_of_size; a false one is a panic.         *)
subgroup_asserts(size) == N % size = 0 /\ size * 2 <= N

subgroup_of_size(size) == [l |-> size]

group_order(g) == g.l

requires_conj(g) == g.l = N

loop_len(g) == IF g.l < N THEN g.l ELSE N \div 2

query_base_power(g) == (N \div 2) \div loop_len(g)

\* mutant: sized by the loop length, forgetting the conjugated half
required_memory_by_loop(g) == (GK_DIGITS + 1) * 2 * N * loop_len(g)

(* Elements of backing memory a database of this group claims up front,    *)
(* and the slices PIRDatabase::create then splits off it: the transformed  *)
(* entries and GK_DIGITS inner products, each in two RNS components, and   *)
(* the same again for the conjugated half when the group requires it.      *)
required_memory_general(g) == (GK_DIGITS + 1) * 2 * N * group_order(g)

create_slices(g) ==
  LET slice == N * loop_len(g)
  IN  (IF requires_conj(g) THEN 2 ELSE 1) * (2 * slice + GK_DIGITS * 2 * slice)

----------------------------------------------------------------------------
(* The derivation itself (pir_wrapper.rs).                                 *)

div_ceil(a, b) == (a + b - 1) \div b

(* abs_log2_ceil of the arithmetic library: the least k with 2^k >= n.     *)
IsLog2Ceil(k, n) == 2^k >= n /\ \A i \in 0..(k - 1) : 2^i < n

abs_log2_ceil(n) == CHOOSE k \in 0..LOG2_N : IsLog2Ceil(k, n)

\* mutant: the floor of the logarithm instead of its ceiling
abs_log2_floor(n) == CHOOSE k \in 0..LOG2_N : 2^k <= n /\ (k < LOG2_N => n < 2^(k + 1))
secondary_by_floor(num_shards) ==
  IF SIMD_COUNT * 2^abs_log2_floor(num_shards) = N
  THEN full_group
  ELSE subgroup_of_size(SIMD_COUNT * 2^abs_log2_floor(num_shards))

\* mutant: one row per shard instead of one per shard and lane
secondary_without_lanes(num_shards) ==
  subgroup_of_size(2^abs_log2_ceil(num_shards))

choose_index_group_secondary(num_shards) ==
  LET order == SIMD_COUNT * 2^abs_log2_ceil(num_shards)
  IN  IF order = N THEN full_group ELSE subgroup_of_size(order)

(* The assertions met on the way: too many shards for one secondary        *)
(* database, or a sub-group order that does not fit.                       *)
secondary_asserts(num_shards) ==
  /\ num_shards <= N \div SIMD_COUNT
  /\ LET order == SIMD_COUNT * 2^abs_log2_ceil(num_shards)
     IN  order # N => subgroup_asserts(order)

HALF_SIZE_PRIMARY_MAX_ENTRIES == (N * N) \div 16

index_group_primary(num_entries) ==
  IF num_entries <= HALF_SIZE_PRIMARY_MAX_ENTRIES
  THEN subgroup_of_size(N \div 2)
  ELSE full_group

entries_per_shard(num_entries) ==
  SIMD_COUNT * group_order(index_group_primary(num_entries))

num_databases(num_entries) == div_ceil(num_entries, entries_per_shard(num_entries))

get_database_shape(num_entries) ==
  [primary   |-> index_group_primary(num_entries),
   secondary |-> choose_index_group_secondary(num_databases(num_entries))]

(* Entry counts get_database_shape accepts without panicking.              *)
EntryCounts == 1..(N * N)

shape_asserts(num_entries) ==
  /\ num_entries >= 1 /\ num_entries <= N * N
  /\ num_entries <= HALF_SIZE_PRIMARY_MAX_ENTRIES => subgroup_asserts(N \div 2)
  /\ secondary_asserts(num_databases(num_entries))

\* mutant: the split ignores that small fleets have half-size shards
slot_full_shards(s, num_entries) ==
  [secondary |-> s \div (SIMD_COUNT * N), primary |-> s % (SIMD_COUNT * N)]

(* bucket::slot for a name whose hash is s modulo num_entries.             *)
slot(s, num_entries) ==
  [secondary |-> s \div entries_per_shard(num_entries),
   primary   |-> s % entries_per_shard(num_entries)]

=============================================================================
