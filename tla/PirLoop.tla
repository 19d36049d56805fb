------------------------------- MODULE PirLoop -------------------------------
(***************************************************************************)
(* The online inner loop of a PIR reply (base_pir.rs: perform_pir_split,   *)
(* main_pir_loop).  Each iteration adds three products to every point of   *)
(* the running sum and scatters the points by the Galois permutation into  *)
(* a second buffer; the buffers are then swapped.  Sums are not reduced    *)
(* for as many iterations as a word is thought to hold.                    *)
(*                                                                         *)
(* rayon's join runs the loop of the query and that of the conjugate query *)
(* in parallel on their own buffers.  The two moduli of the RNS base are   *)
(* independent, so one of them is modelled at a time.                      *)
(***************************************************************************)
EXTENDS Avx, FiniteSets, FiniteSetsExt

CONSTANTS
  N,             \* points per element
  UNROLL_COUNT,  \* points per turn of the unrolled body
  GK_DIGITS,     \* digits of the gadget decomposition
  Moduli,        \* moduli of the RNS base
  Gens,          \* generators of index groups
  Lens,          \* bound: loop lengths, which are even (FleetSizing)
  Scenarios,     \* preprocessed databases and queries
  Prepared(_, _, _, _),  \* compressed value, by cfg, loop, array and index
  Query(_, _, _, _)      \* compressed value, by cfg, loop, array and point

Points == 0..(N - 1)
Arrays == 0..GK_DIGITS   \* the key digits and, last, the query itself
repr_bound(q) == 2 * q

PirLoopAssumption ==
  /\ {N, UNROLL_COUNT, GK_DIGITS, SignHalf} \cup Moduli \cup Lens \subseteq Nat \ {0}
  /\ N % UNROLL_COUNT = 0

(* Of a call: modulus, generator, loop length, whether the conjugate loop  *)
(* runs, and the scenario.                                                 *)
Configurations ==
  [p : Moduli, g : Gens, len : Lens, requires_conj : BOOLEAN, scenario : Scenarios]

(* What the loop takes for granted of its values.  The arrays hold         *)
(* representatives (ResiduesRepresent), which fit an i32.  The products    *)
(* of one interval leave room for a reduced value: its length is rounded   *)
(* down, and for the moduli of the code far enough.  Generators are units, *)
(* so that the lookup table is a permutation.  A loop of even length       *)
(* (LoopLengthsEven of FleetSizing) ends in the buffer it began with.      *)
ValuesFit ==
  /\ Gens \subseteq Nat
  /\ \A n \in Lens : n % 2 = 0
  /\ \A g \in Gens : \E h \in 1..(2 * N - 1) : (g * h) % (2 * N) = 1
  /\ \A m \in Moduli :
       /\ repr_bound(m) < SignHalf
       /\ (Word - 1) % ((GK_DIGITS + 1) * (repr_bound(m) * repr_bound(m))) >= m - 1
  /\ \A c \in Configurations, l \in {"main", "conj"}, d \in Arrays :
       /\ \A index \in 0..(N * c.len - 1) : Prepared(c, l, d, index) \in 0..repr_bound(c.p)
       /\ \A j \in Points : Query(c, l, d, j) \in 0..repr_bound(c.p)

VARIABLES
  cfg,     \* the call's configuration
  caller,  \* per loop, the buffers perform_pir_split calls sum and sum_new
  cur,     \* per loop, the one main_pir_loop currently calls sum
  pos,     \* per loop: i_outer, i_inner, j and index
  preload, \* per loop, the prepared values of the block to come
  phase,   \* per loop: where it stands
  result   \* the reply's points once the loops are joined, <<>> before

vars == <<cfg, caller, cur, pos, preload, phase, result>>

----------------------------------------------------------------------------
p == cfg.p
Loops == IF cfg.requires_conj THEN {"main", "conj"} ELSE {"main"}

inverse(g) == CHOOSE h \in 1..(2 * N - 1) : (g * h) % (2 * N) = 1

(* The point whose value the automorphism X -> X^g moves to the j-th       *)
(* (taken for the lookup table, a mutant).                                 *)
galois_lookup_forward(g, j) == (((g * (2 * j + 1)) % (2 * N)) - 1) \div 2

(* Where the automorphism X -> X^g moves the value at the j-th point.      *)
galois_lookup_table(g, j) == (((inverse(g) * (2 * j + 1)) % (2 * N)) - 1) \div 2

\* mutant: the number of products per iteration is forgotten
reduce_every_one_product ==
  Min({(((Word - 1) \div repr_bound(q)) \div repr_bound(q)) : q \in Moduli})

(* One interval serves both moduli.                                        *)
reduce_every_iterations ==
  Min({(((Word - 1) \div repr_bound(q)) \div repr_bound(q)) \div (GK_DIGITS + 1) : q \in Moduli})

other(b) == IF b = "sum" THEN "sum_new" ELSE "sum"
sum(l) == caller[l][cur[l]]

(* The products an iteration adds at a point: prepared values against the  *)
(* query's, all sign-extended from 32 bits and multiplied by low halves.   *)
product(l, prep, d, j) ==
  mm512_mul_epu32(mm512_cvtepi32_epi64(prep[d]),
                  mm512_cvtepi32_epi64(Query(cfg, l, d, j)))

(* A point of the sum with the products of the first n arrays added.       *)
current(l, prep, j) ==
  LET added[n \in 0..(GK_DIGITS + 1)] ==
        IF n = 0 THEN sum(l)[j]
        ELSE mm512_add_epi64(added[n - 1], product(l, prep, n - 1, j))
  IN  added[GK_DIGITS + 1]

(* Prepared values of the UNROLL_COUNT points from a position on.          *)
Block(l, at) ==
  [u \in 0..(UNROLL_COUNT - 1) |-> [d \in Arrays |-> Prepared(cfg, l, d, at + u)]]

----------------------------------------------------------------------------
Init ==
  /\ cfg \in Configurations
  /\ caller = [l \in Loops |-> [b \in {"sum", "sum_new"} |-> [j \in Points |-> 0]]]
  /\ cur = [l \in Loops |-> "sum"]
  /\ pos = [l \in Loops |-> [i_outer |-> 0, i_inner |-> 0, j |-> 0, index |-> 0]]
  /\ preload = [l \in Loops |-> <<>>]
  /\ phase = [l \in Loops |-> "inner"]
  /\ result = <<>>

(* Iterations of the interval under way; the outer loop has ended once     *)
(* none are left.                                                          *)
InnerLen(l) == Max({0, Min({cfg.len - pos[l].i_outer, reduce_every_iterations})})

(* An iteration starts by loading the values of its first block.           *)
preload_first(l) ==
  /\ phase[l] = "inner" /\ pos[l].i_inner < InnerLen(l)
  /\ preload' = [preload EXCEPT ![l] = Block(l, pos[l].index)]
  /\ pos' = [pos EXCEPT ![l].j = 0]
  /\ phase' = [phase EXCEPT ![l] = "body"]
  /\ UNCHANGED <<cfg, caller, cur, result>>

(* sum_new once the block at j is scattered into it.                       *)
scattered(l, j) ==
  [k \in Points |->
     IF \E u \in DOMAIN preload[l] : galois_lookup_table(cfg.g, j + u) = k
     THEN LET u == CHOOSE u \in DOMAIN preload[l] : galois_lookup_table(cfg.g, j + u) = k
          IN  current(l, preload[l][u], j + u)
     ELSE caller[l][other(cur[l])][k]]

\* mutant: the last block of an iteration preloads as well
should_preload_always(j) == TRUE

should_preload(j) == j + UNROLL_COUNT < N

(* One block: UNROLL_COUNT points are updated and scattered into sum_new,  *)
(* and unless the block is the last of its iteration the values of the     *)
(* next one are loaded.                                                    *)
unrolled_loop_body(l) ==
  /\ phase[l] = "body" /\ pos[l].j < N
  /\ caller' = [caller EXCEPT ![l][other(cur[l])] = scattered(l, pos[l].j)]
  /\ preload' = [preload EXCEPT ![l] =
       IF should_preload(pos[l].j) THEN Block(l, pos[l].index + UNROLL_COUNT) ELSE <<>>]
  /\ pos' = [pos EXCEPT ![l].j = @ + UNROLL_COUNT, ![l].index = @ + UNROLL_COUNT]
  /\ UNCHANGED <<cfg, cur, phase, result>>

swap(l) ==
  /\ phase[l] = "body" /\ pos[l].j = N
  /\ cur' = [cur EXCEPT ![l] = other(@)]
  /\ pos' = [pos EXCEPT ![l].i_inner = @ + 1]
  /\ phase' = [phase EXCEPT ![l] = "inner"]
  /\ UNCHANGED <<cfg, caller, preload, result>>

(* The interval is over: every point is reduced (reduce_from_u64), also    *)
(* behind the last interval.                                               *)
reduce(l) ==
  /\ phase[l] = "inner" /\ pos[l].i_inner = InnerLen(l)
  /\ caller' = [caller EXCEPT ![l][cur[l]] = [k \in Points |-> @[k] % p]]
  /\ LET next == pos[l].i_outer + reduce_every_iterations
     IN  /\ pos' = [pos EXCEPT ![l].i_outer = next, ![l].i_inner = 0]
         /\ phase' = [phase EXCEPT ![l] = IF next < cfg.len THEN "inner" ELSE "done"]
  /\ UNCHANGED <<cfg, cur, preload, result>>

(* The loops have joined: the conjugate's sum is added, one rotation too   *)
(* many is undone by permute, and the points are reduced.                  *)
finish ==
  /\ result = <<>> /\ \A l \in Loops : phase[l] = "done"
  /\ LET added == [k \in Points |->
           IF cfg.requires_conj
           THEN mm512_add_epi64(caller["main"]["sum"][k], caller["conj"]["sum"][k])
           ELSE caller["main"]["sum"][k]]
     IN  result' = [k \in Points |-> added[galois_lookup_table(cfg.g, k)] % p]
  /\ UNCHANGED <<cfg, caller, cur, pos, preload, phase>>

Next ==
  \/ \E l \in Loops :
       preload_first(l) \/ unrolled_loop_body(l) \/ swap(l) \/ reduce(l)
  \/ finish

Spec == Init /\ [][Next]_vars

----------------------------------------------------------------------------
(* Types: sums are words, positions stay inside an interval of iterations. *)
TypeOK ==
  /\ caller \in [Loops -> [{"sum", "sum_new"} -> [Points -> 0..(Word - 1)]]]
  /\ cur \in [Loops -> {"sum", "sum_new"}]
  /\ phase \in [Loops -> {"inner", "body", "done"}]
  /\ \A l \in Loops : pos[l].j \in 0..N /\ pos[l].i_inner \in 0..InnerLen(l)

(* Products of representatives, which are at most 2p, never carry a sum    *)
(* over the end of a word: what is added since the last reduction fits on  *)
(* top of a reduced value.                                                 *)
SumsFitAWord ==
  /\ \A l \in Loops, k \in Points :
       LET most == (p - 1) + pos[l].i_inner * (GK_DIGITS + 1) * repr_bound(p) * repr_bound(p)
       IN  most < Word /\ sum(l)[k] <= most

(* Loads stay inside the prepared arrays, which end with the last point of *)
(* the last iteration.                                                     *)
LoadsInBounds ==
  \A l \in Loops : preload[l] # <<>> => pos[l].index + UNROLL_COUNT <= N * cfg.len

(* The point from which each point's value comes when a number of          *)
(* automorphisms have been applied.                                        *)
Origin[n \in 0..cfg.len] ==
  [k \in Points |-> IF n = 0 THEN k ELSE Origin[n - 1][galois_lookup_forward(cfg.g, k)]]

(* What iteration t is to add at the j-th point, without machine           *)
(* arithmetic.                                                             *)
Term(l, t, j) ==
  SumFunction([d \in Arrays |-> Prepared(cfg, l, d, t * N + j) * Query(cfg, l, d, j)])

(* The reply is the sum over all iterations, each rotated once per         *)
(* iteration behind it: the double buffer, the block order, the interval   *)
(* between reductions and the conjugate loop leave no trace.               *)
ReplyIsRotatedSum ==
  result # <<>> => \A k \in Points :
    result[k] =
      SumFunction([l \in Loops |->
        SumFunction([t \in 0..(cfg.len - 1) |-> Term(l, t, Origin[cfg.len - 1 - t][k])])]) % p

=============================================================================
