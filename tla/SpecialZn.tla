------------------------------ MODULE SpecialZn ------------------------------
(***************************************************************************)
(* Arithmetic modulo p = 2^K - alpha on lazily reduced representatives     *)
(* (simd_zn.rs: SpecialZnx8, CompletelyReducedSpecialZnx8,                 *)
(* CompressedZnx8El).  One lane is modelled, as lanes do not interact.     *)
(*                                                                         *)
(* The machine holds a few elements and applies the ring's operations to   *)
(* them in any order.  Beside each element a ghost keeps the residue it    *)
(* should stand for.                                                       *)
(***************************************************************************)
EXTENDS Avx

CONSTANTS
  K, alpha,    \* p = 2^K - alpha
  Regs,        \* elements at hand
  Ints, U64s   \* samples of the arguments of from_int and reduce_from_u64

TwoK == 2 ^ K
p == TwoK - alpha
repr_bound == 2 * p

(* SpecialZnx8::new and check_invariant.  The bound on u32::MAX is stated  *)
(* as a bound on 2^31, the same for a power of two.  alpha = 0, which      *)
(* check_invariant admits, is not a modulus in use.                        *)
check_invariant ==
  /\ SignHalf \in Nat \ {0}
  /\ alpha \in Nat \ {0}
  /\ TwoK \in Nat \ {0}
  /\ 2 * TwoK <= SignHalf
  /\ 2 * alpha + 2 * alpha * alpha <= TwoK
  /\ 2 * alpha < p

VARIABLES
  reg,      \* representatives of the elements at hand, at most 2p
  val,      \* ghost: their residues
  twiddle,  \* a completely reduced element, at most p
  tval,     \* ghost: its residue
  acc,      \* result of the running sum
  i,        \* summands since its last reduction, -1 when no sum runs
  aval      \* ghost: the residue of the sum

vars == <<reg, val, twiddle, tval, acc, i, aval>>

----------------------------------------------------------------------------
reduce_step(data) ==
  mm512_sub_epi64(data, mm512_mul_epu32(mm512_srli_epi64(TwoK, data), p))

\* mutant: one reduction step instead of two
reduce_after_mul_once(data) == reduce_step(data)

reduce_after_mul(data) == reduce_step(reduce_step(data))

(* Conditional subtraction of p, and of 2p.                                *)
reduce_from_2p(data) == mm512_sub_epi64(data, mm512_mask(p, mm512_cmpgt_epi64_mask(data, p)))
reduce_from_4p(data) ==
  mm512_sub_epi64(data, mm512_mask(2 * p, mm512_cmpgt_epi64_mask(data, 2 * p)))

simd_smallest_positive_lift(el) ==
  LET result == reduce_from_2p(el)
  IN  mm512_sub_epi64(result, mm512_mask(p, mm512_cmpeq_epi64_mask(result, p)))

compress(el) == as_i32(el)
uncompress(c) == mm512_cvtepi32_epi64(c)

(* The component ring Z/pZ and the homomorphism onto it.                   *)
get_component(el) == compress(el) % p

add(x, y) == reduce_from_4p(mm512_add_epi64(x, y))
sub(x, y) == reduce_from_4p(mm512_sub_epi64(mm512_add_epi64(x, 2 * p), y))
negate(x) == mm512_sub_epi64(2 * p, x)

mul(x, y) == reduce_after_mul(mm512_mul_epu32(reduce_from_2p(x), y))
fma(x, y, summand) ==
  reduce_after_mul(mm512_add_epi64(mm512_mul_epu32(reduce_from_2p(x), y), summand))

eq_el(x, y) == get_component(reduce_from_2p(reduce_from_2p(sub(x, y)))) = 0

(* A product with a completely reduced factor.                             *)
twiddled(y) == reduce_after_mul(mm512_mul_epu32(twiddle, y))

----------------------------------------------------------------------------
Idle == i = -1
Set(r, el, v) ==
  /\ reg' = [reg EXCEPT ![r] = el]
  /\ val' = [val EXCEPT ![r] = v % p]
OthersUnchanged == UNCHANGED <<twiddle, tval, acc, i, aval>>

Init ==
  /\ reg = [r \in Regs |-> 0] /\ val = [r \in Regs |-> 0]
  /\ twiddle = 0 /\ tval = 0 /\ acc = 0 /\ i = -1 /\ aval = 0

from_int(r, n) == Idle /\ Set(r, n % p, n) /\ OthersUnchanged
reduce_from_u64(r, x) == Idle /\ Set(r, x % p, x) /\ OthersUnchanged

add_assign(r, s) == Idle /\ Set(r, add(reg[r], reg[s]), val[r] + val[s]) /\ OthersUnchanged
sub_assign(r, s) == Idle /\ Set(r, sub(reg[r], reg[s]), val[r] - val[s]) /\ OthersUnchanged
negate_inplace(r) == Idle /\ Set(r, negate(reg[r]), -val[r]) /\ OthersUnchanged
mul_assign(r, s) == Idle /\ Set(r, mul(reg[r], reg[s]), val[r] * val[s]) /\ OthersUnchanged
fma_into(r, s, t) ==
  Idle /\ Set(t, fma(reg[r], reg[s], reg[t]), val[r] * val[s] + val[t]) /\ OthersUnchanged

(* checked_left_div: the quotient of the component ring, when there is one.*)
checked_left_div(r, s, q) ==
  /\ Idle /\ (q * get_component(reduce_from_2p(reg[s]))) % p
                = get_component(reduce_from_2p(reg[r]))
  /\ Set(r, q, q) /\ OthersUnchanged

(* An element is stored in 32 bits and read back.                          *)
compress_uncompress(r) ==
  Idle /\ Set(r, uncompress(compress(reg[r])), val[r]) /\ OthersUnchanged

(* CompletelyReducedSpecialZnx8: rev_delegate follows each operation of    *)
(* the ring it delegates to.                                               *)
rev_delegate(r) ==
  /\ Idle
  /\ twiddle' = reduce_from_2p(reg[r])
  /\ tval' = val[r]
  /\ UNCHANGED <<reg, val, acc, i, aval>>

butterfly(x, y) ==
  /\ Idle /\ x # y
  /\ LET ty == twiddled(reg[y])
     IN  reg' = [reg EXCEPT ![x] = reduce_from_4p(mm512_add_epi64(reg[x], ty)),
                            ![y] = reduce_from_4p(mm512_sub_epi64(
                                     mm512_add_epi64(reg[x], 2 * p), ty))]
  /\ val' = [val EXCEPT ![x] = (val[x] + tval * val[y]) % p,
                        ![y] = (val[x] - tval * val[y]) % p]
  /\ OthersUnchanged

inv_butterfly(x, y) ==
  /\ Idle /\ x # y
  /\ reg' = [reg EXCEPT ![x] = reduce_from_4p(mm512_add_epi64(reg[x], reg[y])),
                        ![y] = twiddled(reduce_from_4p(mm512_sub_epi64(
                                 mm512_add_epi64(reg[x], 2 * p), reg[y])))]
  /\ val' = [val EXCEPT ![x] = (val[x] + val[y]) % p,
                        ![y] = (tval * (val[x] - val[y])) % p]
  /\ OthersUnchanged

(* Bound: a sum has no use for the twiddle, so it is run with one value of *)
(* it only.                                                                *)
SumTwiddle == 0

(* sum: up to p summands are added between two reductions.                 *)
sum_begin ==
  /\ Idle /\ twiddle = SumTwiddle
  /\ acc' = 0 /\ aval' = 0 /\ i' = 0
  /\ UNCHANGED <<reg, val, twiddle, tval>>

sum_step(r) ==
  /\ ~Idle
  /\ acc' = mm512_add_epi64(IF i = p THEN reduce_after_mul(acc) ELSE acc, reg[r])
  /\ i' = IF i = p THEN 1 ELSE i + 1
  /\ aval' = (aval + val[r]) % p
  /\ UNCHANGED <<reg, val, twiddle, tval>>

sum_end(r) ==
  /\ ~Idle
  /\ Set(r, reduce_after_mul(acc), aval)
  /\ i' = -1 /\ acc' = 0 /\ aval' = 0
  /\ UNCHANGED <<twiddle, tval>>

Next ==
  \/ \E r \in Regs :
       \/ \E n \in Ints : from_int(r, n)
       \/ \E x \in U64s : reduce_from_u64(r, x)
       \/ negate_inplace(r) \/ compress_uncompress(r) \/ rev_delegate(r)
       \/ sum_step(r) \/ sum_end(r)
       \/ \E s \in Regs :
            \/ add_assign(r, s) \/ sub_assign(r, s) \/ mul_assign(r, s)
            \/ \E t \in Regs : fma_into(r, s, t)
            \/ \E q \in 0..(p - 1) : checked_left_div(r, s, q)
            \/ butterfly(r, s) \/ inv_butterfly(r, s)
  \/ sum_begin

Spec == Init /\ [][Next]_vars

----------------------------------------------------------------------------
(* x is v plus a multiple of p and at most n multiples of p.               *)
Represents(x, v, n) == \E k \in 0..n : x = v + k * p /\ x <= n * p

(* Types: lanes hold words, and a sum counts at most p summands between    *)
(* reductions.                                                             *)
TypeOK ==
  /\ reg \in [Regs -> 0..(Word - 1)] /\ val \in [Regs -> 0..(p - 1)]
  /\ twiddle \in 0..(Word - 1) /\ tval \in 0..(p - 1)
  /\ acc \in 0..(Word - 1) /\ i \in -1..p /\ aval \in 0..(p - 1)

(* The assertions of check_repr, which the code has commented out, hold    *)
(* after every sequence of operations: an element is at most 2p, also a    *)
(* result of fma, of a butterfly and of sum, and it stands for the right   *)
(* residue.                                                                *)
ElementsRepresent == \A r \in Regs : Represents(reg[r], val[r], 2)

(* A completely reduced element is at most p.                              *)
TwiddleRepresents == Represents(twiddle, tval, 1)

(* The running sum stays within what its next reduction accepts.           *)
SumRepresents == i >= 0 => Represents(acc, aval, 2 * (i + 1))

(* Comparing, lifting and storing an element give the same for each of the *)
(* three representatives zero has.                                         *)
RepresentativesAgree ==
  \A r \in Regs :
    /\ simd_smallest_positive_lift(reg[r]) = val[r]
    /\ get_component(reg[r]) = val[r]
    /\ \A s \in Regs : eq_el(reg[r], reg[s]) <=> val[r] = val[s]

(* After every sequence of operations each register is within the bound    *)
(* the next operation relies on and stands for the right residue.          *)
ResiduesRepresent ==
  ElementsRepresent /\ TwiddleRepresents /\ SumRepresents /\ RepresentativesAgree

=============================================================================
