--------------------------------- MODULE Avx ---------------------------------
(***************************************************************************)
(* One lane of the vector registers of avx.rs.  A lane is an unsigned word *)
(* of two halves (64 and 32 bits in the code).  Every operation acts on    *)
(* each of the eight lanes alone, and the two builds (AVX-512, or two AVX2 *)
(* halves with the feature emulate_avx512) differ in one of them only, the *)
(* arithmetic right shift, which is defined here for both.                 *)
(***************************************************************************)
EXTENDS Integers

CONSTANT
  SignHalf   \* 2^31 in the code: the least half word whose sign bit is set

HalfWord == 2 * SignHalf
Word == HalfWord * HalfWord
SignWord == HalfWord * SignHalf

(* Two's complement of a lane.                                             *)
Signed(x) == IF x < SignWord THEN x ELSE x - Word

----------------------------------------------------------------------------
mm512_add_epi64(x, y) == (x + y) % Word
mm512_sub_epi64(x, y) == (x - y) % Word

(* The product of the low halves.                                          *)
mm512_mul_epu32(x, y) == (x % HalfWord) * (y % HalfWord)

(* Shifts by k bits are given the power of two 2^k.                        *)
mm512_srli_epi64(pow, x) == x \div pow
mm512_slli_epi64(pow, x) == (x * pow) % Word

(* vpsraq: the sign is kept, rounding is towards minus infinity.           *)
mm512_srai_native(pow, x) == (Signed(x) \div pow) % Word

(* AVX2 has no such shift: a logical one, its upper bits set from a mask   *)
(* of the sign.                                                            *)
mm512_srai_emulated(pow, x) ==
  LET mask == IF Signed(x) < 0 THEN Word - 1 ELSE 0
      sign_mask == (mask * (Word \div pow)) % Word
  IN  (x \div pow) + sign_mask

mm512_cmpgt_epi64_mask(x, y) == Signed(x) > Signed(y)
mm512_cmpeq_epi64_mask(x, y) == x = y
mm512_mask(x, mask) == IF mask THEN x ELSE 0

(* A lane as i32, and an i32 sign-extended to a lane.                      *)
as_i32(x) ==
  LET low == x % HalfWord IN IF low < SignHalf THEN low ELSE low - HalfWord
mm512_cvtepi32_epi64(i) == i % Word

=============================================================================
