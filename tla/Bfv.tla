--------------------------------- MODULE Bfv ---------------------------------
(***************************************************************************)
(* The BFV primitives (bfv.rs) over Z_n[X] / (X^N + 1).  An element is the *)
(* function of its N coefficients, each in 0..(n - 1); the arithmetic of   *)
(* the ring is the library's (feanor-math) and given by what it computes.  *)
(*                                                                         *)
(* A ciphertext under the key s is a pair (a, b): b + a s is the message,  *)
(* scaled from Z_t to Z_q, plus a small error.  Of a ciphertext that the   *)
(* client makes only b travels; a is expanded from a seed on both sides.   *)
(***************************************************************************)
EXTENDS Integers, FiniteSets, FiniteSetsExt

CONSTANTS
  LOG2_N,     \* logarithm of the degree
  t,          \* plaintext modulus
  q,          \* ciphertext modulus
  Expand(_)   \* the element of Z_q[X] / (X^N + 1) a seed stands for

ASSUME BfvAssumption == LOG2_N \in Nat \ {0} /\ {t, q} \subseteq Nat \ {0, 1}

N == 2^LOG2_N

Coeffs == 0..(N - 1)
Ring(n) == [Coeffs -> 0..(n - 1)]

----------------------------------------------------------------------------
(* The ring.  X^k is minus X^(k - N) from k = N on.                        *)
SumOver(S, f(_)) == MapThenSumSet(f, S)
add(n, x, y) == [i \in Coeffs |-> (x[i] + y[i]) % n]
sub(n, x, y) == [i \in Coeffs |-> (x[i] - y[i]) % n]
mul(n, x, y) ==
  [k \in Coeffs |->
     SumOver(Coeffs, LAMBDA i :
       IF i <= k THEN (x[i] * y[k - i]) % n ELSE (-(x[i] * y[N + k - i])) % n) % n]
scale(n, c, x) == [i \in Coeffs |-> (c * x[i]) % n]
monomial(n, e) ==
  [i \in Coeffs |-> IF e % (2 * N) = i THEN 1 ELSE IF e % (2 * N) = N + i THEN n - 1 ELSE 0]
invert(n, x) == (1 + n * (CHOOSE k \in 0..(x - 1) : (1 + n * k) % x = 0)) \div x
smallest_lift(n, c) == IF c > n \div 2 THEN c - n ELSE c
rounded_div(a, b) == (2 * a + b) \div (2 * b)

----------------------------------------------------------------------------
(* The keys that hwt draws of a place and of a value from -1 to 1 give: a  *)
(* draw may hit a place drawn before, and may draw a zero.                 *)
gen_sk(hwt) == {f \in [Coeffs -> -1..1] : Cardinality({i \in Coeffs : f[i] # 0}) <= hwt}

(* Small elements are given by signed coefficients.                        *)
small(f) == [i \in Coeffs |-> f[i] % q]

\* mutant: a shift in place of the rounding
mod_switch_encode_floor(bits, x) ==
  [i \in Coeffs |-> ((smallest_lift(q, x[i]) * 2^bits) \div q + 2^bits) % 2^bits]

(* Coefficients scaled to bits bits for the wire, and back.                *)
mod_switch_encode(bits, x) ==
  [i \in Coeffs |-> (rounded_div(smallest_lift(q, x[i]) * 2^bits, q) + 2^bits) % 2^bits]
mod_switch_decode(bits, y) == [i \in Coeffs |-> ((y[i] * q) \div 2^bits) % q]

(* c q / t, rounded, as an element of Z_q, and its inverse.                *)
upscale(c) ==
  LET up == smallest_lift(t, c) * q
      delta == smallest_lift(t, up % t)
  IN  (((up - delta) % q) * invert(q, t)) % q

downscale(c) ==
  LET up == smallest_lift(q, c) * t
      delta == smallest_lift(q, up % q)
  IN  (((up - delta) % t) * invert(t, q % t)) % t

(* The b-part that encrypts m under sk, with error e.                      *)
enc_sym_b(seed, sk, m, e) ==
  add(q, sub(q, small(e), mul(q, Expand(seed), sk)), [i \in Coeffs |-> upscale(m[i])])

dec(sk, a, b) ==
  LET noisy == add(q, mul(q, a, sk), b)
  IN  [i \in Coeffs |-> downscale(noisy[i])]

(* The image of the key under X -> X^g: the coefficient of X^i comes from  *)
(* X^(i / g), negated where that exponent is N or more.                    *)
gal_s(sk, g) ==
  [i \in Coeffs |->
     LET new_idx == (i * invert(2 * N, g)) % (2 * N)
     IN  IF new_idx > N THEN (-sk[new_idx - N]) % q ELSE sk[new_idx]]

(* The digit-th b-part of the Galois key, with gadget base B.              *)
gen_gk_b(seed, sk, g, B, digit, e) ==
  add(q, sub(q, small(e), mul(q, Expand(seed), sk)), scale(q, B^digit % q, gal_s(sk, g)))

=============================================================================
