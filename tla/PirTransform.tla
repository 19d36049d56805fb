----------------------------- MODULE PirTransform -----------------------------
(***************************************************************************)
(* The transforms of the base-level PIR engine (base_pir.rs) as pure       *)
(* operators: number-theoretic transforms, Galois automorphisms, the       *)
(* transformation of the database and the gadget decomposition.            *)
(*                                                                         *)
(* One SIMD lane is modelled (lanes never meet), with exact residues: how  *)
(* these are represented and reduced is the subject of SpecialZn.  Inside  *)
(* the server a ciphertext-ring element is a pair of functions of N        *)
(* evaluation points, modulo the two factors of q.                         *)
(***************************************************************************)
EXTENDS Bfv

CONSTANTS
  LOG2_SIMD,             \* logarithm of the number of lanes
  Q_FACTOR1, Q_FACTOR2,  \* the factors of q
  LOG2_B,      \* logarithm of the gadget base
  GK_DIGITS,   \* digits of a gadget decomposition, 2
  zeta         \* per factor, the powers of a primitive 2N-th root of unity

Shape == INSTANCE DatabaseShape   \* index groups

Mod == <<Q_FACTOR1, Q_FACTOR2>>
Rns == {1, 2}
Zm == 2 * N
B == 2^LOG2_B
gen_H == 5

ASSUME TransformAssumption ==
  /\ q = Q_FACTOR1 * Q_FACTOR2
  /\ 2 * t * N < Q_FACTOR1   \* asserted by set_transformed_entries
  /\ \A r \in Rns :
       /\ zeta[r][1] = 1 /\ zeta[r][N + 1] = Mod[r] - 1
       /\ \A e \in 1..(Zm - 1) : zeta[r][e + 1] = (zeta[r][e] * zeta[r][2]) % Mod[r]
  /\ GK_DIGITS = 2           \* asserted by partial_gal

----------------------------------------------------------------------------
requires_conj(grp) == Shape!requires_conj(grp)
loop_len(grp) == Shape!loop_len(grp)
query_base_power(grp) == Shape!query_base_power(grp)
Loops(grp) == IF requires_conj(grp) THEN {"main", "conj"} ELSE {"main"}
Iterations(grp) == 0..(loop_len(grp) - 1)

pow_zeta(r, e) == zeta[r][(e % Zm) + 1]
inv_g == invert(Zm, gen_H)

(* The i-th of group_order evaluation points, as an exponent of zeta.      *)
index_to_galois(group_order, i) == ((Zm \div group_order) * i + 1) % Zm
galois_to_index(group_order, g) == (g - 1) \div (Zm \div group_order)

permute(values, perm(_)) == [i \in DOMAIN values |-> values[perm(i)]]

(* The library's transform of length l: evaluation at the powers of        *)
(* zeta^(-2N / l).                                                         *)
fft(r, values) ==
  LET l == Cardinality(DOMAIN values)
  IN  [j \in 0..(l - 1) |->
         SumOver(0..(l - 1), LAMBDA i :
           (values[i] * pow_zeta(r, -(i * j * (Zm \div l)))) % Mod[r]) % Mod[r]]
inv_fft(r, values) ==
  LET l == Cardinality(DOMAIN values)
      l_inv == invert(Mod[r], l)
  IN  [i \in 0..(l - 1) |->
         (l_inv * SumOver(0..(l - 1), LAMBDA j :
           (values[j] * pow_zeta(r, i * j * (Zm \div l))) % Mod[r])) % Mod[r]]

twist(r, values, e) ==
  [i \in DOMAIN values |-> (values[i] * pow_zeta(r, i * e)) % Mod[r]]
weighted_ntt(r, values) == fft(r, twist(r, values, -1))
inv_weighted_ntt(r, values) == twist(r, inv_fft(r, values), 1)

(* Evaluation at the powers zeta^(-zeta_power g^i), in the order of i; the *)
(* full group adds those at zeta^(zeta_power g^i).                         *)
coset_ntt(grp, r, zeta_power, values) ==
  LET l == grp.l
      coset == zeta_power % (Zm \div l)
      at_coset == fft(r, twist(r, values, -coset))
      to_index(e) == (((-e) % Zm) - coset) \div (Zm \div l)
  IN  permute(at_coset, LAMBDA i :
        IF requires_conj(grp) /\ i >= N \div 2
        THEN to_index((zeta_power * gen_H^(i - N \div 2)) % Zm)
        ELSE to_index((-zeta_power * gen_H^i) % Zm))

----------------------------------------------------------------------------
(* set_transformed_entries.  Columns are indexed by the entry, rows by the *)
(* evaluation point.                                                       *)
Columns(grp) == 0..(grp.l - 1)

(* The column used after j more rotations is rotated back j times.         *)
undo_galois(col, j) ==
  permute(col, LAMBDA i : galois_to_index(N, (inv_g^j * index_to_galois(N, i)) % Zm))

\* mutant: both halves are reversed as one
reversed_whole(grp, j) == grp.l - 1 - j

(* The order in which the loops read the columns: last rotation first.     *)
reversed(grp, j) ==
  IF ~requires_conj(grp) THEN grp.l - 1 - j
  ELSE IF j < N \div 2 THEN N \div 2 - 1 - j ELSE N + N \div 2 - 1 - j

(* A column is brought back to coefficients, reduced modulo t, divided by  *)
(* the group order and embedded into the ciphertext space.                 *)
embed(grp, col) ==
  LET coeffs == inv_weighted_ntt(1, col)
      l_inv == invert(t, grp.l % t)
      lifted == [i \in Coeffs |->
        smallest_lift(t, ((smallest_lift(Q_FACTOR1, coeffs[i]) % t) * l_inv) % t)]
  IN  [r \in Rns |-> weighted_ntt(r, [i \in Coeffs |-> lifted[i] % Mod[r]])]

transformed(grp, entries) ==
  LET crt == [j \in Columns(grp) |-> weighted_ntt(1, entries[j])]
      rows == [i \in Coeffs |->
        coset_ntt(grp, 1, (index_to_galois(N, i) * (-query_base_power(grp))) % Zm,
                  [j \in Columns(grp) |-> crt[j][i]])]
      undone == [j \in Columns(grp) |-> undo_galois([i \in Coeffs |-> rows[i][j]], j)]
      cols == [j \in Columns(grp) |-> embed(grp, undone[reversed(grp, j)])]
  IN  [x \in Loops(grp) |-> [i \in Iterations(grp) |->
         cols[IF x = "conj" THEN N \div 2 + i ELSE i]]]

----------------------------------------------------------------------------
(* Elements modulo q in and out of the server's form.                      *)
to_simd_element(x) ==
  [r \in Rns |-> weighted_ntt(r, [i \in Coeffs |-> smallest_lift(q, x[i]) % Mod[r]])]

inv_q2_mod_q1 == invert(Q_FACTOR1, Q_FACTOR2 % Q_FACTOR1)
inv_q1_mod_q2 == invert(Q_FACTOR2, Q_FACTOR1 % Q_FACTOR2)

(* Chinese remaindering, by which a coefficient may be q too large.        *)
crt_lift(c1, c2) ==
  ((c1 * inv_q2_mod_q1) % Q_FACTOR1) * Q_FACTOR2
    + ((c2 * inv_q1_mod_q2) % Q_FACTOR2) * Q_FACTOR1

from_simd_element(el) ==
  LET c == [r \in Rns |-> inv_weighted_ntt(r, el[r])]
  IN  [i \in Coeffs |-> crt_lift(c[1][i], c[2][i]) % q]

zero_vec == [r \in Rns |-> [i \in Coeffs |-> 0]]
pointwise(op(_, _), x, y) == [r \in Rns |-> [i \in Coeffs |-> op(x[r][i], y[r][i]) % Mod[r]]]
plus(x, y) == pointwise(LAMBDA u, v : u + v, x, y)
times(x, y) == pointwise(LAMBDA u, v : u * v, x, y)

(* X -> X^g moves the value at point i to this one.                        *)
galois_lookup(i) == galois_to_index(N, (inv_g * index_to_galois(N, i)) % Zm)
rotate(el) == [r \in Rns |-> [k \in Coeffs |->
  el[r][CHOOSE i \in Coeffs : galois_lookup(i) = k]]]

(* The representative between -q/2 and q/2.                               *)
shortest_lift(c1, c2) ==
  LET lift == crt_lift(c1, c2)
      once == lift - (IF lift > q THEN q ELSE 0)
  IN  once - (IF once > q \div 2 THEN q ELSE 0)

high(c) == (c + B \div 2) \div B
low(c) == c - B * high(c)

(* Makes a digit non-negative before simd_from_p_sqr.                      *)
multiple(r) == ((q \div B) \div Mod[r] + 2) * Mod[r]
digit(r, c) == (low(c) + multiple(r)) % Mod[r]

(* The automorphism on an a-part: its digits, and their product with the   *)
(* a-parts of the Galois key.                                              *)
Decomp(el) ==
  LET c == [r \in Rns |-> inv_weighted_ntt(r, el[r])]
      lift == [i \in Coeffs |-> shortest_lift(c[1][i], c[2][i])]
      next == [i \in Coeffs |-> high(lift[i])]
  IN  << [r \in Rns |-> weighted_ntt(r, [i \in Coeffs |-> digit(r, lift[i])])],
         [r \in Rns |-> weighted_ntt(r, [i \in Coeffs |-> digit(r, next[i])])] >>

inner_product(digits, keys) == plus(times(digits[1], keys[1]), times(digits[2], keys[2]))

partial_gal(el, gk_a) ==
  LET decomposed == Decomp(rotate(el))
  IN  [a |-> inner_product(decomposed, gk_a), decomposed |-> decomposed]

get_gk_seeds == <<0, 1>>
get_qry_seeds(set) == IF set = "FirstSet" THEN [main |-> 2, conj |-> 3] ELSE [main |-> 4, conj |-> 5]

=============================================================================
