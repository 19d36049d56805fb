------------------------------- MODULE BasePir -------------------------------
(***************************************************************************)
(* One base-level PIR database (base_pir.rs, PIRDatabase) from its entries *)
(* to a decrypted reply.  set_db transforms the entries and evaluates the  *)
(* public a-parts of the query and of the Galois keys over them; a query   *)
(* then evaluates the b-parts, with the digits that set_db stored.  The    *)
(* two halves of each intermediate ciphertext are computed at different    *)
(* times and must stay in step.                                            *)
(*                                                                         *)
(* Queries and the replies of a second-level database (SecondSet) travel   *)
(* as bytes (WireStream).  The reply of a base-level database (FirstSet)   *)
(* goes into the second one as plaintexts, which the client gets back      *)
(* unchanged (DoublePir).  The buffers of the loop over the b-parts are    *)
(* the subject of PirLoop.                                                 *)
(***************************************************************************)
EXTENDS PirTransform, WireStream

CONSTANTS
  Groups,       \* index groups considered
  SeedSets,     \* subset of {"FirstSet", "SecondSet"}
  Databases(_), \* bound: contents of a database of that many entries
  SK_HWT,       \* draws of gen_sk
  Keys,         \* bound: secret keys, as signed coefficients
  NoiseChoices, \* bound: outcomes of the error sampling, and the error in
  Noise(_, _),  \* ... the ciphertext under that seed
  GALOIS_KEY_LOG2_MODULUS, QUERY_LOG2_MODULUS,     \* widths on the wire
  A_LOG2_RESPONSE_Q, B_LOG2_RESPONSE_Q,
  CTXT_PARTS,   \* plaintexts a reply ciphertext is cut into
  MaxSets       \* bound: calls of set_db

(* Asserted by encode_ciphertext_plaintext.                                *)
ASSUME PartsAssumption == 2^(A_LOG2_RESPONSE_Q + B_LOG2_RESPONSE_Q) <= t^CTXT_PARTS

(* condense packs eight values at a time.                                  *)
ASSUME WireAssumption == N % 8 = 0
ASSUME WidthAssumption ==
  {GALOIS_KEY_LOG2_MODULUS, QUERY_LOG2_MODULUS, A_LOG2_RESPONSE_Q, B_LOG2_RESPONSE_Q} \subseteq Nat
ASSUME KeyAssumption == Keys \subseteq gen_sk(SK_HWT)

VARIABLES
  grp, use_seeds,  \* fixed by create
  db,              \* the entries of the last set_db
  transformed_entries, inner_prod_gk,  \* per loop and iteration
  sum_a, done_a,   \* per loop of preprocess: sum and iterations done
  reply_a,
  client,          \* the query under way: key, index, noise
  sections,        \* ghost: the elements last sent, with their widths
  stream,          \* the bytes on the wire
  arrived,         \* the elements the receiver makes of them
  query,           \* the b-parts of the query as the server holds them
  sum_b, done_b,   \* per loop of perform_pir_split: rotated sum, iterations
  reply,           \* the reply: coefficients of both parts,
  parts,           \* ... and those of a base-level database as plaintexts
  got,             \* what the client makes of it
  phase, sets

dbvars == <<grp, use_seeds, db, transformed_entries, inner_prod_gk, sum_a, done_a, reply_a>>
wirevars == <<sections, stream, arrived>>
qvars == <<client, query, sum_b, done_b, reply, parts, got>>
vars == <<dbvars, wirevars, qvars, phase, sets>>

None == [i \in {} |-> 0]
AllLoops(v) == [x \in Loops(grp) |-> v]

----------------------------------------------------------------------------
Init ==
  /\ grp \in Groups /\ use_seeds \in SeedSets
  /\ db = None /\ reply_a = None
  /\ transformed_entries = AllLoops([i \in Iterations(grp) |-> zero_vec])
  /\ inner_prod_gk = AllLoops([i \in Iterations(grp) |-> <<zero_vec, zero_vec>>])
  /\ sum_a = AllLoops(zero_vec) /\ done_a = AllLoops(0)
  /\ sections = <<>> /\ stream = <<>> /\ arrived = <<>>
  /\ client = None /\ query = None /\ reply = None /\ parts = None /\ got = None
  /\ sum_b = AllLoops(zero_vec) /\ done_b = AllLoops(0)
  /\ phase = "created" /\ sets = 0

(* The first half of set_db, also on a database that has been used.        *)
set_transformed_entries ==
  /\ phase \in {"created", "ready"} /\ sets < MaxSets
  /\ \E entries \in Databases(grp.l) :
       /\ db' = entries
       /\ transformed_entries' = transformed(grp, entries)
  /\ reply_a' = None
  /\ sum_a' = AllLoops(zero_vec) /\ done_a' = AllLoops(0)
  /\ phase' = "preprocess" /\ sets' = sets + 1
  /\ UNCHANGED <<grp, use_seeds, inner_prod_gk, wirevars, qvars>>

gk_a == [k \in 1..GK_DIGITS |-> to_simd_element(Expand(get_gk_seeds[k]))]
qry_a(x) == to_simd_element(Expand(get_qry_seeds(use_seeds)[x]))

\* mutant: the digits are those of the sum behind the iteration
preprocess_loop_late(x) ==
  /\ phase = "preprocess" /\ done_a[x] < loop_len(grp)
  /\ LET i == done_a[x]
     IN  /\ sum_a' = [sum_a EXCEPT ![x] =
              plus(partial_gal(@, gk_a).a, times(qry_a(x), transformed_entries[x][i]))]
         /\ inner_prod_gk' = [inner_prod_gk EXCEPT ![x][i] = partial_gal(sum_a'[x], gk_a).decomposed]
  /\ done_a' = [done_a EXCEPT ![x] = @ + 1]
  /\ UNCHANGED <<grp, use_seeds, db, transformed_entries, reply_a, wirevars, qvars, phase, sets>>

(* One iteration of preprocess_loop; join runs the two loops in parallel.  *)
preprocess_loop(x) ==
  /\ phase = "preprocess" /\ done_a[x] < loop_len(grp)
  /\ LET i == done_a[x]
         gal == partial_gal(sum_a[x], gk_a)
     IN  /\ inner_prod_gk' = [inner_prod_gk EXCEPT ![x][i] = gal.decomposed]
         /\ sum_a' = [sum_a EXCEPT ![x] = plus(gal.a, times(qry_a(x), transformed_entries[x][i]))]
  /\ done_a' = [done_a EXCEPT ![x] = @ + 1]
  /\ UNCHANGED <<grp, use_seeds, db, transformed_entries, reply_a, wirevars, qvars, phase, sets>>

joined(s) == IF requires_conj(grp) THEN plus(s["main"], s["conj"]) ELSE s["main"]

\* mutant: the conjugate half is not added
preprocess_main_only ==
  /\ phase = "preprocess" /\ \A x \in Loops(grp) : done_a[x] = loop_len(grp)
  /\ reply_a' = sum_a["main"]
  /\ phase' = "ready"
  /\ UNCHANGED <<grp, use_seeds, db, transformed_entries, inner_prod_gk, sum_a, done_a, wirevars, qvars, sets>>

preprocess ==
  /\ phase = "preprocess" /\ \A x \in Loops(grp) : done_a[x] = loop_len(grp)
  /\ reply_a' = joined(sum_a)
  /\ phase' = "ready"
  /\ UNCHANGED <<grp, use_seeds, db, transformed_entries, inner_prod_gk, sum_a, done_a, wirevars, qvars, sets>>

----------------------------------------------------------------------------
coefficient_seq(x) == [k \in 1..N |-> x[k - 1]]
coefficients(v) == [i \in Coeffs |-> v[i + 1]]

(* Elements are rounded to their widths and packed; the receiver takes the *)
(* sections off the stream in order.                                       *)
to_wire(secs) ==
  packed_stream([k \in DOMAIN secs |->
    [bits |-> secs[k].bits, data |-> coefficient_seq(mod_switch_encode(secs[k].bits, secs[k].el))]])
from_wire(widths, bytes) ==
  [k \in DOMAIN widths |->
     mod_switch_decode(widths[k], coefficients(section(widths, N, k, bytes)))]

(* The order of the loops' ciphertexts in a query, and its widths.         *)
query_loops == IF requires_conj(grp) THEN <<"main", "conj">> ELSE <<"main">>
query_widths ==
  [k \in 1..(GK_DIGITS + Len(query_loops)) |->
     IF k <= GK_DIGITS THEN GALOIS_KEY_LOG2_MODULUS ELSE QUERY_LOG2_MODULUS]
reply_widths == <<A_LOG2_RESPONSE_Q, B_LOG2_RESPONSE_Q>>

(* The exponent of the monomial each ciphertext of a query encrypts.       *)
selector(x, idx) ==
  IF x = "conj" THEN 2 * N - idx * query_base_power(grp) ELSE idx * query_base_power(grp)

(* A client encrypts its index for one loop or both and sends the b-parts, *)
(* those of the Galois key in front.                                       *)
prepare_query ==
  /\ phase = "ready"
  /\ \E s \in Keys, idx \in Columns(grp), n \in NoiseChoices :
       LET sk == small(s)
           seed(x) == get_qry_seeds(use_seeds)[x]
           qry(x) == enc_sym_b(seed(x), sk, monomial(t, selector(x, idx)), Noise(n, seed(x)))
           gk(k) == gen_gk_b(get_gk_seeds[k], sk, gen_H, B, k - 1, Noise(n, get_gk_seeds[k]))
       IN  /\ client' = [sk |-> sk, idx |-> idx]
           /\ sections' = [k \in DOMAIN query_widths |->
                [bits |-> query_widths[k],
                 el |-> IF k <= GK_DIGITS THEN gk(k) ELSE qry(query_loops[k - GK_DIGITS])]]
  /\ stream' = to_wire(sections') /\ arrived' = <<>>
  /\ phase' = "sent"
  /\ UNCHANGED <<dbvars, query, sum_b, done_b, reply, parts, got, sets>>

(* The server unpacks the query and brings it into the form it computes in *)
(* (to_compressed_simd_element).                                           *)
process_query ==
  /\ phase = "sent"
  /\ arrived' = from_wire(query_widths, stream)
  /\ LET el(k) == to_simd_element(arrived'[k])
         place(x) == GK_DIGITS + (IF x = "main" THEN 1 ELSE 2)
     IN  query' = [gk_b |-> [k \in 1..GK_DIGITS |-> el(k)],
                   qry_b |-> [x \in Loops(grp) |-> el(place(x))]]
  /\ sum_b' = AllLoops(zero_vec) /\ done_b' = AllLoops(0)
  /\ phase' = "query"
  /\ UNCHANGED <<dbvars, sections, stream, client, reply, parts, got, sets>>

(* One iteration of main_pir_loop, which stores its sum rotated.           *)
main_pir_loop(x) ==
  /\ phase = "query" /\ done_b[x] < loop_len(grp)
  /\ LET i == done_b[x]
     IN  sum_b' = [sum_b EXCEPT ![x] =
           rotate(plus(@, plus(inner_product(inner_prod_gk[x][i], query.gk_b),
                               times(transformed_entries[x][i], query.qry_b[x]))))]
  /\ done_b' = [done_b EXCEPT ![x] = @ + 1]
  /\ UNCHANGED <<dbvars, wirevars, client, query, reply, parts, got, phase, sets>>

(* The rotation too many is undone and both parts go back to coefficients  *)
(* modulo q (get_a, perform_pir_split).                                    *)
perform_pir ==
  /\ phase = "query" /\ \A x \in Loops(grp) : done_b[x] = loop_len(grp)
  /\ reply' = <<from_simd_element(reply_a),
                from_simd_element([r \in Rns |-> permute(joined(sum_b)[r], galois_lookup)])>>
  /\ phase' = "computed"
  /\ UNCHANGED <<dbvars, wirevars, client, query, sum_b, done_b, parts, got, sets>>

reply_sections == [k \in {1, 2} |-> [bits |-> reply_widths[k], el |-> reply[k]]]

(* The reply of a second-level database goes to the client.                *)
send_reply ==
  /\ phase = "computed" /\ use_seeds = "SecondSet"
  /\ sections' = reply_sections
  /\ stream' = to_wire(sections') /\ arrived' = <<>>
  /\ phase' = "replied"
  /\ UNCHANGED <<dbvars, qvars, sets>>

(* A coefficient of a and one of b as one number in base t, and back.      *)
encode_ciphertext_plaintext(a, b) ==
  [k \in 1..CTXT_PARTS |-> ((a * 2^B_LOG2_RESPONSE_Q + b) \div t^(k - 1)) % t]

decode_ciphertext_plaintext(data) ==
  LET integer == SumOver(1..CTXT_PARTS, LAMBDA k : data[k] * t^(k - 1))
  IN  [a |-> integer \div 2^B_LOG2_RESPONSE_Q, b |-> integer % 2^B_LOG2_RESPONSE_Q]

(* The reply of a base-level database becomes plaintexts of the second.   *)
store_parts ==
  /\ phase = "computed" /\ use_seeds = "FirstSet"
  /\ sections' = reply_sections
  /\ parts' = [i \in Coeffs |-> encode_ciphertext_plaintext(
                 mod_switch_encode(A_LOG2_RESPONSE_Q, reply[1])[i],
                 mod_switch_encode(B_LOG2_RESPONSE_Q, reply[2])[i])]
  /\ stream' = <<>> /\ arrived' = <<>>
  /\ phase' = "replied"
  /\ UNCHANGED <<dbvars, client, query, sum_b, done_b, reply, got, sets>>

process_reply ==
  /\ phase = "replied"
  /\ arrived' =
       IF use_seeds = "SecondSet" THEN from_wire(reply_widths, stream)
       ELSE LET part(i) == decode_ciphertext_plaintext(parts[i])
            IN  << mod_switch_decode(A_LOG2_RESPONSE_Q, [i \in Coeffs |-> part(i).a]),
                   mod_switch_decode(B_LOG2_RESPONSE_Q, [i \in Coeffs |-> part(i).b]) >>
  /\ got' = dec(client.sk, arrived'[1], arrived'[2])
  /\ phase' = "decrypted"
  /\ UNCHANGED <<dbvars, sections, stream, client, query, sum_b, done_b, reply, parts, sets>>

(* The reply is taken; the database awaits the next call.                  *)
next_call ==
  /\ phase = "decrypted"
  /\ sections' = <<>> /\ stream' = <<>> /\ arrived' = <<>>
  /\ client' = None /\ query' = None /\ reply' = None /\ parts' = None /\ got' = None
  /\ sum_b' = AllLoops(zero_vec) /\ done_b' = AllLoops(0)
  /\ phase' = "ready"
  /\ UNCHANGED <<dbvars, sets>>

Next ==
  \/ set_transformed_entries
  \/ \E x \in Loops(grp) : preprocess_loop(x) \/ main_pir_loop(x)
  \/ preprocess
  \/ prepare_query \/ process_query
  \/ perform_pir \/ send_reply \/ store_parts
  \/ process_reply
  \/ next_call

Spec == Init /\ [][Next]_vars

----------------------------------------------------------------------------
(* Types of the positions, of the wire and of what is computed with.       *)
TypeOK ==
  /\ done_a \in [Loops(grp) -> 0..loop_len(grp)] /\ done_b \in [Loops(grp) -> 0..loop_len(grp)]
  /\ \A k \in DOMAIN stream : stream[k] \in 0..255
  /\ \A k \in DOMAIN arrived : arrived[k] \in Ring(q)
  /\ parts # None => \A i \in Coeffs : parts[i] \in [1..CTXT_PARTS -> 0..(t - 1)]

(* Nothing on the wire says where a section ends: a section of n values of *)
(* b bits is n b / 8 bytes long (the debug assertion of condense), and     *)
(* the reader comes to the end of the stream with its last section.        *)
StreamLengthExact ==
  stream # <<>> =>
    LET widths == [k \in DOMAIN sections |-> sections[k].bits]
    IN  /\ 8 * Len(stream) = N * SumFunction(widths)
        /\ Len(stream) = section_start(widths, N, Len(widths) + 1)

(* What arrives, of a query on the server and of a reply at the client, is *)
(* what was sent, section by section, up to half a step q / 2^b of its     *)
(* width and one for the truncation by the reader, also across the         *)
(* wrap-around at q.                                                       *)
RoundingIsBounded ==
  arrived # <<>> =>
    /\ Len(arrived) = Len(sections)
    /\ \A k \in DOMAIN arrived, i \in Coeffs :
         LET d == (arrived[k][i] - sections[k].el[i]) % q
             step == 2^(sections[k].bits + 1)
         IN  step * (IF d > q \div 2 THEN q - d ELSE d) <= q + step

(* The client decrypts the entry stored at the index it asked for: for     *)
(* every index group, index, key and noise, and also from a database whose *)
(* content has been replaced.                                              *)
ReplyIsEntry == phase = "decrypted" => got = db[client.idx]

(* The automorphism X -> X^e on coefficients modulo n.                     *)
Sigma(n, e, f) ==
  [i \in Coeffs |-> LET k == (i * invert(Zm, e)) % Zm
                    IN  IF k >= N THEN (-f[k - N]) % n ELSE f[k]]
Plain(el) ==
  LET c == from_simd_element(el) IN [i \in Coeffs |-> smallest_lift(q, c[i]) % t]

(* What a loop reads in its i-th iteration is, up to the factor 1/l, the   *)
(* sum over all entries a_k of a_k X^(-k j), rotated back by j, where j    *)
(* runs down from the last power of 5 to 1, with -j in place of j for the  *)
(* conjugate loop (the doc comment of set_transformed_entries).            *)
EntriesAreFourierTransform ==
  phase = "preprocess" => \A x \in Loops(grp), i \in Iterations(grp) :
    LET j == gen_H^(loop_len(grp) - 1 - i) % Zm
        exp(k) == (IF x = "conj" THEN j ELSE -j) * k * query_base_power(grp)
        hat == [c \in Coeffs |-> SumOver(Columns(grp), LAMBDA k : mul(t, db[k], monomial(t, exp(k)))[c]) % t]
    IN  scale(t, grp.l, Plain(transformed_entries[x][i])) = Sigma(t, invert(Zm, j), hat)

(* The sum of the first n iterations on plaintexts.                        *)
Horner(x, n) ==
  LET P[i \in 0..n] ==
        IF i = 0 THEN [c \in Coeffs |-> 0]
        ELSE add(t, Sigma(t, gen_H, P[i - 1]),
                 mul(t, Plain(transformed_entries[x][i - 1]), monomial(t, selector(x, client.idx))))
  IN  P[n]

(* In the middle of an evaluation the digits stored by set_db and the sum  *)
(* of the query are the two parts of one ciphertext: they decrypt, under   *)
(* the rotated key, to the rotated sum of the iterations so far.           *)
HalvesStayInStep ==
  phase = "query" => \A x \in Loops(grp) :
    done_b[x] \in Iterations(grp) =>
      LET digits == inner_prod_gk[x][done_b[x]]
          a == add(q, from_simd_element(digits[1]), scale(q, B, from_simd_element(digits[2])))
      IN  dec(gal_s(client.sk, gen_H), a, from_simd_element(sum_b[x]))
            = Sigma(t, gen_H, Horner(x, done_b[x]))

=============================================================================
