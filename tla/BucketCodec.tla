----------------------------- MODULE BucketCodec -----------------------------
(***************************************************************************)
(* The bytes of the buckets a build lays out (bucket.rs): a salt header,   *)
(* an entry count and tagged entries, cut into plaintext coefficients for  *)
(* the PIR database, put together again by the client and searched for one *)
(* discriminator.  ServerBuild decides what goes into a bucket and holds   *)
(* it as a record; here is what the record stands for.                     *)
(***************************************************************************)
EXTENDS ServerBuild, SequencesExt

CONSTANTS
  BYTE_BITS,    \* 8 in the code
  DISC_BITS,    \* 14
  COEFF_BITS,   \* 10
  Rdata(_)      \* the bytes of a record's data

COEFFS_PER_GROUP == 4
BYTES_PER_GROUP == 5
N == (BUCKET_BYTES \div BYTES_PER_GROUP) * COEFFS_PER_GROUP
COUNT_OFFSET == BUCKET_SALT_BYTES

ASSUME BucketCodecAssumption ==
  /\ {BYTE_BITS, DISC_BITS, COEFF_BITS} \subseteq Nat \ {0}
  /\ DISC_BITS + 2 = 2 * BYTE_BITS /\ Discs \subseteq 0..(2^DISC_BITS - 1)
  /\ MAX_BUCKET_SALT_ATTEMPTS <= 2^(BUCKET_SALT_BYTES * BYTE_BITS)
  /\ COEFFS_PER_GROUP * COEFF_BITS = BYTES_PER_GROUP * BYTE_BITS
  /\ BUCKET_BYTES % BYTES_PER_GROUP = 0 /\ BUCKET_BYTES >= FIRST_ENTRY_OFFSET
  /\ MAX_ENTRIES_PER_BUCKET = 2^(COUNT_BYTES * BYTE_BITS) - 1
  /\ \A r \in Records : Rdata(r) \in [1..rdata_bytes(r.kind) -> 0..(2^BYTE_BITS - 1)]

----------------------------------------------------------------------------
(* Little-endian numbers of a number of digits, each of so many bits.      *)
digits(v, bits, n) == [i \in 1..n |-> (v \div 2^(bits * (i - 1))) % 2^bits]

number(ds, bits) ==
  LET value[i \in 0..Len(ds)] ==
        IF i = 0 THEN 0 ELSE value[i - 1] * 2^bits + ds[Len(ds) + 1 - i]
  IN  value[Len(ds)]

to_le_bytes(v, n) == digits(v, BYTE_BITS, n)
from_le_bytes(bytes) == number(bytes, BYTE_BITS)

slice(b, from, n) == SubSeq(b, from + 1, from + n)

copy_into(b, from, s) ==
  SubSeq(b, 1, from) \o s \o SubSeq(b, from + Len(s) + 1, Len(b))

----------------------------------------------------------------------------
KindOfCode == <<"A", "AAAA", "NS4", "NS6">>
kind_code(kind) == (CHOOSE i \in DOMAIN KindOfCode : KindOfCode[i] = kind) - 1

pack_tag(disc, kind) == to_le_bytes(disc + kind_code(kind) * 2^DISC_BITS, 2)

parse_tag(bytes) ==
  LET v == from_le_bytes(bytes)
  IN  [disc |-> v % 2^DISC_BITS, kind |-> KindOfCode[v \div 2^DISC_BITS + 1]]

write_bucket_salt(b, salt) == copy_into(b, 0, to_le_bytes(salt, BUCKET_SALT_BYTES))
read_bucket_salt(b) == from_le_bytes(slice(b, 0, BUCKET_SALT_BYTES))

write_entry_count(b, count) == copy_into(b, COUNT_OFFSET, to_le_bytes(count, COUNT_BYTES))
read_entry_count(b) == from_le_bytes(slice(b, COUNT_OFFSET, COUNT_BYTES))

entry_bytes(e) == pack_tag(e.disc, e.rec.kind) \o Rdata(e.rec)

(* at is the bucket and the position of the caller's cursor.               *)
append_entry_bytes(at, e) ==
  [bytes |-> write_entry_count(copy_into(at.bytes, at.pos, entry_bytes(e)),
                               read_entry_count(at.bytes) + 1),
   pos |-> at.pos + entry_size(e.rec.kind)]

(* The bytes of a bucket that was laid out entry by entry.                 *)
bucket_bytes(bucket) ==
  LET laid[i \in 0..Len(bucket.entries)] ==
        IF i = 0 THEN [bytes |-> write_bucket_salt([k \in 1..BUCKET_BYTES |-> 0], bucket.salt),
                       pos |-> FIRST_ENTRY_OFFSET]
        ELSE append_entry_bytes(laid[i - 1], bucket.entries[i])
  IN  laid[Len(bucket.entries)].bytes

(* Five bytes to four coefficients, and back, a group at a time.           *)
Groups == N \div COEFFS_PER_GROUP

pack_group(b, g) ==
  digits(from_le_bytes(slice(b, (g - 1) * BYTES_PER_GROUP, BYTES_PER_GROUP)),
         COEFF_BITS, COEFFS_PER_GROUP)

pack_bytes_into_coeffs(b) == FlattenSeq([g \in 1..Groups |-> pack_group(b, g)])

unpack_group(cs, g) ==
  to_le_bytes(number([k \in 1..COEFFS_PER_GROUP |->
                        cs[(g - 1) * COEFFS_PER_GROUP + k] % 2^COEFF_BITS], COEFF_BITS),
              BYTES_PER_GROUP)

unpack_coeffs_into_bytes(cs) == FlattenSeq([g \in 1..Groups |-> unpack_group(cs, g)])

\* mutant: an entry of another name is stepped over as if it were an IPv4 one
decode_entry_fixed_stride(b, want_disc, at) ==
  LET t == parse_tag(slice(b, at.pos, 2))
  IN  [pos |-> at.pos + (IF t.disc = want_disc THEN entry_size(t.kind) ELSE 6), broken |-> FALSE,
       out |-> IF t.disc = want_disc
               THEN Append(at.out, [kind |-> t.kind, rdata |-> slice(b, at.pos + 2, rdata_bytes(t.kind))])
               ELSE at.out]

(* One turn of the decoder's loop: at is its position and output, broken   *)
(* once an entry ran over the end.  All four codes of a kind are known.    *)
decode_entry(b, want_disc, at) ==
  IF at.broken \/ at.pos + 2 > BUCKET_BYTES THEN [at EXCEPT !.broken = TRUE]
  ELSE LET t == parse_tag(slice(b, at.pos, 2))
           end == at.pos + entry_size(t.kind)
           rec == [kind |-> t.kind, rdata |-> slice(b, at.pos + 2, rdata_bytes(t.kind))]
       IN  IF end > BUCKET_BYTES THEN [at EXCEPT !.broken = TRUE]
           ELSE [at EXCEPT !.pos = end,
                           !.out = IF t.disc = want_disc THEN Append(@, rec) ELSE @]

decode_bytes_matching(b, want_disc) ==
  LET at[i \in 0..read_entry_count(b)] ==
        IF i = 0 THEN [pos |-> FIRST_ENTRY_OFFSET, out |-> <<>>, broken |-> FALSE]
        ELSE decode_entry(b, want_disc, at[i - 1])
  IN  at[read_entry_count(b)].out

----------------------------------------------------------------------------
(* What a client makes of the coefficients of a published bucket is what   *)
(* the builder wrote: the salt from which it derives the discriminator to  *)
(* look for and, for every discriminator, the records appended under it,   *)
(* in their order and up to the last byte of the bucket.  Every stored     *)
(* coefficient is an element of the plaintext ring.                        *)
ServedBytesDecode ==
  phase = "serving" /\ state.mode = "pir" =>
    \A s \in Slots :
      LET bucket == state.buckets[s]
          coeffs == pack_bytes_into_coeffs(bucket_bytes(bucket))
          bytes == unpack_coeffs_into_bytes(coeffs)
      IN  /\ \A i \in 1..N : coeffs[i] \in 0..(2^COEFF_BITS - 1)
          /\ read_bucket_salt(bytes) = bucket.salt
          /\ \A d \in Discs :
               LET recs == decode_bucket_matching(bucket, d)
               IN  decode_bytes_matching(bytes, d) =
                     [i \in DOMAIN recs |-> [kind |-> recs[i].kind, rdata |-> Rdata(recs[i])]]

=============================================================================
