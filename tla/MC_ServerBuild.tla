--------------------------- MODULE MC_ServerBuild ---------------------------
(***************************************************************************)
(* Three names and two buckets, so that names share a bucket; two          *)
(* discriminators, so that three names in one bucket always collide and    *)
(* two do under some salts; two attempts and two bucket salts, so that     *)
(* both retry loops can succeed late and can run out.                      *)
(***************************************************************************)
EXTENDS BucketCodec

CONSTANTS n1, n2, n3

\* 12, 42 and 42 bytes: n1 and n2, or n1 and n3, together fill a bucket to its
\* last byte, and n2 and n3 overflow it
MC_RecordsOf ==
  [n \in {n1, n2, n3} |->
     CASE n = n1 -> <<[kind |-> "A", data |-> 1], [kind |-> "NS4", data |-> 2]>>
       [] n = n2 -> <<[kind |-> "A", data |-> 1], [kind |-> "AAAA", data |-> 3], [kind |-> "NS6", data |-> 4]>>
       [] OTHER -> <<[kind |-> "AAAA", data |-> 3], [kind |-> "NS4", data |-> 2], [kind |-> "NS6", data |-> 5]>>]

\* Bytes of 4 bits, a ramp that differs from record to record and has all ones.
MC_Rdata(rec) == [i \in 1..rdata_bytes(rec.kind) |-> (15 + 5 * (i - rec.data)) % 16]

MC_Records == UNION {{MC_RecordsOf[n][i] : i \in DOMAIN MC_RecordsOf[n]} : n \in Zone}

\* The first attempt puts n1 into the first bucket; the other attempt is free.
MC_SlotHashes == {h \in [Attempts -> [Names -> Slots]] : h[0][n1] = 0}

\* Discriminators are only compared with each other: n1's is 0 under every salt.
MC_DiscHashes ==
  [Attempts -> [BucketSalts -> {d \in [Names -> Discs] : d[n1] = 0}]]

=============================================================================
