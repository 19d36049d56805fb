----------------------------- MODULE DoublePir -----------------------------
(***************************************************************************)
(* One batch of PIR queries from the client's slot to the client's entry:  *)
(* prepare_query, process_queries / perform_batched_double_pir and         *)
(* process_reply (pir_wrapper.rs, double_pir.rs).                          *)
(*                                                                         *)
(* A ciphertext is abstracted to what it selects: the seed set its public  *)
(* part comes from and the exponent e of the monomial X^e it encrypts.  A  *)
(* base-level database returns the row its exponent addresses, or Garbage  *)
(* when the ciphertext is not one that addresses a row of its index group. *)
(* A plaintext entry is the global slot number it was stored under, and an *)
(* encrypted entry travels as CTXT_PARTS parts.                            *)
(***************************************************************************)
EXTENDS DatabaseShape, Sequences, FiniteSets

CONSTANTS
  CTXT_PARTS,     \* plaintext parts one primary reply is cut into, 3
  BATCH_COUNT,    \* queries answered in one pass, 2
  Batches,        \* the (fleets, occupied batch slots) pairs considered
  SlotsOf(_),     \* the slots a client may ask a fleet of that size for
  MaxRounds,      \* batches one worker thread answers in a run
  None, Garbage, Zero

(* The code indexes the second batch slot, so there are at least two.      *)
ASSUME PackingAssumption ==
  /\ CTXT_PARTS \in Nat \ {0} /\ BATCH_COUNT \in Nat \ {0, 1}
  /\ CTXT_PARTS * BATCH_COUNT <= SIMD_COUNT

(* Clients ask for slots of the fleet, and the three tokens are neither    *)
(* entries, parts of entries nor ciphertexts.                              *)
ASSUME ClientAssumption ==
  /\ \A n \in EntryCounts : SlotsOf(n) \subseteq 0..(n - 1)
  /\ Garbage \notin Nat
  /\ \A x \in {Garbage, Zero} : x \notin [entry : Nat, part : Nat]
  /\ None \notin [seeds : {"FirstSet", "SecondSet"}, exp : Int, conj : BOOLEAN]

BatchSlots == 0..(BATCH_COUNT - 1)

(* The batches process_queries is written for: the occupied slots come     *)
(* first, no fleet is longer than the first, and an occupied slot's fleet  *)
(* has the index groups of the first (pir_wrapper.rs:345, 362, 363).       *)
HonestBatch(bt) ==
  /\ bt.fleets \in [BatchSlots -> EntryCounts]
  /\ \E k \in 1..BATCH_COUNT : bt.asked = 0..(k - 1)
  /\ \A b \in BatchSlots : num_databases(bt.fleets[b]) <= num_databases(bt.fleets[0])
  /\ \A b \in bt.asked : get_database_shape(bt.fleets[b]) = get_database_shape(bt.fleets[0])

VARIABLES
  batch,    \* [fleets : num_entries of each batch slot's databases, asked]
  phase,    \* where the batch is
  want,     \* the slot each client asked for, None where none was asked
  wire,     \* the query bytes: per batch slot a sequence of ciphertexts
  unpacked, \* the ciphertexts process_queries read off the wire
  parts,    \* batched_part_results: the first-level replies, cut into parts
  memory,   \* SECONDARY_DB_MEMORY of the worker thread, row by row
  reply,    \* per batch slot, the CTXT_PARTS lanes returned
  got,      \* what process_reply decoded
  round     \* batches finished on this thread

vars == <<batch, phase, want, wire, unpacked, parts, memory, reply, got, round>>

Asked(b) == b \in batch.asked
NumEntries(b) == batch.fleets[b]
DatabasesLen(b) == num_databases(NumEntries(b))
Shape(b) == get_database_shape(NumEntries(b))

(* What the server derives on its own: the primary group is the one the    *)
(* first fleet was built with, the secondary group follows from its length. *)
ServerPrimary == index_group_primary(NumEntries(0))
ServerSecondary == choose_index_group_secondary(DatabasesLen(0))

----------------------------------------------------------------------------
Ciphertext(set, e, conj) == [seeds |-> set, exp |-> e, conj |-> conj]

(* The ciphertexts of one query in wire order: GK_DIGITS Galois keys, the  *)
(* primary and the secondary selector, each followed by its conjugate only *)
(* if that index group requires one.                                       *)
Selector(set, index, g) ==
  LET e == index * query_base_power(g)
  IN  <<Ciphertext(set, e, FALSE)>>
      \o IF requires_conj(g) THEN <<Ciphertext(set, 2 * N - e, TRUE)>> ELSE <<>>

GaloisKeys == [d \in 1..GK_DIGITS |-> Ciphertext("FirstSet", 5, FALSE)]

\* mutant: the conjugate of the primary selector is sent by every client
enc_always_conj(s, shape, num_entries) ==
  LET at == slot(s, num_entries)
      e  == (at.primary \div SIMD_COUNT) * query_base_power(shape.primary)
  IN  GaloisKeys
      \o <<Ciphertext("FirstSet", e, FALSE), Ciphertext("FirstSet", 2 * N - e, TRUE)>>
      \o Selector("SecondSet", at.secondary * SIMD_COUNT + (at.primary % SIMD_COUNT),
                  shape.secondary)

enc_double_pir(s, shape, num_entries) ==
  LET at == slot(s, num_entries)
  IN  GaloisKeys
      \o Selector("FirstSet", at.primary \div SIMD_COUNT, shape.primary)
      \o Selector("SecondSet", at.secondary * SIMD_COUNT + (at.primary % SIMD_COUNT),
                  shape.secondary)

(* The assertions of the client: the derivation's and the two index bounds. *)
enc_asserts(s, shape, num_entries) ==
  /\ shape_asserts(num_entries)
  /\ slot(s, num_entries).primary < group_order(shape.primary) * SIMD_COUNT
  /\ slot(s, num_entries).secondary < group_order(shape.secondary) \div SIMD_COUNT

(* Client: prepare_query for the slots this batch asks for.                *)
prepare_query ==
  /\ phase = "idle"
  /\ round < MaxRounds
  /\ \E w \in [batch.asked -> UNION {SlotsOf(NumEntries(b)) : b \in batch.asked}] :
       /\ \A b \in batch.asked : w[b] \in SlotsOf(NumEntries(b))
       /\ want' = [b \in BatchSlots |-> IF Asked(b) THEN w[b] ELSE None]
       /\ IF \A b \in batch.asked : enc_asserts(w[b], Shape(b), NumEntries(b))
          THEN /\ wire' = [b \in BatchSlots |->
                    IF Asked(b) THEN enc_double_pir(w[b], Shape(b), NumEntries(b))
                                ELSE <<>>]
               /\ phase' = "sent"
          ELSE phase' = "client_panic" /\ UNCHANGED wire
  /\ UNCHANGED <<batch, unpacked, parts, memory, reply, got, round>>

----------------------------------------------------------------------------
(* Ciphertexts process_queries reads per query, all at fixed positions.    *)
SectionsRead ==
  GK_DIGITS + 1 + (IF requires_conj(ServerPrimary) THEN 1 ELSE 0)
            + 1 + (IF requires_conj(ServerSecondary) THEN 1 ELSE 0)

unpack(query) ==
  LET q1 == GK_DIGITS + 1
      q2 == q1 + (IF requires_conj(ServerPrimary) THEN 2 ELSE 1)
  IN  [primary        |-> query[q1],
       primary_conj   |-> IF requires_conj(ServerPrimary) THEN query[q1 + 1] ELSE None,
       secondary      |-> query[q2],
       secondary_conj |-> IF requires_conj(ServerSecondary) THEN query[q2 + 1] ELSE None]

(* Server: process_queries up to the first-level pass.  Too short a query  *)
(* ends in the "not enough data" panic of uncondense.                      *)
process_queries ==
  /\ phase = "sent"
  /\ IF /\ DatabasesLen(0) >= DatabasesLen(1)
        /\ secondary_asserts(DatabasesLen(0))
        /\ \A b \in batch.asked : Len(wire[b]) >= SectionsRead
     THEN /\ unpacked' = [b \in BatchSlots |->
                            IF Asked(b) THEN unpack(wire[b]) ELSE None]
          /\ phase' = "unpacked"
     ELSE phase' = "server_panic" /\ UNCHANGED unpacked
  /\ UNCHANGED <<batch, want, wire, parts, memory, reply, got, round>>

(* The row of a database over index group g that a selector addresses.     *)
Row(g, set, ct, conj) ==
  LET p == query_base_power(g)
  IN  IF /\ ct.seeds = set /\ ~ct.conj
         /\ ct.exp % p = 0 /\ ct.exp \div p < group_order(g)
         /\ requires_conj(g) => conj = Ciphertext(set, 2 * N - ct.exp, TRUE)
      THEN ct.exp \div p
      ELSE Garbage

(* The entry stored at position primary of database db of a fleet; slots   *)
(* past the last advertised entry hold zero padding.                       *)
Entry(num_entries, db, primary) ==
  LET s == db * entries_per_shard(num_entries) + primary
  IN  IF s < num_entries THEN s ELSE Zero

Part(x, j) == [entry |-> x, part |-> j]

(* perform_pir on every database of the fleet: lane k of database i comes  *)
(* out at position i * SIMD_COUNT + k, cut into parts.                     *)
primary_results(num_entries, q) ==
  LET row == Row(index_group_primary(num_entries), "FirstSet", q.primary, q.primary_conj)
  IN  [x \in 0..(num_databases(num_entries) * SIMD_COUNT - 1) |->
        [j \in 0..(CTXT_PARTS - 1) |->
          Part(IF row = Garbage THEN Garbage
               ELSE Entry(num_entries, x \div SIMD_COUNT,
                          row * SIMD_COUNT + (x % SIMD_COUNT)), j)]]

(* The position of b among the occupied batch slots: the assertion after   *)
(* the first phase zips the occupied results with databases_len from the   *)
(* front.                                                                  *)
Rank(b) == Cardinality({c \in batch.asked : c < b})

result_length_assert ==
  \A b \in batch.asked :
    DatabasesLen(Rank(b)) * SIMD_COUNT = DatabasesLen(b) * SIMD_COUNT

primary_phase ==
  /\ phase = "unpacked"
  /\ IF /\ \A b \in BatchSlots :
             DatabasesLen(b) * SIMD_COUNT <= group_order(ServerSecondary)
        /\ \A b \in batch.asked :
             requires_conj(index_group_primary(NumEntries(b)))
               <=> unpacked[b].primary_conj # None
        /\ result_length_assert
     THEN /\ parts' = [b \in BatchSlots |->
                         IF Asked(b) THEN primary_results(NumEntries(b), unpacked[b])
                                     ELSE None]
          /\ phase' = "primary_done"
     ELSE phase' = "server_panic" /\ UNCHANGED parts
  /\ UNCHANGED <<batch, want, wire, unpacked, memory, reply, got, round>>

----------------------------------------------------------------------------
Lanes == 0..(SIMD_COUNT - 1)
ZeroRow == [j \in Lanes |-> Zero]

(* Lane j of row r of the secondary database: part j % CTXT_PARTS of the   *)
(* r-th first-level result of batch slot j / CTXT_PARTS, zero elsewhere.   *)
secondary_row(r) ==
  [j \in Lanes |->
     LET b == j \div CTXT_PARTS
     IN  IF /\ j < CTXT_PARTS * BATCH_COUNT
            /\ r < SIMD_COUNT * DatabasesLen(b)
            /\ Asked(b)
         THEN parts[b][r][j % CTXT_PARTS]
         ELSE Zero]

Rows == 0..(group_order(ServerSecondary) - 1)

\* mutant: a buffer that is already large enough is taken over as it is
set_db_if_grown(old) ==
  [r \in DOMAIN old \cup Rows |->
     IF r \in DOMAIN old THEN old[r] ELSE secondary_row(r)]

(* The thread-local buffer is grown when it is too short, and set_db       *)
(* overwrites the region of the current secondary database.                *)
set_db(old) ==
  [r \in DOMAIN old \cup Rows |->
     IF r \in Rows THEN secondary_row(r) ELSE old[r]]

(* perform_pir_split: lane i is selected by the query of batch slot        *)
(* i / CTXT_PARTS; batch slot b then takes the next CTXT_PARTS lanes.      *)
lane(mem, i) ==
  LET b == i \div CTXT_PARTS
      row == IF b \in batch.asked
             THEN Row(ServerSecondary, "SecondSet", unpacked[b].secondary,
                      unpacked[b].secondary_conj)
             ELSE Garbage
  IN  IF row = Garbage THEN Garbage ELSE mem[row][i]

secondary_phase ==
  /\ phase = "primary_done"
  /\ memory' = set_db(memory)
  /\ reply' = [b \in BatchSlots |->
       IF Asked(b)
       THEN [j \in 0..(CTXT_PARTS - 1) |-> lane(memory', b * CTXT_PARTS + j)]
       ELSE None]
  /\ phase' = "replied"
  /\ UNCHANGED <<batch, want, wire, unpacked, parts, got, round>>

----------------------------------------------------------------------------
(* Client: dec_double_pir reassembles the parts into one ciphertext.       *)
dec_double_pir(r) ==
  IF /\ \A j \in DOMAIN r : r[j] \notin {Garbage, Zero}
     /\ \A j \in DOMAIN r : r[j] = Part(r[0].entry, j)
  THEN r[0].entry
  ELSE Garbage

process_reply ==
  /\ phase = "replied"
  /\ got' = [b \in BatchSlots |-> IF Asked(b) THEN dec_double_pir(reply[b]) ELSE None]
  /\ phase' = "decoded"
  /\ round' = round + 1
  /\ UNCHANGED <<batch, want, wire, unpacked, parts, memory, reply>>

(* The worker thread takes the next batch; only its buffer outlives one.   *)
next_batch ==
  /\ phase = "decoded"
  /\ round < MaxRounds
  /\ batch' \in Batches
  /\ phase' = "idle"
  /\ want' = [b \in BatchSlots |-> None]
  /\ wire' = [b \in BatchSlots |-> <<>>]
  /\ unpacked' = [b \in BatchSlots |-> None]
  /\ parts' = [b \in BatchSlots |-> None]
  /\ reply' = [b \in BatchSlots |-> None]
  /\ got' = [b \in BatchSlots |-> None]
  /\ UNCHANGED <<memory, round>>

Init ==
  /\ batch \in Batches
  /\ phase = "idle"
  /\ memory = [r \in {} |-> ZeroRow]
  /\ round = 0
  /\ want = [b \in BatchSlots |-> None]
  /\ wire = [b \in BatchSlots |-> <<>>]
  /\ unpacked = [b \in BatchSlots |-> None]
  /\ parts = [b \in BatchSlots |-> None]
  /\ reply = [b \in BatchSlots |-> None]
  /\ got = [b \in BatchSlots |-> None]

Next ==
  \/ prepare_query
  \/ process_queries
  \/ primary_phase
  \/ secondary_phase
  \/ process_reply
  \/ next_batch

Spec == Init /\ [][Next]_vars

----------------------------------------------------------------------------
(* Every query a client put in the batch is answered with exactly the      *)
(* entry stored under the slot it asked for (get_database_shape's promise  *)
(* that both sides derive the same layout from num_entries).               *)
RepliesAreRequested ==
  phase = "decoded" => \A b \in batch.asked : got[b] = want[b]

(* No assertion on either side fails for a batch the interface admits.     *)
NoPanic == phase \notin {"client_panic", "server_panic"}

(* The server reads every ciphertext the client sent: no conjugate is      *)
(* uploaded that the agreed shape does not need.                           *)
QueryFullyRead ==
  phase = "sent" => \A b \in batch.asked : Len(wire[b]) = SectionsRead

(* A batch slot may be left empty independently of the others: "Each entry *)
(* in `queries` is either Some(query_bytes) to be answered or None to      *)
(* leave that batch slot empty" (pir_wrapper.rs:340).                      *)
BatchSlotsAreOptional == phase # "server_panic"

=============================================================================
