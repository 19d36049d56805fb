---------------------------- MODULE ServerBuild ----------------------------
(***************************************************************************)
(* Start-up of a server: build_state decides between dump-only and PIR     *)
(* mode; in PIR mode try_salts runs build_buckets under successive global  *)
(* salts until one attempt lays out the whole zone (server.rs, bucket.rs). *)
(*                                                                         *)
(* The two hashes are arbitrary functions, fixed for the whole run.  The   *)
(* global salt of attempt a is represented by a itself: salt_for_attempt   *)
(* multiplies by an odd constant, so it maps attempts to distinct salts.   *)
(* A record is its kind and its data; a bucket is its salt header, its     *)
(* count field and the entries written behind it.                          *)
(***************************************************************************)
EXTENDS Integers, Sequences, FiniteSets

CONSTANTS
  Zone,                      \* canonical names with an entry in the zone
  Absent,                    \* names a client may ask for that are not there
  RecordsOf,                 \* records of each zone name: A, then AAAA, then NS
  Records,                   \* all records
  NumSlots,                  \* num_entries: how many buckets there are
  Discs,                     \* discriminator values, 14 bits in the code
  MAX_REHASH_RETRIES,        \* 16 in the code
  MAX_BUCKET_SALT_ATTEMPTS,  \* 65536 in the code
  BUCKET_BYTES,              \* 2560 in the code
  MAX_ENTRIES_PER_BUCKET,    \* 65535 in the code
  SlotHashes, DiscHashes,    \* the hash functions considered
  None

Names == Zone \cup Absent
Slots == 0..(NumSlots - 1)
Attempts == 0..(MAX_REHASH_RETRIES - 1)
BucketSalts == 0..(MAX_BUCKET_SALT_ATTEMPTS - 1)
Kinds == {"A", "AAAA", "NS4", "NS6"}

ASSUME BuildAssumption ==
  /\ IsFiniteSet(Zone) /\ Zone \cap Absent = {}
  /\ Records \subseteq [kind : Kinds, data : {r.data : r \in Records}]
  /\ RecordsOf \in [Zone -> Seq(Records)]
  /\ NumSlots \in Nat \ {0}
  /\ MAX_REHASH_RETRIES \in Nat \ {0}
  /\ MAX_BUCKET_SALT_ATTEMPTS \in Nat \ {0}
  /\ BUCKET_BYTES \in Nat /\ MAX_ENTRIES_PER_BUCKET \in Nat
  /\ SlotHashes \subseteq [Attempts -> [Names -> Slots]]
  /\ DiscHashes \subseteq [Attempts -> [BucketSalts -> [Names -> Discs]]]
  /\ None \notin Names

VARIABLES
  slotOf, discOf,   \* bucket::slot and bucket::discriminator
  phase,            \* where build_state is
  attempt,          \* the attempt of try_salts under way
  names_in_bucket,  \* pass 1 of build_buckets
  out,              \* the buckets laid out so far by this attempt
  slot_idx,         \* the bucket pass 2 is at
  todo,             \* names of that bucket not yet written
  cur,              \* the name being written, or None
  done,             \* how many records of cur are written
  pos,              \* byte position behind the last entry
  state             \* the ServerState handed to the workers, or None

hashes == <<slotOf, discOf>>
cursor == <<slot_idx, todo, cur, done, pos>>
vars == <<hashes, phase, attempt, names_in_bucket, out, cursor, state>>

----------------------------------------------------------------------------
(* bucket.rs                                                               *)

BUCKET_SALT_BYTES == 4
COUNT_BYTES == 2
FIRST_ENTRY_OFFSET == BUCKET_SALT_BYTES + COUNT_BYTES

rdata_bytes(kind) == IF kind \in {"A", "NS4"} THEN 4 ELSE 16
entry_size(kind) == 2 + rdata_bytes(kind)

ZeroBucket == [salt |-> 0, count |-> 0, entries |-> <<>>]

\* mutant: an entry may not end on the last byte of the bucket
append_fits_strict(bucket, at, rec) ==
  /\ bucket.count < MAX_ENTRIES_PER_BUCKET
  /\ at + entry_size(rec.kind) < BUCKET_BYTES

(* The two error returns of append_entry; nothing is written on either.    *)
append_fits(bucket, at, rec) ==
  /\ bucket.count < MAX_ENTRIES_PER_BUCKET
  /\ at + entry_size(rec.kind) <= BUCKET_BYTES

\* mutant: the count field is not updated behind a second entry
append_entry_count_once(bucket, disc, rec) ==
  [bucket EXCEPT !.entries = Append(@, [disc |-> disc, rec |-> rec]), !.count = 1]

append_entry(bucket, disc, rec) ==
  [salt |-> bucket.salt,
   count |-> bucket.count + 1,
   entries |-> Append(bucket.entries, [disc |-> disc, rec |-> rec])]

(* The records of the first count entries that carry the discriminator;    *)
(* result[i] is what the decoder's loop has pushed after i entries.        *)
decode_bucket_matching(bucket, want_disc) ==
  LET result[i \in 0..bucket.count] ==
        IF i = 0 THEN <<>>
        ELSE IF bucket.entries[i].disc = want_disc
             THEN Append(result[i - 1], bucket.entries[i].rec)
             ELSE result[i - 1]
  IN  result[bucket.count]

----------------------------------------------------------------------------
(* What a client computes for name n from the advertised salt: the slot,   *)
(* the bucket it retrieves, that bucket's salt, and the entries matching   *)
(* the discriminator under both salts.                                     *)
query(n) ==
  LET bucket == state.buckets[slotOf[state.hash_salt][n]]
  IN  decode_bucket_matching(bucket, discOf[state.hash_salt][bucket.salt][n])

----------------------------------------------------------------------------
Init ==
  /\ slotOf \in SlotHashes
  /\ discOf \in DiscHashes
  /\ phase = "loaded"
  /\ attempt = 0
  /\ names_in_bucket = [s \in Slots |-> {}]
  /\ out = [s \in Slots |-> ZeroBucket]
  /\ slot_idx = 0 /\ todo = {} /\ cur = None /\ done = 0 /\ pos = FIRST_ENTRY_OFFSET
  /\ state = None

(* build_state after Zone::load: with --always-dump the zone is always     *)
(* serialized and compressed; otherwise a zone whose serialization exceeds *)
(* the cap has no dump, and one whose dump is under the threshold is       *)
(* served as that dump alone.                                              *)
build_state(always_dump, over_cap, dump_small) ==
  LET has_dump == always_dump \/ ~over_cap
      go_dump_only == always_dump \/ (has_dump /\ dump_small)
  IN  /\ phase = "loaded"
      /\ phase' = IF go_dump_only THEN "serving" ELSE "attempt"
      /\ state' = IF go_dump_only
                  THEN [mode |-> "dump", dump |-> TRUE, hash_salt |-> 0,
                        buckets |-> None]
                  ELSE None
      /\ UNCHANGED <<hashes, attempt, names_in_bucket, out, cursor>>

(* try_salts enters build_buckets, whose pass 1 groups the names by slot   *)
(* and whose output buckets start zeroed.                                  *)
begin_attempt ==
  /\ phase = "attempt"
  /\ names_in_bucket' = [s \in Slots |-> {n \in Zone : slotOf[attempt][n] = s}]
  /\ out' = [s \in Slots |-> ZeroBucket]
  /\ slot_idx' = 0
  /\ phase' = "buckets"
  /\ UNCHANGED <<hashes, attempt, todo, cur, done, pos, state>>

\* mutant: the retry uses the same salt again
attempt_failed_same_salt ==
  /\ todo' = {} /\ cur' = None /\ done' = 0 /\ pos' = FIRST_ENTRY_OFFSET
  /\ phase' = "attempt" /\ UNCHANGED attempt
  /\ UNCHANGED <<hashes, names_in_bucket, out, slot_idx, state>>

(* An Err from build_buckets: the next salt, or the end of start-up.       *)
attempt_failed ==
  /\ todo' = {} /\ cur' = None /\ done' = 0 /\ pos' = FIRST_ENTRY_OFFSET
  /\ IF attempt + 1 < MAX_REHASH_RETRIES
     THEN attempt' = attempt + 1 /\ phase' = "attempt"
     ELSE phase' = "failed" /\ UNCHANGED attempt
  /\ UNCHANGED <<hashes, names_in_bucket, out, slot_idx, state>>

skip_empty_bucket ==
  /\ phase = "buckets" /\ slot_idx < NumSlots
  /\ names_in_bucket[slot_idx] = {}
  /\ slot_idx' = slot_idx + 1
  /\ UNCHANGED <<hashes, phase, attempt, names_in_bucket, out, todo, cur, done, pos, state>>

\* mutant: the number of discriminators is compared with the names', off by one
collision_free_but_one(a, names, salt) ==
  Cardinality({discOf[a][salt][n] : n \in names}) + 1 >= Cardinality(names)

collision_free(a, names, salt) ==
  \A m, n \in names : discOf[a][salt][m] = discOf[a][salt][n] => m = n

(* find_bucket_salt: the first salt of the sweep without a collision.      *)
usable_salts(a, names) == {salt \in BucketSalts : collision_free(a, names, salt)}

find_bucket_salt ==
  /\ phase = "buckets" /\ slot_idx < NumSlots
  /\ names_in_bucket[slot_idx] # {}
  /\ \E salt \in usable_salts(attempt, names_in_bucket[slot_idx]) :
       /\ \A s \in usable_salts(attempt, names_in_bucket[slot_idx]) : salt <= s
       /\ out' = [out EXCEPT ![slot_idx].salt = salt]
  /\ todo' = names_in_bucket[slot_idx]
  /\ pos' = FIRST_ENTRY_OFFSET
  /\ phase' = "entries"
  /\ UNCHANGED <<hashes, attempt, names_in_bucket, slot_idx, cur, done, state>>

no_bucket_salt ==
  /\ phase = "buckets" /\ slot_idx < NumSlots
  /\ names_in_bucket[slot_idx] # {}
  /\ usable_salts(attempt, names_in_bucket[slot_idx]) = {}
  /\ attempt_failed

(* Names of one bucket are written in the order pass 1 met them, the       *)
(* arbitrary order of the zone's hash map.                                 *)
next_name(n) ==
  /\ phase = "entries" /\ cur = None /\ n \in todo
  /\ cur' = n
  /\ todo' = todo \ {n}
  /\ done' = 0
  /\ UNCHANGED <<hashes, phase, attempt, names_in_bucket, out, slot_idx, pos, state>>

write_record ==
  /\ phase = "entries" /\ cur # None /\ done < Len(RecordsOf[cur])
  /\ LET bucket == out[slot_idx]
         rec == RecordsOf[cur][done + 1]
     IN  /\ append_fits(bucket, pos, rec)
         /\ out' = [out EXCEPT ![slot_idx] =
                      append_entry(bucket, discOf[attempt][bucket.salt][cur], rec)]
         /\ pos' = pos + entry_size(rec.kind)
  /\ done' = done + 1
  /\ UNCHANGED <<hashes, phase, attempt, names_in_bucket, slot_idx, todo, cur, state>>

bucket_overflow ==
  /\ phase = "entries" /\ cur # None /\ done < Len(RecordsOf[cur])
  /\ ~append_fits(out[slot_idx], pos, RecordsOf[cur][done + 1])
  /\ attempt_failed

name_written ==
  /\ phase = "entries" /\ cur # None /\ done = Len(RecordsOf[cur])
  /\ cur' = None
  /\ done' = 0
  /\ UNCHANGED <<hashes, phase, attempt, names_in_bucket, out, slot_idx, todo, pos, state>>

bucket_written ==
  /\ phase = "entries" /\ cur = None /\ todo = {}
  /\ slot_idx' = slot_idx + 1
  /\ phase' = "buckets"
  /\ UNCHANGED <<hashes, attempt, names_in_bucket, out, todo, cur, done, pos, state>>

\* mutant: a retried build advertises the salt of the first attempt
publish_first_salt ==
  /\ phase = "buckets" /\ slot_idx = NumSlots
  /\ state' = [mode |-> "pir", dump |-> FALSE, hash_salt |-> 0, buckets |-> out]
  /\ phase' = "serving"
  /\ UNCHANGED <<hashes, attempt, names_in_bucket, out, cursor>>

(* build_buckets returns; build_state drops the dump and publishes the     *)
(* layout together with the salt it was built under.                       *)
publish ==
  /\ phase = "buckets" /\ slot_idx = NumSlots
  /\ state' = [mode |-> "pir", dump |-> FALSE, hash_salt |-> attempt, buckets |-> out]
  /\ phase' = "serving"
  /\ UNCHANGED <<hashes, attempt, names_in_bucket, out, cursor>>

Next ==
  \/ \E a, o, d \in BOOLEAN : build_state(a, o, d)
  \/ begin_attempt
  \/ skip_empty_bucket
  \/ find_bucket_salt
  \/ no_bucket_salt
  \/ \E n \in Zone : next_name(n)
  \/ write_record
  \/ bucket_overflow
  \/ name_written
  \/ bucket_written
  \/ publish

(* Start-up is one thread that only computes: it keeps going.              *)
Spec == Init /\ [][Next]_vars /\ WF_vars(Next)

----------------------------------------------------------------------------
Entry == [disc : Discs, rec : Records]
Bucket == [salt : BucketSalts, count : Nat, entries : Seq(Entry)]
Layout == [Slots -> Bucket]

(* The build's state always has its type: in particular the count header   *)
(* of a bucket never disagrees with the entries behind it.                 *)
TypeOK ==
  /\ slotOf \in [Attempts -> [Names -> Slots]]
  /\ discOf \in [Attempts -> [BucketSalts -> [Names -> Discs]]]
  /\ phase \in {"loaded", "attempt", "buckets", "entries", "serving", "failed"}
  /\ attempt \in Attempts
  /\ names_in_bucket \in [Slots -> SUBSET Zone]
  /\ out \in Layout
  /\ \A s \in Slots : out[s].count = Len(out[s].entries)
  /\ slot_idx \in 0..NumSlots
  /\ phase = "entries" => slot_idx \in Slots
  /\ todo \in SUBSET Zone
  /\ cur \in Zone \cup {None}
  /\ done \in Nat
  /\ cur # None => done \in 0..Len(RecordsOf[cur])
  /\ pos \in Nat
  /\ state \in {None} \cup [mode : {"dump", "pir"}, dump : BOOLEAN,
                            hash_salt : Attempts, buckets : {None} \cup Layout]

(* The entries of bucket b with discriminator d are one contiguous run     *)
(* that spells recs, in order and without repetition.                      *)
HoldsRun(b, d, recs) ==
  \E off \in 0..(b.count - Len(recs)) :
    /\ \A i \in 1..Len(recs) : b.entries[off + i] = [disc |-> d, rec |-> recs[i]]
    /\ \A i \in 1..b.count : b.entries[i].disc = d => i \in (off + 1)..(off + Len(recs))

(* Once a PIR server is up, the bucket that a client retrieves for any     *)
(* name of the zone under the advertised salt holds, under the             *)
(* discriminator the client derives from the bucket's own salt, exactly    *)
(* that name's records: build_buckets, find_bucket_salt and try_salts      *)
(* together resolved every collision and no retry left a stale salt.       *)
PresentNamesOwnRecords ==
  phase = "serving" /\ state.mode = "pir" =>
    \A n \in Zone :
      LET bucket == state.buckets[slotOf[state.hash_salt][n]]
      IN  HoldsRun(bucket, discOf[state.hash_salt][bucket.salt][n], RecordsOf[n])

NamesIn(a, s) == {n \in Zone : slotOf[a][n] = s}

(* The entries that a set of names needs, each its name and the number of  *)
(* the record, and the bytes of a set of entries, each the entry and the   *)
(* position in it.                                                         *)
EntriesOf(names) == UNION {{n} \X (1..Len(RecordsOf[n])) : n \in names}

SizeOf(e) == entry_size(RecordsOf[e[1]][e[2]].kind)
BytesOf(entries) == UNION {{e} \X (1..SizeOf(e)) : e \in entries}

(* A global salt works when every bucket has a usable salt and room for    *)
(* all its names' records.                                                 *)
Workable(a) ==
  \A s \in Slots :
    LET entries == EntriesOf(NamesIn(a, s))
    IN  /\ usable_salts(a, NamesIn(a, s)) # {}
        /\ FIRST_ENTRY_OFFSET + Cardinality(BytesOf(entries)) <= BUCKET_BYTES
        /\ Cardinality(entries) <= MAX_ENTRIES_PER_BUCKET

(* try_salts passes over a salt only when no order of writing the names    *)
(* could have laid the zone out under it, and gives up only when no salt   *)
(* of the budget works.                                                    *)
NoSaltSkipped ==
  \A a \in Attempts : (a < attempt \/ phase = "failed") => ~Workable(a)

(* Start-up ends: every retry makes progress through the salt budget.      *)
BuildTerminates == <>(phase \in {"serving", "failed"})

Abs == INSTANCE ZoneLookup WITH
  NoAnswers <- None,
  status <- CASE phase = "serving" -> "serving"
              [] phase = "failed" -> "failed"
              [] OTHER -> "starting",
  answers <- IF phase # "serving" THEN None
             ELSE IF state.mode = "dump" THEN RecordsOf
             ELSE [n \in Zone |-> query(n)]

(* The build implements the abstract server: one step publishes exactly    *)
(* the zone's records for every name, or start-up fails, and what is       *)
(* published never changes.                                                *)
ServesTheZone == Abs!Spec

(* What the documentation of DnsServer::query promises: the server rejects *)
(* discriminator collisions at build time, so a reply holds only records   *)
(* of the queried name, and none for a name that is not in the zone.       *)
AbsentNamesGetNothing ==
  phase = "serving" /\ state.mode = "pir" => \A n \in Absent : query(n) = <<>>

=============================================================================
