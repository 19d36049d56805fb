------------------------- MODULE ServerBuildProofs -------------------------
(***************************************************************************)
(* Proofs about ServerBuild: for every zone, every pair of hash functions  *)
(* and every choice of the bounds, a PIR server that comes up holds, for   *)
(* each name of its zone, exactly that name's records; no salt that could  *)
(* work is passed over; and the whole build implements ZoneLookup.         *)
(***************************************************************************)
EXTENDS BucketCodec, NaturalsInduction, WellFoundedInduction, FiniteSetTheorems,
        SequenceTheorems, TLAPS

----------------------------------------------------------------------------
(* The inductive invariant.                                                *)

Disc(b, n) == discOf[attempt][b.salt][n]

NoTrace(b, d) == \A i \in 1..b.count : b.entries[i].disc # d

(* The last k entries of b are the first k of recs, and d occurs nowhere   *)
(* before them: the state of a name that is being written.                 *)
Trailing(b, d, recs, k) ==
  /\ k <= b.count
  /\ \A i \in 1..k : b.entries[b.count - k + i] = [disc |-> d, rec |-> recs[i]]
  /\ \A i \in 1..(b.count - k) : b.entries[i].disc # d

BucketDone(s) ==
  \A n \in NamesIn(attempt, s) : HoldsRun(out[s], Disc(out[s], n), RecordsOf[n])

Grouped ==
  phase \in {"buckets", "entries"} => names_in_bucket = [s \in Slots |-> NamesIn(attempt, s)]

Idle == phase # "entries" => cur = None

EarlierDone ==
  phase \in {"buckets", "entries"} => \A s \in Slots : s < slot_idx => BucketDone(s)

LaterZero ==
  phase \in {"buckets", "entries"} =>
    \A s \in Slots : s > slot_idx \/ (s = slot_idx /\ phase = "buckets") => out[s] = ZeroBucket

CurrentBucket ==
  phase = "entries" =>
    LET b == out[slot_idx]
        names == NamesIn(attempt, slot_idx)
    IN  /\ collision_free(attempt, names, b.salt)
        /\ todo \subseteq names
        /\ cur \in names \cup {None} /\ cur \notin todo
        /\ \A n \in todo : NoTrace(b, Disc(b, n))
        /\ cur # None => Trailing(b, Disc(b, cur), RecordsOf[cur], done)
        /\ \A n \in names : n \notin todo /\ n # cur => HoldsRun(b, Disc(b, n), RecordsOf[n])

Inv ==
  /\ TypeOK
  /\ Grouped
  /\ Idle
  /\ EarlierDone
  /\ LaterZero
  /\ CurrentBucket
  /\ PresentNamesOwnRecords

----------------------------------------------------------------------------
(* Lemmas about appending to a bucket.                                     *)

(* b2 is the bucket b with one entry more.                                 *)
Grown(b, b2, d, r) ==
  /\ b2 \in Bucket /\ b2.salt = b.salt
  /\ b2.count = b.count + 1 /\ b2.count = Len(b2.entries)
  /\ \A i \in 1..b.count : b2.entries[i] = b.entries[i]
  /\ b2.entries[b2.count] = [disc |-> d, rec |-> r]

(* append_entry writes one entry behind the others and leaves them alone.  *)
LEMMA AppendKeepsEntries ==
  ASSUME NEW b \in Bucket, b.count = Len(b.entries),
         NEW d \in Discs, NEW r \in Records
  PROVE  Grown(b, append_entry(b, d, r), d, r)
<1> DEFINE ent == [disc |-> d, rec |-> r]
           b2 == append_entry(b, d, r)
<1>1. ent \in Entry
  BY DEF Entry
<1>2. /\ b.salt \in BucketSalts /\ b.count \in Nat /\ b.entries \in Seq(Entry)
      /\ b = [salt |-> b.salt, count |-> b.count, entries |-> b.entries]
  BY DEF Bucket
<1> HIDE DEF ent
<1>3. b2 = [salt |-> b.salt, count |-> b.count + 1, entries |-> Append(b.entries, ent)]
  BY <1>2 DEF append_entry, ent
<1>4. Append(b.entries, ent) \in Seq(Entry) /\ Len(Append(b.entries, ent)) = b.count + 1
  BY <1>1, <1>2
<1>5. \A i \in 1..b.count : Append(b.entries, ent)[i] = b.entries[i]
  BY <1>1, <1>2
<1>6. Append(b.entries, ent)[b.count + 1] = ent
  BY <1>1, <1>2
<1>7. b2 \in Bucket
  BY <1>2, <1>3, <1>4 DEF Bucket
<1> QED BY <1>3, <1>4, <1>5, <1>6, <1>7 DEF ent, Grown

(* An entry with another discriminator does not disturb a name's run.      *)
LEMMA AppendKeepsRun ==
  ASSUME NEW b \in Bucket, b.count = Len(b.entries),
         NEW d \in Discs, NEW r \in Records,
         NEW e \in Discs, e # d, NEW recs \in Seq(Records),
         HoldsRun(b, e, recs)
  PROVE  HoldsRun(append_entry(b, d, r), e, recs)
<1> DEFINE b2 == append_entry(b, d, r)
<1>0. Grown(b, b2, d, r)
  BY AppendKeepsEntries
<1>1. /\ b2.count = b.count + 1
      /\ \A i \in 1..b.count : b2.entries[i] = b.entries[i]
      /\ b2.entries[b2.count].disc = d
  <2> HIDE DEF b2
  <2> QED BY <1>0 DEF Grown
<1>2. b.count \in Nat /\ Len(recs) \in Nat
  BY DEF Bucket
<1>3. PICK off \in 0..(b.count - Len(recs)) :
        /\ \A i \in 1..Len(recs) : b.entries[off + i] = [disc |-> e, rec |-> recs[i]]
        /\ \A i \in 1..b.count : b.entries[i].disc = e => i \in (off + 1)..(off + Len(recs))
  BY DEF HoldsRun
<1> HIDE DEF b2
<1>4. off \in 0..(b2.count - Len(recs))
  BY <1>1, <1>2
<1>5. \A i \in 1..Len(recs) : b2.entries[off + i] = [disc |-> e, rec |-> recs[i]]
  <2> TAKE i \in 1..Len(recs)
  <2>1. off + i \in 1..b.count BY <1>2
  <2>2. b2.entries[off + i] = b.entries[off + i] BY <2>1, <1>1
  <2>3. b.entries[off + i] = [disc |-> e, rec |-> recs[i]] BY <1>3
  <2> QED BY <2>2, <2>3
<1>6. \A i \in 1..b2.count : b2.entries[i].disc = e => i \in (off + 1)..(off + Len(recs))
  <2> TAKE i \in 1..b2.count
  <2>1. CASE i = b2.count BY <2>1, <1>1
  <2>2. CASE i \in 1..b.count BY <2>2, <1>1, <1>3
  <2>3. i = b2.count \/ i \in 1..b.count BY <1>1, <1>2
  <2> QED BY <2>1, <2>2, <2>3
<1> QED BY <1>4, <1>5, <1>6 DEF HoldsRun, b2

(* Writing the next record of the name under way extends its run.          *)
LEMMA AppendExtendsTrailing ==
  ASSUME NEW b \in Bucket, b.count = Len(b.entries),
         NEW d \in Discs, NEW recs \in Seq(Records),
         NEW k \in 0..(Len(recs) - 1),
         Trailing(b, d, recs, k)
  PROVE  Trailing(append_entry(b, d, recs[k + 1]), d, recs, k + 1)
<1> DEFINE b2 == append_entry(b, d, recs[k + 1])
<1>0. recs[k + 1] \in Records
  OBVIOUS
<1>1. /\ b2.count = b.count + 1
      /\ \A i \in 1..b.count : b2.entries[i] = b.entries[i]
      /\ b2.entries[b2.count] = [disc |-> d, rec |-> recs[k + 1]]
  <2>1. Grown(b, b2, d, recs[k + 1]) BY <1>0, AppendKeepsEntries
  <2> HIDE DEF b2
  <2> QED BY <2>1 DEF Grown
<1>2. b.count \in Nat /\ k <= b.count /\ k \in Nat
  BY DEF Bucket, Trailing
<1> HIDE DEF b2
<1>3. \A i \in 1..(k + 1) : b2.entries[b2.count - (k + 1) + i] = [disc |-> d, rec |-> recs[i]]
  <2> TAKE i \in 1..(k + 1)
  <2>1. CASE i = k + 1
    <3>0. b2.count \in Nat BY <1>1, <1>2
    <3>1. b2.count - (k + 1) + (k + 1) = b2.count BY <3>0, <1>2
    <3> QED BY <3>1, <2>1, <1>1
  <2>2. CASE i \in 1..k
    <3>1. b2.count - (k + 1) + i = b.count - k + i /\ b.count - k + i \in 1..b.count
      BY <2>2, <1>1, <1>2
    <3>2. b.entries[b.count - k + i] = [disc |-> d, rec |-> recs[i]]
      BY <2>2 DEF Trailing
    <3> QED BY <3>1, <3>2, <1>1
  <2> QED BY <2>1, <2>2, <1>2
<1>4. \A i \in 1..(b2.count - (k + 1)) : b2.entries[i].disc # d
  <2> TAKE i \in 1..(b2.count - (k + 1))
  <2>1. i \in 1..(b.count - k) /\ i \in 1..b.count BY <1>1, <1>2
  <2> QED BY <2>1, <1>1 DEF Trailing
<1> QED BY <1>1, <1>2, <1>3, <1>4 DEF Trailing, b2

(* A name all of whose records are written owns its run.                   *)
LEMMA TrailingIsRun ==
  ASSUME NEW b \in Bucket, NEW d \in Discs, NEW recs \in Seq(Records),
         Trailing(b, d, recs, Len(recs))
  PROVE  HoldsRun(b, d, recs)
<1> DEFINE off == b.count - Len(recs)
<1>1. b.count \in Nat /\ Len(recs) \in Nat /\ Len(recs) <= b.count
  BY DEF Bucket, Trailing
<1>2. off \in 0..(b.count - Len(recs))
  BY <1>1
<1>3. \A i \in 1..Len(recs) : b.entries[off + i] = [disc |-> d, rec |-> recs[i]]
  BY DEF Trailing
<1>4. \A i \in 1..b.count : b.entries[i].disc = d => i \in (off + 1)..(off + Len(recs))
  BY <1>1 DEF Trailing
<1> HIDE DEF off
<1> QED BY <1>2, <1>3, <1>4 DEF HoldsRun

(* A name that left no trace is a name of which nothing is written yet.    *)
LEMMA NoTraceIsTrailing ==
  ASSUME NEW b \in Bucket, NEW d, NEW recs, NoTrace(b, d)
  PROVE  Trailing(b, d, recs, 0)
  BY DEF NoTrace, Trailing, Bucket

(* A name that is still to be written keeps leaving no trace while another *)
(* name of its bucket is written.                                          *)
LEMMA AppendKeepsNoTrace ==
  ASSUME NEW b \in Bucket, b.count = Len(b.entries),
         NEW d \in Discs, NEW r \in Records, NEW e \in Discs, e # d,
         NoTrace(b, e)
  PROVE  NoTrace(append_entry(b, d, r), e)
<1> DEFINE b2 == append_entry(b, d, r)
<1>0. Grown(b, b2, d, r)
  BY AppendKeepsEntries
<1>1. /\ b2.count = b.count + 1
      /\ \A i \in 1..b.count : b2.entries[i] = b.entries[i]
      /\ b2.entries[b2.count].disc = d
  <2> HIDE DEF b2
  <2> QED BY <1>0 DEF Grown
<1>2. b.count \in Nat
  BY DEF Bucket
<1> HIDE DEF b2
<1> SUFFICES ASSUME NEW i \in 1..b2.count PROVE b2.entries[i].disc # e
  BY DEF NoTrace, b2
<1>3. CASE i = b2.count BY <1>3, <1>1
<1>4. CASE i \in 1..b.count BY <1>4, <1>1 DEF NoTrace
<1> QED BY <1>1, <1>2, <1>3, <1>4

----------------------------------------------------------------------------
(* Consequences of the assumptions and of TypeOK.                          *)

(* A zone name has a sequence of records.                                  *)
LEMMA RecordsTyped == ASSUME NEW n \in Zone PROVE RecordsOf[n] \in Seq(Records)
  BY BuildAssumption

(* The discriminator under the current salts is a discriminator value.     *)
LEMMA DiscTyped ==
  ASSUME TypeOK, NEW b \in Bucket, NEW n \in Zone
  PROVE  Disc(b, n) \in Discs
  BY DEF TypeOK, Disc, Bucket, Names

(* A zeroed bucket is well-formed: salt 0 is a salt of the sweep, and its  *)
(* count agrees with its absent entries.                                   *)
LEMMA ZeroBucketTyped == ZeroBucket \in Bucket /\ ZeroBucket.count = Len(ZeroBucket.entries)
<1>1. 0 \in BucketSalts /\ <<>> \in Seq(Entry) /\ Len(<<>>) = 0
  BY BuildAssumption DEF BucketSalts
<1> QED BY <1>1 DEF ZeroBucket, Bucket

(* No name is mistaken for the absence of one.                             *)
LEMMA NoneNotInZone == None \notin Zone
  BY BuildAssumption DEF Names

(* The invariant holds before build_state starts.                          *)
LEMMA InitInv == Init => Inv
<1> SUFFICES ASSUME Init PROVE Inv
  OBVIOUS
<1> USE DEF Init
<1>1. TypeOK
  <2>1. 0 \in Attempts /\ 0 \in 0..NumSlots /\ FIRST_ENTRY_OFFSET \in Nat
    BY BuildAssumption DEF Attempts, FIRST_ENTRY_OFFSET, BUCKET_SALT_BYTES, COUNT_BYTES
  <2>2. out \in Layout /\ \A s \in Slots : out[s].count = Len(out[s].entries)
    BY ZeroBucketTyped DEF Layout
  <2> QED BY <2>1, <2>2, NoneNotInZone, BuildAssumption DEF TypeOK
<1> QED BY <1>1 DEF Inv, Grouped, Idle, EarlierDone, LaterZero, CurrentBucket,
                    PresentNamesOwnRecords

----------------------------------------------------------------------------
(* Types are preserved, action by action.                                  *)

CountsAgree == \A s \in Slots : out[s].count = Len(out[s].entries)

(* Replacing one bucket by a well-formed one keeps the layout well-formed. *)
LEMMA UpdatedLayout ==
  ASSUME out \in Layout, CountsAgree,
         NEW s0 \in Slots, NEW b \in Bucket, b.count = Len(b.entries),
         out' = [out EXCEPT ![s0] = b]
  PROVE  out' \in Layout /\ CountsAgree'
<1>1. out' \in Layout
  BY DEF Layout
<1>2. \A s \in Slots : out'[s] = IF s = s0 THEN b ELSE out[s]
  BY DEF Layout
<1> QED BY <1>1, <1>2 DEF CountsAgree

(* A failed attempt leaves a well-typed state.                             *)
LEMMA FailedAttemptType == ASSUME TypeOK, attempt_failed PROVE TypeOK'
<1>1. attempt' \in Attempts
  BY BuildAssumption DEF TypeOK, attempt_failed, Attempts, cursor
<1>2. FIRST_ENTRY_OFFSET \in Nat
  BY DEF FIRST_ENTRY_OFFSET, BUCKET_SALT_BYTES, COUNT_BYTES
<1> QED BY <1>1, <1>2 DEF TypeOK, attempt_failed, hashes

(* Every step of the build preserves the types.                            *)
LEMMA TypeStep == TypeOK /\ [Next]_vars => TypeOK'
<1> SUFFICES ASSUME TypeOK, [Next]_vars PROVE TypeOK'
  OBVIOUS
<1> USE DEF TypeOK
<1>1. ASSUME NEW a \in BOOLEAN, NEW o \in BOOLEAN, NEW d \in BOOLEAN, build_state(a, o, d)
      PROVE  TypeOK'
  <2>1. 0 \in Attempts
    BY BuildAssumption DEF Attempts
  <2>2. state' \in {None, [mode |-> "dump", dump |-> TRUE, hash_salt |-> 0, buckets |-> None]}
    BY <1>1 DEF build_state
  <2>3. phase' \in {"serving", "attempt"}
    BY <1>1 DEF build_state
  <2> QED BY <1>1, <2>1, <2>2, <2>3 DEF build_state, hashes, cursor
<1>2. CASE begin_attempt
  <2>1. out' \in Layout /\ \A s \in Slots : out'[s].count = Len(out'[s].entries)
    BY <1>2, ZeroBucketTyped DEF begin_attempt, Layout
  <2>2. names_in_bucket' \in [Slots -> SUBSET Zone]
    BY <1>2 DEF begin_attempt
  <2>3. 0 \in 0..NumSlots
    BY BuildAssumption
  <2> QED BY <1>2, <2>1, <2>2, <2>3 DEF begin_attempt, hashes
<1>3. CASE skip_empty_bucket
  BY <1>3, BuildAssumption DEF skip_empty_bucket, hashes
<1>4. CASE find_bucket_salt
  <2>1. slot_idx \in Slots
    BY <1>4, BuildAssumption DEF find_bucket_salt, Slots
  <2>2. PICK salt \in BucketSalts : out' = [out EXCEPT ![slot_idx].salt = salt]
    BY <1>4 DEF find_bucket_salt, usable_salts
  <2> DEFINE nb == [out[slot_idx] EXCEPT !.salt = salt]
  <2>3. out' = [out EXCEPT ![slot_idx] = nb]
    BY <2>2
  <2>4. out[slot_idx] \in Bucket
    BY <2>1 DEF Layout
  <2>5. nb \in Bucket /\ nb.count = Len(nb.entries)
    BY <2>1, <2>4 DEF Bucket
  <2> HIDE DEF nb
  <2>6. out' \in Layout /\ CountsAgree'
    <3>1. out \in Layout /\ CountsAgree BY DEF CountsAgree
    <3> HIDE DEF TypeOK
    <3> QED BY <3>1, <2>1, <2>3, <2>5, UpdatedLayout
  <2>7. FIRST_ENTRY_OFFSET \in Nat
    BY DEF FIRST_ENTRY_OFFSET, BUCKET_SALT_BYTES, COUNT_BYTES
  <2>8. todo' \in SUBSET Zone
    BY <1>4, <2>1 DEF find_bucket_salt
  <2> QED BY <1>4, <2>1, <2>6, <2>7, <2>8 DEF find_bucket_salt, hashes, CountsAgree
<1>5. CASE no_bucket_salt
  BY <1>5, FailedAttemptType DEF no_bucket_salt
<1>6. ASSUME NEW n \in Zone, next_name(n) PROVE TypeOK'
  BY <1>6, RecordsTyped DEF next_name, hashes
<1>7. CASE write_record
  <2>1. cur \in Zone /\ slot_idx \in Slots /\ done \in 0..(Len(RecordsOf[cur]) - 1)
    BY <1>7 DEF write_record
  <2> DEFINE b == out[slot_idx]
             r == RecordsOf[cur][done + 1]
             d == discOf[attempt][b.salt][cur]
  <2>2. RecordsOf[cur] \in Seq(Records) /\ r \in Records
    BY <2>1, RecordsTyped
  <2>3. b \in Bucket /\ b.count = Len(b.entries)
    BY <2>1 DEF Layout
  <2>4. d \in Discs
    BY <2>1, <2>3, DiscTyped DEF Disc
  <2> DEFINE nb == append_entry(b, d, r)
  <2>6. out' = [out EXCEPT ![slot_idx] = nb]
    BY <1>7 DEF write_record
  <2> HIDE DEF b, r, d
  <2>5. nb \in Bucket /\ nb.count = Len(nb.entries)
    <3> HIDE DEF TypeOK
    <3>1. Grown(b, nb, d, r) BY <2>2, <2>3, <2>4, AppendKeepsEntries
    <3> HIDE DEF nb
    <3> QED BY <3>1 DEF Grown
  <2> HIDE DEF nb
  <2>7. out' \in Layout /\ CountsAgree'
    <3>1. out \in Layout /\ CountsAgree BY DEF CountsAgree
    <3> HIDE DEF TypeOK
    <3> QED BY <3>1, <2>1, <2>5, <2>6, UpdatedLayout
  <2>8. pos' \in Nat
    BY <1>7 DEF write_record, entry_size, rdata_bytes
  <2>9. done' \in 0..Len(RecordsOf[cur])
    BY <1>7, <2>1, <2>2 DEF write_record
  <2>10. UNCHANGED <<slotOf, discOf, phase, attempt, names_in_bucket, slot_idx, todo, cur, state>>
    BY <1>7 DEF write_record, hashes
  <2>11. done' \in Nat
    BY <2>9, <2>2
  <2> QED BY <2>1, <2>7, <2>8, <2>9, <2>10, <2>11 DEF CountsAgree
<1>8. CASE bucket_overflow
  BY <1>8, FailedAttemptType DEF bucket_overflow
<1>9. CASE name_written
  BY <1>9 DEF name_written, hashes
<1>10. CASE bucket_written
  BY <1>10, BuildAssumption DEF bucket_written, hashes, Slots
<1>11. CASE publish
  BY <1>11 DEF publish, hashes, cursor
<1>12. CASE UNCHANGED vars
  BY <1>12 DEF vars, hashes, cursor
<1> QED BY <1>1, <1>2, <1>3, <1>4, <1>5, <1>6, <1>7, <1>8, <1>9, <1>10, <1>11, <1>12 DEF Next

(* Every field of the build has its type, and every bucket's count header  *)
(* agrees with the entries written behind it, whatever the zone, the       *)
(* hashes and the bounds.                                                  *)
THEOREM TypeCorrect == Spec => []TypeOK
<1>1. Init => TypeOK
  BY InitInv DEF Inv
<1> QED BY <1>1, TypeStep, PTL DEF Spec

----------------------------------------------------------------------------
(* The invariant is preserved, action by action.                           *)

(* After a failed attempt nothing is claimed of the abandoned layout.      *)
LEMMA FailedAttemptInv == ASSUME Inv, attempt_failed PROVE Inv'
<1>1. TypeOK'
  BY FailedAttemptType DEF Inv
<1>2. phase' \in {"attempt", "failed"} /\ cur' = None
  BY DEF attempt_failed
<1> QED BY <1>1, <1>2 DEF Inv, Grouped, Idle, EarlierDone, LaterZero, CurrentBucket,
                          PresentNamesOwnRecords

(* A bucket that is not touched stays finished.                            *)
LEMMA BucketDoneStays ==
  ASSUME UNCHANGED <<hashes, attempt>>, NEW s \in Slots, out'[s] = out[s], BucketDone(s)
  PROVE  BucketDone(s)'
  BY DEF BucketDone, NamesIn, Disc, hashes

(* The empty bucket of pass 2 is the one being written.                    *)
LEMMA FindSaltInv == ASSUME Inv, TypeOK', find_bucket_salt PROVE Inv'
<1> DEFINE names == NamesIn(attempt, slot_idx)
<1>1. slot_idx \in Slots /\ names_in_bucket[slot_idx] = names
  BY BuildAssumption DEF Inv, TypeOK, Grouped, find_bucket_salt, Slots
<1>2. PICK salt \in BucketSalts :
        /\ collision_free(attempt, names, salt)
        /\ out' = [out EXCEPT ![slot_idx].salt = salt]
  BY <1>1 DEF find_bucket_salt, usable_salts
<1>3. out[slot_idx] = ZeroBucket /\ out \in Layout
  BY <1>1 DEF Inv, TypeOK, LaterZero, find_bucket_salt
<1>4. /\ out'[slot_idx].salt = salt /\ out'[slot_idx].count = 0
      /\ \A s \in Slots : s # slot_idx => out'[s] = out[s]
  BY <1>1, <1>2, <1>3 DEF Layout, ZeroBucket
<1>5. /\ UNCHANGED <<hashes, attempt, names_in_bucket, slot_idx, cur, done, state>>
      /\ phase = "buckets" /\ phase' = "entries" /\ todo' = names /\ cur = None
  BY <1>1 DEF find_bucket_salt, Inv, Idle
<1>6. names' = names
  BY <1>5 DEF NamesIn, hashes
<1>7. EarlierDone'
  <2> SUFFICES ASSUME NEW s \in Slots, s < slot_idx PROVE BucketDone(s)'
    BY <1>5 DEF EarlierDone
  <2>1. s # slot_idx
    BY <1>1 DEF Slots
  <2> QED BY <2>1, <1>4, <1>5, BucketDoneStays DEF EarlierDone, Inv
<1>8. LaterZero'
  BY <1>1, <1>4, <1>5 DEF Inv, LaterZero, Slots
<1>9. CurrentBucket'
  <2>1. collision_free(attempt, names, out[slot_idx].salt)'
    BY <1>2, <1>4, <1>5, <1>6 DEF collision_free, hashes
  <2>2. \A n \in names : NoTrace(out[slot_idx], Disc(out[slot_idx], n))'
    BY <1>4, <1>5 DEF NoTrace
  <2>3. None \notin names
    BY NoneNotInZone DEF NamesIn
  <2> HIDE DEF names
  <2> QED BY <1>5, <1>6, <2>1, <2>2, <2>3 DEF CurrentBucket, names
<1> QED BY <1>5, <1>7, <1>8, <1>9 DEF Inv, Grouped, Idle, PresentNamesOwnRecords, NamesIn, hashes

(* Writing one record: the name under way grows its run, the others of the *)
(* bucket keep theirs because the bucket's salt separates them from it.    *)
LEMMA WriteRecordInv == ASSUME Inv, TypeOK', write_record PROVE Inv'
<1> DEFINE names == NamesIn(attempt, slot_idx)
           b == out[slot_idx]
           r == RecordsOf[cur][done + 1]
           d == Disc(b, cur)
           b2 == append_entry(b, d, r)
<1>0. TypeOK
  BY DEF Inv
<1>1. /\ phase = "entries" /\ slot_idx \in Slots /\ cur # None /\ cur \in Zone
      /\ done \in 0..(Len(RecordsOf[cur]) - 1)
  <2>1. phase = "entries" /\ cur # None /\ done < Len(RecordsOf[cur])
    BY DEF write_record
  <2>2. slot_idx \in Slots /\ cur \in Zone /\ done \in 0..Len(RecordsOf[cur])
    BY <1>0, <2>1 DEF TypeOK
  <2>3. Len(RecordsOf[cur]) \in Nat
    BY <2>2, RecordsTyped
  <2> QED BY <2>1, <2>2, <2>3
<1>2. UNCHANGED <<hashes, phase, attempt, names_in_bucket, slot_idx, todo, cur, state>>
      /\ done' = done + 1
  BY DEF write_record
<1>3. b \in Bucket /\ b.count = Len(b.entries) /\ out \in Layout
  BY <1>0, <1>1 DEF TypeOK, Layout
<1>4. RecordsOf[cur] \in Seq(Records) /\ r \in Records
  BY <1>1, RecordsTyped
<1>5. \A n \in Zone : Disc(b, n) \in Discs
  BY <1>0, <1>3, DiscTyped
<1>6. out' = [out EXCEPT ![slot_idx] = b2]
  BY DEF write_record, Disc
<1>7. out'[slot_idx] = b2 /\ \A s \in Slots : s # slot_idx => out'[s] = out[s]
  BY <1>1, <1>3, <1>6 DEF Layout
<1>8. names' = names /\ names \subseteq Zone
  BY <1>2 DEF NamesIn, hashes
<1>9. /\ collision_free(attempt, names, b.salt) /\ todo \subseteq names
      /\ cur \in names /\ cur \notin todo
      /\ \A n \in todo : NoTrace(b, Disc(b, n))
      /\ Trailing(b, d, RecordsOf[cur], done)
      /\ \A n \in names : n \notin todo /\ n # cur => HoldsRun(b, Disc(b, n), RecordsOf[n])
  BY <1>1 DEF Inv, CurrentBucket
<1>10. \A n \in names : n # cur => Disc(b, n) # d
  BY <1>9 DEF collision_free, Disc
<1> HIDE DEF b, d, r, names
<1>11. b2.salt = b.salt
  <2>1. d \in Discs BY <1>1, <1>5 DEF d
  <2>2. Grown(b, b2, d, r) BY <2>1, <1>3, <1>4, AppendKeepsEntries
  <2> HIDE DEF b2
  <2> QED BY <2>2 DEF Grown
<1> HIDE DEF b2
<1>13. EarlierDone'
  <2> SUFFICES ASSUME NEW s \in Slots, s < slot_idx PROVE BucketDone(s)'
    BY <1>1, <1>2 DEF EarlierDone
  <2>1. s # slot_idx
    BY <1>1 DEF Slots
  <2> QED BY <2>1, <1>1, <1>2, <1>7, BucketDoneStays DEF EarlierDone, Inv
<1>14. LaterZero'
  BY <1>1, <1>2, <1>7 DEF Inv, LaterZero, Slots
<1>15. \A n \in todo : NoTrace(b2, Disc(b, n))
  <2> TAKE n \in todo
  <2>1. n \in names /\ n # cur /\ n \in Zone BY <1>8, <1>9
  <2>2. Disc(b, n) # d /\ Disc(b, n) \in Discs /\ d \in Discs
    BY <2>1, <1>1, <1>5, <1>10 DEF d
  <2>3. NoTrace(b, Disc(b, n)) BY <1>9
  <2> QED BY <2>2, <2>3, <1>3, <1>4, AppendKeepsNoTrace DEF b2
<1>16. \A n \in names : n \notin todo /\ n # cur => HoldsRun(b2, Disc(b, n), RecordsOf[n])
  <2> SUFFICES ASSUME NEW n \in names, n \notin todo, n # cur
               PROVE  HoldsRun(b2, Disc(b, n), RecordsOf[n])
    OBVIOUS
  <2>1. n \in Zone /\ RecordsOf[n] \in Seq(Records) BY <1>8, RecordsTyped
  <2>2. Disc(b, n) # d /\ Disc(b, n) \in Discs /\ d \in Discs
    BY <2>1, <1>1, <1>5, <1>10 DEF d
  <2>3. HoldsRun(b, Disc(b, n), RecordsOf[n]) BY <1>9
  <2> QED BY <2>1, <2>2, <2>3, <1>3, <1>4, AppendKeepsRun DEF b2
<1>17. Trailing(b2, d, RecordsOf[cur], done + 1)
  <2>1. d \in Discs BY <1>1, <1>5 DEF d
  <2> QED BY <2>1, <1>1, <1>3, <1>4, <1>9, AppendExtendsTrailing DEF b2, r
<1>18. CurrentBucket'
  <2>1. out'[slot_idx'] = b2
    BY <1>2, <1>7
  <2>2. collision_free(attempt, names, b.salt)'
    <3>1. b2.salt = b.salt /\ attempt' = attempt /\ discOf' = discOf BY <1>2, <1>11 DEF hashes
    <3>2. (b.salt)' = b.salt BY <3>1, <2>1, <1>2 DEF b
    <3> QED BY <3>1, <3>2, <1>8, <1>9 DEF collision_free
  <2>3. \A n \in Zone : Disc(out[slot_idx], n)' = Disc(b, n)
    BY <2>1, <1>2, <1>11 DEF Disc, hashes
  <2>4. NamesIn(attempt, slot_idx)' = names
    BY <1>8 DEF names
  <2>5. collision_free(attempt, NamesIn(attempt, slot_idx), out[slot_idx].salt)'
    BY <2>2 DEF names, b
  <2>6. \A n \in todo' : NoTrace(out[slot_idx], Disc(out[slot_idx], n))'
    <3> TAKE n \in todo'
    <3>1. n \in todo /\ n \in Zone BY <1>2, <1>8, <1>9
    <3>2. NoTrace(b2, Disc(b, n)) BY <3>1, <1>15
    <3> QED BY <2>1, <2>3, <3>1, <3>2 DEF NoTrace
  <2>7. Trailing(out[slot_idx], Disc(out[slot_idx], cur), RecordsOf[cur], done)'
    BY <2>1, <2>3, <1>1, <1>2, <1>17 DEF Trailing, d
  <2>8. \A n \in names : n \notin todo /\ n # cur =>
          HoldsRun(out[slot_idx], Disc(out[slot_idx], n), RecordsOf[n])'
    <3> SUFFICES ASSUME NEW n \in names, n \notin todo, n # cur
                 PROVE  HoldsRun(out[slot_idx], Disc(out[slot_idx], n), RecordsOf[n])'
      OBVIOUS
    <3>1. n \in Zone BY <1>8
    <3> QED BY <2>1, <2>3, <3>1, <1>16 DEF HoldsRun
  <2> QED BY <1>2, <1>9, <2>4, <2>5, <2>6, <2>7, <2>8 DEF CurrentBucket
<1>19. Grouped'
  <2>1. Grouped BY DEF Inv
  <2> QED BY <2>1, <1>1, <1>2 DEF Grouped, NamesIn, hashes
<1> QED BY <1>1, <1>2, <1>13, <1>14, <1>18, <1>19 DEF Inv, Idle, PresentNamesOwnRecords

(* Taking up the next name of the bucket, and finishing it: the bucket is  *)
(* not written, only the name's role changes.                              *)
LEMMA NameTurnInv ==
  ASSUME Inv, TypeOK', (\E n \in Zone : next_name(n)) \/ name_written
  PROVE  Inv'
<1> DEFINE names == NamesIn(attempt, slot_idx)
           b == out[slot_idx]
<1>0. TypeOK /\ CurrentBucket /\ Grouped
  BY DEF Inv
<1>1. /\ phase = "entries" /\ slot_idx \in Slots /\ b \in Bucket
      /\ UNCHANGED <<hashes, phase, attempt, names_in_bucket, out, slot_idx, pos, state>>
  BY <1>0 DEF TypeOK, Layout, next_name, name_written
<1>2. names' = names /\ b' = b /\ names \subseteq Zone /\ None \notin names
      /\ \A n \in names : Disc(b, n)' = Disc(b, n) /\ Disc(b, n) \in Discs
  BY <1>0, <1>1, DiscTyped, NoneNotInZone DEF NamesIn, Disc, hashes
<1>3. /\ collision_free(attempt, names, b.salt)' /\ todo \subseteq names
      /\ \A n \in todo : NoTrace(b, Disc(b, n))
      /\ \A n \in names : n \notin todo /\ n # cur => HoldsRun(b, Disc(b, n), RecordsOf[n])
      /\ cur \in names \cup {None} /\ cur \notin todo
      /\ cur # None => Trailing(b, Disc(b, cur), RecordsOf[cur], done)
  BY <1>0, <1>1, <1>2 DEF CurrentBucket, collision_free, hashes
<1>4. EarlierDone' /\ LaterZero' /\ Grouped' /\ Idle' /\ PresentNamesOwnRecords'
  BY <1>1, BucketDoneStays DEF Inv, EarlierDone, LaterZero, Grouped, Idle, NamesIn,
                               PresentNamesOwnRecords, hashes
<1>5. CurrentBucket'
  <2>1. ASSUME NEW n \in Zone, next_name(n) PROVE CurrentBucket'
    <3>1. cur = None /\ n \in todo /\ cur' = n /\ todo' = todo \ {n} /\ done' = 0
      BY <2>1 DEF next_name
    <3>2. Trailing(b, Disc(b, n), RecordsOf[n], 0)
      BY <3>1, <1>1, <1>3, NoTraceIsTrailing
    <3>3. Trailing(b, Disc(b, cur), RecordsOf[cur], done)'
      BY <3>1, <3>2, <1>2, <1>3 DEF Trailing
    <3>4. \A m \in todo' : NoTrace(b, Disc(b, m))'
      BY <3>1, <1>2, <1>3 DEF NoTrace
    <3>5. \A m \in names : m \notin todo' /\ m # cur' => HoldsRun(b, Disc(b, m), RecordsOf[m])'
      BY <3>1, <1>2, <1>3 DEF HoldsRun
    <3> HIDE DEF names, b
    <3> QED BY <3>1, <3>3, <3>4, <3>5, <1>2, <1>3 DEF CurrentBucket, names, b
  <2>2. CASE name_written
    <3>1. cur # None /\ done = Len(RecordsOf[cur]) /\ cur' = None /\ todo' = todo
      BY <2>2 DEF name_written
    <3>2. HoldsRun(b, Disc(b, cur), RecordsOf[cur])
      BY <3>1, <1>1, <1>2, <1>3, RecordsTyped, TrailingIsRun
    <3>3. \A m \in names : m \notin todo' => HoldsRun(b, Disc(b, m), RecordsOf[m])'
      <4>1. \A m \in names : m \notin todo => HoldsRun(b, Disc(b, m), RecordsOf[m])
        BY <3>2, <1>3
      <4>2. \A m \in names : Disc(b, m)' = Disc(b, m)
        BY <1>2
      <4> QED BY <4>1, <4>2, <3>1, <1>2 DEF HoldsRun
    <3>4. \A m \in todo' : NoTrace(b, Disc(b, m))'
      BY <3>1, <1>2, <1>3 DEF NoTrace
    <3> HIDE DEF names, b
    <3> QED BY <3>1, <3>3, <3>4, <1>2, <1>3 DEF CurrentBucket, names, b
  <2> QED BY <2>1, <2>2
<1> QED BY <1>4, <1>5 DEF Inv

(* The cursor leaves a bucket, empty or finished.                          *)
LEMMA NextBucketInv ==
  ASSUME Inv, TypeOK', skip_empty_bucket \/ bucket_written
  PROVE  Inv'
<1>0. TypeOK /\ Grouped /\ EarlierDone /\ LaterZero /\ CurrentBucket
  BY DEF Inv
<1>1. /\ phase \in {"buckets", "entries"} /\ slot_idx \in Slots /\ cur = None
      /\ phase' = "buckets" /\ slot_idx' = slot_idx + 1
      /\ UNCHANGED <<hashes, attempt, names_in_bucket, out, cur, state>>
  BY <1>0, BuildAssumption DEF TypeOK, Slots, skip_empty_bucket, bucket_written, Inv, Idle
<1>2. BucketDone(slot_idx)
  <2>1. CASE skip_empty_bucket
    BY <2>1, <1>0, <1>1 DEF skip_empty_bucket, Grouped, BucketDone
  <2>2. CASE bucket_written
    <3>1. phase = "entries" /\ cur = None /\ todo = {}
      BY <2>2 DEF bucket_written
    <3>2. None \notin NamesIn(attempt, slot_idx)
      BY NoneNotInZone DEF NamesIn
    <3> QED BY <3>1, <3>2, <1>0 DEF CurrentBucket, BucketDone
  <2> QED BY <2>1, <2>2
<1>3. EarlierDone'
  <2> SUFFICES ASSUME NEW s \in Slots, s < slot_idx + 1 PROVE BucketDone(s)'
    BY <1>1 DEF EarlierDone
  <2>1. s < slot_idx \/ s = slot_idx
    BY <1>1 DEF Slots
  <2>2. BucketDone(s)
    BY <2>1, <1>0, <1>1, <1>2 DEF EarlierDone
  <2> QED BY <2>2, <1>1, BucketDoneStays
<1>4. LaterZero'
  BY <1>0, <1>1 DEF LaterZero, Slots
<1>5. Grouped'
  BY <1>0, <1>1 DEF Grouped, NamesIn, hashes
<1> QED BY <1>1, <1>3, <1>4, <1>5 DEF Inv, Idle, CurrentBucket, PresentNamesOwnRecords

(* The layout is published only when every bucket is finished, and with    *)
(* the salt it was built under.                                            *)
LEMMA PublishInv == ASSUME Inv, TypeOK', publish PROVE Inv'
<1>0. TypeOK /\ EarlierDone /\ Idle
  BY DEF Inv
<1>1. /\ phase = "buckets" /\ slot_idx = NumSlots /\ phase' = "serving"
      /\ UNCHANGED <<hashes, attempt, cur>>
      /\ state' = [mode |-> "pir", dump |-> FALSE, hash_salt |-> attempt, buckets |-> out]
  BY DEF publish, cursor
<1>2. \A n \in Zone : slotOf[attempt][n] \in Slots
  BY <1>0 DEF TypeOK, Names
<1>3. PresentNamesOwnRecords'
  <2> SUFFICES ASSUME NEW n \in Zone
               PROVE  HoldsRun(out[slotOf[attempt][n]],
                               discOf[attempt][out[slotOf[attempt][n]].salt][n], RecordsOf[n])
    <3>1. slotOf' = slotOf /\ discOf' = discOf BY <1>1 DEF hashes
    <3>2. state'.mode = "pir" /\ state'.hash_salt = attempt /\ state'.buckets = out
      BY <1>1
    <3> QED BY <3>1, <3>2, <1>1 DEF PresentNamesOwnRecords
  <2> DEFINE s == slotOf[attempt][n]
  <2>1. s \in Slots /\ s < slot_idx
    BY <1>1, <1>2, BuildAssumption DEF Slots
  <2>2. BucketDone(s) /\ n \in NamesIn(attempt, s)
    BY <2>1, <1>0, <1>1 DEF EarlierDone, NamesIn
  <2> QED BY <2>2 DEF BucketDone, Disc
<1> QED BY <1>0, <1>1, <1>3 DEF Inv, Grouped, Idle, EarlierDone, LaterZero, CurrentBucket

(* Every step of the build preserves the invariant.                        *)
LEMMA InvStep == Inv /\ [Next]_vars => Inv'
<1> SUFFICES ASSUME Inv, [Next]_vars PROVE Inv'
  OBVIOUS
<1>0. TypeOK'
  BY TypeStep DEF Inv
<1>1. ASSUME NEW a \in BOOLEAN, NEW o \in BOOLEAN, NEW d \in BOOLEAN, build_state(a, o, d)
      PROVE  Inv'
  BY <1>0, <1>1 DEF build_state, cursor, Inv, Grouped, Idle, EarlierDone, LaterZero,
                    CurrentBucket, PresentNamesOwnRecords
<1>2. CASE begin_attempt
  <2>1. EarlierDone'
    BY <1>2, BuildAssumption DEF begin_attempt, EarlierDone, Slots
  <2> QED BY <1>0, <1>2, <2>1 DEF begin_attempt, hashes, Inv, Grouped, NamesIn, Idle,
                                  LaterZero, CurrentBucket, PresentNamesOwnRecords
<1>3. CASE no_bucket_salt \/ bucket_overflow
  BY <1>3, FailedAttemptInv DEF no_bucket_salt, bucket_overflow
<1>4. CASE UNCHANGED vars
  <2>1. \A s \in Slots : BucketDone(s) => BucketDone(s)'
    BY <1>4, BucketDoneStays DEF vars
  <2>2. CurrentBucket'
    <3>1. /\ phase' = phase /\ attempt' = attempt /\ out' = out /\ slot_idx' = slot_idx
          /\ todo' = todo /\ cur' = cur /\ done' = done /\ slotOf' = slotOf /\ discOf' = discOf
      BY <1>4 DEF vars, hashes, cursor
    <3>2. CurrentBucket BY DEF Inv
    <3> QED BY <3>1, <3>2 DEF CurrentBucket, NamesIn, collision_free, Disc
  <2>3. EarlierDone' /\ LaterZero'
    BY <1>4, <2>1 DEF vars, cursor, Inv, EarlierDone, LaterZero
  <2>4. PresentNamesOwnRecords'
    <3>1. phase' = phase /\ state' = state /\ slotOf' = slotOf /\ discOf' = discOf
      BY <1>4 DEF vars, hashes
    <3>2. PresentNamesOwnRecords BY DEF Inv
    <3> QED BY <3>1, <3>2 DEF PresentNamesOwnRecords
  <2> QED BY <1>0, <1>4, <2>2, <2>3, <2>4 DEF vars, hashes, cursor, Inv, Grouped, NamesIn, Idle
<1> QED BY <1>0, <1>1, <1>2, <1>3, <1>4, FindSaltInv, WriteRecordInv, NameTurnInv, NextBucketInv,
           PublishInv DEF Next

(* Every name of the zone gets exactly its own records from a PIR server   *)
(* that is up: the retrieved bucket holds them as one contiguous run under *)
(* the name's discriminator and no other entry carries it.                 *)
THEOREM LookupCorrect == Spec => []PresentNamesOwnRecords
<1>1. Inv => PresentNamesOwnRecords
  BY DEF Inv
<1> QED BY <1>1, InitInv, InvStep, PTL DEF Spec

----------------------------------------------------------------------------
(* try_salts skips no salt.  The build is accounted for entry by entry and *)
(* byte by byte: the header count and the write position are those of the  *)
(* entries written so far, which are some of those the bucket needs.       *)

Written ==
  EntriesOf(NamesIn(attempt, slot_idx) \ (todo \cup {cur}))
    \cup (IF cur = None THEN {} ELSE {cur} \X (1..done))

Accounted ==
  phase = "entries" =>
    /\ out[slot_idx].count = Cardinality(Written)
    /\ pos = FIRST_ENTRY_OFFSET + Cardinality(BytesOf(Written))

FullInv == Inv /\ Accounted /\ NoSaltSkipped

(* Entries of a set of names, and their bytes, one by one.                 *)
LEMMA EntriesOfDef ==
  ASSUME NEW names
  PROVE  \A e : e \in EntriesOf(names) <=>
                  \E n \in names : \E i \in 1..Len(RecordsOf[n]) : e = <<n, i>>
  BY DEF EntriesOf

(* The bytes of a set of entries, one by one.                              *)
LEMMA BytesOfDef ==
  ASSUME NEW entries
  PROVE  \A b : b \in BytesOf(entries) <=>
                  \E e \in entries : \E j \in 1..SizeOf(e) : b = <<e, j>>
  BY DEF BytesOf

(* Any entry takes a number of bytes.                                      *)
LEMMA SizeOfNat == ASSUME NEW e PROVE SizeOf(e) \in Nat
  BY DEF SizeOf, entry_size, rdata_bytes

(* A finite set of names of the zone needs a finite set of entries.        *)
LEMMA EntriesFinite ==
  ASSUME NEW names \in SUBSET Zone
  PROVE  IsFiniteSet(EntriesOf(names))
<1> DEFINE F == {{n} \X (1..Len(RecordsOf[n])) : n \in names}
           f == [n \in names |-> {n} \X (1..Len(RecordsOf[n]))]
<1>1. IsFiniteSet(names)
  BY BuildAssumption, FS_Subset
<1>2. f \in Surjection(names, F)
  BY DEF Surjection
<1>3. IsFiniteSet(F)
  <2> HIDE DEF f, F
  <2> QED BY <1>1, <1>2, FS_Surjection
<1>4. \A T \in F : IsFiniteSet(T)
  <2> SUFFICES ASSUME NEW n \in names PROVE IsFiniteSet({n} \X (1..Len(RecordsOf[n])))
    OBVIOUS
  <2>1. Len(RecordsOf[n]) \in Int BY RecordsTyped
  <2>2. IsFiniteSet({n})
    BY FS_Singleton
  <2>3. IsFiniteSet(1..Len(RecordsOf[n]))
    BY <2>1, FS_Interval
  <2> QED BY <2>2, <2>3, FS_Product
<1> HIDE DEF F
<1> QED BY <1>3, <1>4, FS_UNION DEF EntriesOf, F

(* A finite set of entries takes finitely many bytes.                      *)
LEMMA BytesFinite ==
  ASSUME NEW entries, IsFiniteSet(entries)
  PROVE  IsFiniteSet(BytesOf(entries))
<1> DEFINE F == {{e} \X (1..SizeOf(e)) : e \in entries}
           f == [e \in entries |-> {e} \X (1..SizeOf(e))]
<1>2. f \in Surjection(entries, F)
  BY DEF Surjection
<1>3. IsFiniteSet(F)
  <2> HIDE DEF f, F
  <2> QED BY <1>2, FS_Surjection
<1>4. \A T \in F : IsFiniteSet(T)
  <2> SUFFICES ASSUME NEW e \in entries PROVE IsFiniteSet({e} \X (1..SizeOf(e)))
    OBVIOUS
  <2>1. IsFiniteSet({e})
    BY FS_Singleton
  <2>2. SizeOf(e) \in Int
    BY SizeOfNat
  <2>3. IsFiniteSet(1..SizeOf(e))
    BY <2>2, FS_Interval
  <2> QED BY <2>1, <2>3, FS_Product
<1> HIDE DEF F
<1> QED BY <1>3, <1>4, FS_UNION DEF BytesOf, F

(* One entry more is one in the count and its size in the bytes.           *)
LEMMA OneEntryMore ==
  ASSUME NEW W, IsFiniteSet(W), NEW e, e \notin W
  PROVE  /\ Cardinality(W \cup {e}) = Cardinality(W) + 1
         /\ Cardinality(BytesOf(W \cup {e})) = Cardinality(BytesOf(W)) + SizeOf(e)
         /\ Cardinality(W) \in Nat /\ Cardinality(BytesOf(W)) \in Nat
<1> DEFINE B == BytesOf(W)
           E == {e} \X (1..SizeOf(e))
<1>0. SizeOf(e) \in Nat
  BY SizeOfNat
<1>1. IsFiniteSet(B)
  BY BytesFinite
<1>2. IsFiniteSet(E) /\ Cardinality(E) = SizeOf(e)
  <2>1. IsFiniteSet({e}) /\ Cardinality({e}) = 1
    BY FS_Singleton
  <2>2. IsFiniteSet(1..SizeOf(e)) /\ Cardinality(1..SizeOf(e)) = SizeOf(e)
    <3>1. SizeOf(e) \in Int /\ 1 \in Int BY <1>0
    <3>2. /\ IsFiniteSet(1..SizeOf(e))
          /\ Cardinality(1..SizeOf(e)) = IF 1 > SizeOf(e) THEN 0 ELSE SizeOf(e) - 1 + 1
      BY <3>1, FS_Interval
    <3> QED BY <3>2, <1>0
  <2>3. IsFiniteSet(E) /\ Cardinality(E) = 1 * SizeOf(e)
    <3>1. /\ IsFiniteSet({e} \X (1..SizeOf(e)))
          /\ Cardinality({e} \X (1..SizeOf(e))) = Cardinality({e}) * Cardinality(1..SizeOf(e))
      BY <2>1, <2>2, FS_Product, Zenon
    <3> QED BY <2>1, <2>2, <3>1, Zenon
  <2> HIDE DEF E
  <2> QED BY <2>3, <1>0
<1>3. B \cap E = {}
  BY DEF BytesOf
<1>4. BytesOf(W \cup {e}) = B \cup E
  BY DEF BytesOf
<1> HIDE DEF B, E
<1>5. Cardinality(B \cup E) = Cardinality(B) + Cardinality(E) - Cardinality(B \cap E)
  BY <1>1, <1>2, FS_Union
<1>6. Cardinality(B \cap E) = 0
  BY <1>3, FS_EmptySet
<1>7. Cardinality(B) \in Nat /\ Cardinality(W) \in Nat
  BY <1>1, FS_CardinalityType
<1>8. Cardinality(W \cup {e}) = Cardinality(W) + 1
  BY FS_AddElement
<1>9. Cardinality(BytesOf(W \cup {e})) = Cardinality(B) + SizeOf(e)
  <2>1. Cardinality(BytesOf(W \cup {e})) = Cardinality(B \cup E)
    BY <1>4, Zenon
  <2>2. Cardinality(B \cup E) = Cardinality(B) + SizeOf(e) - 0
    BY <1>2, <1>5, <1>6, Zenon
  <2>3. Cardinality(B) + SizeOf(e) - 0 = Cardinality(B) + SizeOf(e)
    BY <1>0, <1>7
  <2> QED BY <2>1, <2>2, <2>3
<1> QED BY <1>7, <1>8, <1>9 DEF B

(* Some of a bucket's entries need no more room than all of them.          *)
LEMMA PartNeedsLess ==
  ASSUME NEW names \in SUBSET Zone, NEW W \in SUBSET EntriesOf(names)
  PROVE  /\ IsFiniteSet(W)
         /\ Cardinality(W) <= Cardinality(EntriesOf(names))
         /\ Cardinality(BytesOf(W)) <= Cardinality(BytesOf(EntriesOf(names)))
         /\ Cardinality(EntriesOf(names)) \in Nat
         /\ Cardinality(BytesOf(EntriesOf(names))) \in Nat
<1>1. IsFiniteSet(EntriesOf(names)) /\ IsFiniteSet(BytesOf(EntriesOf(names)))
  BY EntriesFinite, BytesFinite
<1>2. BytesOf(W) \in SUBSET BytesOf(EntriesOf(names))
  BY DEF BytesOf
<1> QED BY <1>1, <1>2, FS_Subset, FS_CardinalityType

(* What is written belongs to the bucket under way, and a step adds to it  *)
(* what it says.                                                           *)
LEMMA WrittenTyped ==
  ASSUME Inv, phase = "entries"
  PROVE  /\ NamesIn(attempt, slot_idx) \in SUBSET Zone
         /\ Written \in SUBSET EntriesOf(NamesIn(attempt, slot_idx))
         /\ cur # None /\ done < Len(RecordsOf[cur]) =>
              /\ <<cur, done + 1>> \notin Written
              /\ <<cur, done + 1>> \in EntriesOf(NamesIn(attempt, slot_idx))
<1> DEFINE names == NamesIn(attempt, slot_idx)
<1>1. names \in SUBSET Zone
  BY DEF NamesIn
<1>2. cur # None => cur \in names /\ cur \in Zone /\ done \in 0..Len(RecordsOf[cur])
  BY <1>1 DEF Inv, CurrentBucket, TypeOK
<1>3. \A n \in Zone : Len(RecordsOf[n]) \in Nat
  BY RecordsTyped
<1> HIDE DEF names
<1>4. EntriesOf(names \ (todo \cup {cur})) \subseteq EntriesOf(names)
  BY DEF EntriesOf
<1>5. cur # None => {cur} \X (1..done) \subseteq EntriesOf(names)
  BY <1>2, <1>3 DEF EntriesOf
<1>6. ASSUME cur # None, done < Len(RecordsOf[cur])
      PROVE  /\ <<cur, done + 1>> \notin Written
             /\ <<cur, done + 1>> \in EntriesOf(names)
  <2>1. done \in Nat /\ done + 1 \in 1..Len(RecordsOf[cur])
    BY <1>2, <1>3, <1>6
  <2>2. <<cur, done + 1>> \notin {cur} \X (1..done)
    BY <2>1
  <2>3. <<cur, done + 1>> \notin EntriesOf(names \ (todo \cup {cur}))
    BY EntriesOfDef
  <2>4. <<cur, done + 1>> \in EntriesOf(names)
    BY <2>1, <1>2, <1>6, EntriesOfDef
  <2> QED BY <2>2, <2>3, <2>4, <1>6 DEF Written, names
<1> QED BY <1>1, <1>4, <1>5, <1>6 DEF Written, names

(* A salt's workability depends on the hash functions alone.               *)
LEMMA WorkableStays ==
  ASSUME UNCHANGED hashes, NEW a \in Attempts
  PROVE  Workable(a)' <=> Workable(a)
  BY DEF Workable, hashes, NamesIn, usable_salts, collision_free

(* An entry that does not fit refutes the salt of the attempt.             *)
LEMMA OverflowRefutes ==
  ASSUME Inv, Accounted, bucket_overflow
  PROVE  ~Workable(attempt)
<1> DEFINE names == NamesIn(attempt, slot_idx)
           e == <<cur, done + 1>>
<1>1. /\ phase = "entries" /\ cur # None /\ done < Len(RecordsOf[cur])
      /\ ~append_fits(out[slot_idx], pos, RecordsOf[cur][done + 1])
  BY DEF bucket_overflow
<1>2. slot_idx \in Slots /\ cur \in Zone
  BY <1>1 DEF Inv, TypeOK
<1>3. /\ names \in SUBSET Zone /\ Written \in SUBSET EntriesOf(names)
      /\ e \notin Written /\ Written \cup {e} \in SUBSET EntriesOf(names)
  BY <1>1, WrittenTyped
<1>4. /\ out[slot_idx].count = Cardinality(Written)
      /\ pos = FIRST_ENTRY_OFFSET + Cardinality(BytesOf(Written))
  BY <1>1 DEF Accounted
<1>5. SizeOf(e) = entry_size(RecordsOf[cur][done + 1].kind)
  BY DEF SizeOf
<1>6. SizeOf(e) \in Nat /\ FIRST_ENTRY_OFFSET \in Nat
  BY SizeOfNat DEF FIRST_ENTRY_OFFSET, BUCKET_SALT_BYTES, COUNT_BYTES
<1> HIDE DEF e, names
<1>7. /\ IsFiniteSet(Written)
      /\ Cardinality(Written \cup {e}) <= Cardinality(EntriesOf(names))
      /\ Cardinality(BytesOf(Written \cup {e})) <= Cardinality(BytesOf(EntriesOf(names)))
      /\ Cardinality(EntriesOf(names)) \in Nat /\ Cardinality(BytesOf(EntriesOf(names))) \in Nat
  BY <1>3, PartNeedsLess
<1>8. /\ Cardinality(Written \cup {e}) = Cardinality(Written) + 1
      /\ Cardinality(BytesOf(Written \cup {e})) = Cardinality(BytesOf(Written)) + SizeOf(e)
      /\ Cardinality(Written) \in Nat /\ Cardinality(BytesOf(Written)) \in Nat
  BY <1>3, <1>7, OneEntryMore
<1>9. \/ ~(Cardinality(Written) < MAX_ENTRIES_PER_BUCKET)
      \/ ~(FIRST_ENTRY_OFFSET + Cardinality(BytesOf(Written)) + SizeOf(e) <= BUCKET_BYTES)
  BY <1>1, <1>4, <1>5 DEF append_fits
<1>10. \/ ~(Cardinality(EntriesOf(names)) <= MAX_ENTRIES_PER_BUCKET)
       \/ ~(FIRST_ENTRY_OFFSET + Cardinality(BytesOf(EntriesOf(names))) <= BUCKET_BYTES)
  BY <1>6, <1>7, <1>8, <1>9, BuildAssumption, SMTT(30)
<1> QED BY <1>2, <1>10 DEF Workable, names

(* A bucket without a usable salt refutes the salt of the attempt.         *)
LEMMA NoSaltRefutes ==
  ASSUME Inv, no_bucket_salt
  PROVE  ~Workable(attempt)
<1>1. slot_idx \in Slots /\ names_in_bucket[slot_idx] = NamesIn(attempt, slot_idx)
  BY BuildAssumption DEF Inv, TypeOK, Grouped, no_bucket_salt, Slots
<1> QED BY <1>1 DEF no_bucket_salt, Workable

(* A failed attempt passes over a salt that does not work.                 *)
LEMMA FailedAttemptSkips ==
  ASSUME TypeOK, NoSaltSkipped, ~Workable(attempt), attempt_failed, phase # "failed"
  PROVE  NoSaltSkipped'
<1>1. UNCHANGED hashes
  BY DEF attempt_failed
<1>2. \A a \in Attempts : a < attempt => ~Workable(a)
  BY DEF NoSaltSkipped
<1>3. \A a \in Attempts : a <= attempt => ~Workable(a)
  BY <1>2 DEF TypeOK, Attempts
<1>4. ASSUME NEW a \in Attempts, a < attempt' \/ phase' = "failed" PROVE a <= attempt
  BY <1>4, BuildAssumption DEF attempt_failed, TypeOK, Attempts
<1> QED BY <1>1, <1>3, <1>4, WorkableStays DEF NoSaltSkipped

(* The accounting is kept by every step that writes the bucket under way.  *)
LEMMA AccountedStep ==
  ASSUME Inv, Inv', Accounted, [Next]_vars
  PROVE  Accounted'
<1> SUFFICES ASSUME phase' = "entries" PROVE Accounted'
  BY DEF Accounted
<1> DEFINE names == NamesIn(attempt, slot_idx)
<1>0. None \notin names
  BY NoneNotInZone DEF NamesIn
<1>1. CASE find_bucket_salt
  <2>1. slot_idx \in Slots /\ names_in_bucket[slot_idx] = names
    BY <1>1, BuildAssumption DEF Inv, TypeOK, Grouped, find_bucket_salt, Slots
  <2>2. names' = names /\ todo' = names
    BY <1>1, <2>1 DEF find_bucket_salt, NamesIn, hashes
  <2>3. cur' = None
    BY <1>1 DEF find_bucket_salt, Inv, Idle
  <2>4. Written' = {}
    <3> HIDE DEF names
    <3> QED BY <2>2, <2>3 DEF Written, EntriesOf, names
  <2>5. BytesOf({}) = {} /\ Cardinality({}) = 0
    BY FS_EmptySet DEF BytesOf
  <2>6. out[slot_idx] = ZeroBucket /\ out \in Layout
    BY <1>1, <2>1 DEF Inv, TypeOK, LaterZero, find_bucket_salt
  <2>7. out'[slot_idx'].count = 0 /\ pos' = FIRST_ENTRY_OFFSET
    <3>1. PICK salt \in BucketSalts : out' = [out EXCEPT ![slot_idx].salt = salt]
      BY <1>1 DEF find_bucket_salt, usable_salts
    <3> QED BY <3>1, <1>1, <2>1, <2>6 DEF find_bucket_salt, Layout, ZeroBucket
  <2>8. FIRST_ENTRY_OFFSET + 0 = FIRST_ENTRY_OFFSET
    BY DEF FIRST_ENTRY_OFFSET, BUCKET_SALT_BYTES, COUNT_BYTES
  <2>9. Cardinality(Written)' = 0 /\ Cardinality(BytesOf(Written))' = 0
    BY <2>4, <2>5
  <2> QED BY <2>7, <2>8, <2>9 DEF Accounted
<1>2. CASE write_record
  <2> DEFINE e == <<cur, done + 1>>
  <2>1. /\ phase = "entries" /\ cur # None /\ done < Len(RecordsOf[cur])
        /\ UNCHANGED <<hashes, attempt, slot_idx, todo, cur>> /\ done' = done + 1
        /\ pos' = pos + SizeOf(e)
    BY <1>2 DEF write_record, SizeOf
  <2>2. slot_idx \in Slots /\ out \in Layout /\ done \in Nat
    BY <2>1 DEF Inv, TypeOK
  <2>3. /\ Written \in SUBSET EntriesOf(names) /\ names \in SUBSET Zone /\ e \notin Written
    BY <2>1, WrittenTyped
  <2>4. IsFiniteSet(Written)
    BY <2>3, PartNeedsLess
  <2>5. Written' = Written \cup {e}
    <3>1. names' = names
      BY <2>1 DEF NamesIn, hashes
    <3>2. {cur} \X (1..(done + 1)) = ({cur} \X (1..done)) \cup {<<cur, done + 1>>}
      BY <2>2
    <3>3. Written' = EntriesOf(names \ (todo \cup {cur})) \cup ({cur} \X (1..(done + 1)))
      <4> HIDE DEF names
      <4> QED BY <2>1, <3>1 DEF Written, EntriesOf, names
    <3>4. Written = EntriesOf(names \ (todo \cup {cur})) \cup ({cur} \X (1..done))
      BY <2>1 DEF Written
    <3> QED BY <3>2, <3>3, <3>4
  <2>6. out'[slot_idx].count = out[slot_idx].count + 1
    <3>1. out' = [out EXCEPT ![slot_idx] =
                    append_entry(out[slot_idx], discOf[attempt][out[slot_idx].salt][cur],
                                 RecordsOf[cur][done + 1])]
      BY <1>2 DEF write_record
    <3> QED BY <3>1, <2>2 DEF append_entry, Layout
  <2> HIDE DEF e
  <2>7. /\ Cardinality(Written \cup {e}) = Cardinality(Written) + 1
        /\ Cardinality(BytesOf(Written \cup {e})) = Cardinality(BytesOf(Written)) + SizeOf(e)
        /\ Cardinality(BytesOf(Written)) \in Nat
    BY <2>3, <2>4, OneEntryMore
  <2>8. /\ out[slot_idx].count = Cardinality(Written)
        /\ pos = FIRST_ENTRY_OFFSET + Cardinality(BytesOf(Written))
    BY <2>1 DEF Accounted
  <2>9. Cardinality(Written)' = Cardinality(Written) + 1
        /\ Cardinality(BytesOf(Written))' = Cardinality(BytesOf(Written)) + SizeOf(e)
    BY <2>5, <2>7
  <2>10. pos' = FIRST_ENTRY_OFFSET + (Cardinality(BytesOf(Written)) + SizeOf(e))
    <3>1. SizeOf(e) \in Nat /\ FIRST_ENTRY_OFFSET \in Nat
      BY SizeOfNat DEF FIRST_ENTRY_OFFSET, BUCKET_SALT_BYTES, COUNT_BYTES
    <3> QED BY <3>1, <2>1, <2>7, <2>8
  <2> QED BY <2>1, <2>6, <2>8, <2>9, <2>10 DEF Accounted
<1>3. ASSUME phase = "entries", UNCHANGED <<out, slot_idx, pos>>, Written' = Written
      PROVE  Accounted'
  <2>1. Cardinality(Written)' = Cardinality(Written)
        /\ Cardinality(BytesOf(Written))' = Cardinality(BytesOf(Written))
    BY <1>3 DEF BytesOf
  <2> QED BY <1>3, <2>1 DEF Accounted
<1>4. ASSUME NEW n \in Zone, next_name(n) PROVE Accounted'
  <2>1. /\ phase = "entries" /\ cur = None /\ n \in todo /\ cur' = n /\ todo' = todo \ {n}
        /\ done' = 0 /\ UNCHANGED <<hashes, attempt, out, slot_idx, pos>>
    BY <1>4 DEF next_name
  <2>2. names' = names /\ n # None
    BY <2>1, NoneNotInZone DEF NamesIn, hashes
  <2>3. names \ ((todo \ {n}) \cup {n}) = names \ (todo \cup {None})
    BY <2>1, <1>0
  <2>4. {n} \X (1..0) = {}
    OBVIOUS
  <2>5. Written' = Written
    <3> HIDE DEF names
    <3> QED BY <2>1, <2>2, <2>3, <2>4 DEF Written, EntriesOf, names
  <2> QED BY <2>1, <2>5, <1>3
<1>5. CASE name_written
  <2>1. /\ phase = "entries" /\ cur # None /\ done = Len(RecordsOf[cur]) /\ cur' = None
        /\ UNCHANGED <<hashes, attempt, out, slot_idx, pos, todo>>
    BY <1>5 DEF name_written
  <2>2. names' = names /\ cur \in names /\ cur \notin todo
    BY <2>1 DEF NamesIn, hashes, Inv, CurrentBucket
  <2>3. names \ (todo \cup {None}) = (names \ (todo \cup {cur})) \cup {cur}
    BY <2>2, <1>0
  <2> HIDE DEF names
  <2>4. Written' = EntriesOf(names \ (todo \cup {None}))
    BY <2>1, <2>2 DEF Written, EntriesOf, names
  <2>5. Written = EntriesOf(names \ (todo \cup {cur})) \cup ({cur} \X (1..Len(RecordsOf[cur])))
    BY <2>1 DEF Written, names
  <2>6. EntriesOf((names \ (todo \cup {cur})) \cup {cur}) =
          EntriesOf(names \ (todo \cup {cur})) \cup ({cur} \X (1..Len(RecordsOf[cur])))
    BY DEF EntriesOf
  <2>7. Written' = Written
    BY <2>3, <2>4, <2>5, <2>6
  <2> QED BY <2>1, <2>7, <1>3
<1>6. CASE UNCHANGED vars
  <2>1. phase = "entries" /\ UNCHANGED <<slotOf, attempt, slot_idx, todo, cur, done, out, pos>>
    BY <1>6 DEF vars, hashes, cursor
  <2>2. Written' = Written
    BY <2>1 DEF Written, EntriesOf, NamesIn
  <2> QED BY <2>1, <2>2, <1>3
<1>7. ASSUME NEW a \in BOOLEAN, NEW o \in BOOLEAN, NEW d \in BOOLEAN, build_state(a, o, d)
      PROVE  FALSE
  BY <1>7 DEF build_state
<1>8. CASE begin_attempt \/ skip_empty_bucket \/ no_bucket_salt \/ bucket_overflow
             \/ bucket_written \/ publish
  BY <1>8 DEF begin_attempt, skip_empty_bucket, no_bucket_salt, bucket_overflow,
              bucket_written, publish, attempt_failed
<1> QED BY <1>1, <1>2, <1>4, <1>5, <1>6, <1>7, <1>8 DEF Next

(* Every step of the build preserves the full invariant.                   *)
LEMMA FullInvStep == FullInv /\ [Next]_vars => FullInv'
<1> SUFFICES ASSUME FullInv, [Next]_vars PROVE FullInv'
  OBVIOUS
<1>0. Inv /\ Inv' /\ TypeOK /\ Accounted /\ NoSaltSkipped
  BY InvStep DEF FullInv, Inv
<1>1. Accounted'
  BY <1>0, AccountedStep
<1>2. NoSaltSkipped'
  <2>1. CASE no_bucket_salt
    BY <2>1, <1>0, NoSaltRefutes, FailedAttemptSkips DEF no_bucket_salt
  <2>2. CASE bucket_overflow
    BY <2>2, <1>0, OverflowRefutes, FailedAttemptSkips DEF bucket_overflow
  <2>3. ASSUME UNCHANGED <<hashes, attempt>>, phase' = "failed" => phase = "failed"
        PROVE  NoSaltSkipped'
    BY <2>3, <1>0, WorkableStays DEF NoSaltSkipped
  <2>4. ASSUME NEW a \in BOOLEAN, NEW o \in BOOLEAN, NEW d \in BOOLEAN, build_state(a, o, d)
        PROVE  NoSaltSkipped'
    <3>1. UNCHANGED <<hashes, attempt>> /\ phase' # "failed"
      BY <2>4 DEF build_state
    <3> QED BY <3>1, <2>3
  <2>5. ASSUME NEW n \in Zone, next_name(n) PROVE NoSaltSkipped'
    <3>1. UNCHANGED <<hashes, attempt>> /\ phase' # "failed"
      BY <2>5 DEF next_name
    <3> QED BY <3>1, <2>3
  <2>6. CASE begin_attempt \/ skip_empty_bucket \/ find_bucket_salt \/ write_record
               \/ name_written \/ bucket_written \/ publish
    <3>1. UNCHANGED <<hashes, attempt>> /\ phase' # "failed"
      BY <2>6 DEF begin_attempt, skip_empty_bucket, find_bucket_salt, write_record,
                  name_written, bucket_written, publish
    <3> QED BY <3>1, <2>3
  <2>7. CASE UNCHANGED vars
    <3>1. UNCHANGED <<hashes, attempt>> /\ phase' = phase
      BY <2>7 DEF vars
    <3> QED BY <3>1, <2>3
  <2> QED BY <2>1, <2>2, <2>4, <2>5, <2>6, <2>7 DEF Next
<1> QED BY <1>0, <1>1, <1>2 DEF FullInv

(* No salt is passed over that some order of writing could have used, and  *)
(* start-up gives up only when every salt of the budget fails: when an     *)
(* attempt ends in bucket_overflow or no_bucket_salt, whichever name was   *)
(* being written, the salt could not have worked.                          *)
THEOREM SaltsAreNotSkipped == Spec => []NoSaltSkipped
<1>1. Init => FullInv
  BY InitInv DEF Init, FullInv, Accounted, NoSaltSkipped, Attempts
<1>2. FullInv => NoSaltSkipped
  BY DEF FullInv
<1> QED BY <1>1, <1>2, FullInvStep, PTL DEF Spec

----------------------------------------------------------------------------
(* The build implements ZoneLookup.  What a client decodes from a bucket   *)
(* that holds a run of records under a discriminator is that run; it is    *)
(* found by induction over the entries, as a least counterexample.         *)

(* A non-empty set of numbers has a least one.                             *)
LEMMA LeastNatural ==
  ASSUME NEW T, T \subseteq Nat, T # {}
  PROVE  \E x \in T : \A y \in T : x <= y
<1> DEFINE Less == {ss \in Nat \X Nat : ss[1] < ss[2]}
<1>1. IsWellFoundedOn(Less, Nat)
  BY NatLessThanWellFounded DEF OpToRel
<1> HIDE DEF Less
<1>2. PICK x \in T : \A y \in T : ~(<<y, x>> \in Less)
  BY <1>1, WFMin, Zenon
<1>3. \A y \in T : ~(y < x)
  BY <1>2 DEF Less
<1> QED BY <1>3

(* What the decoder's loop has pushed after each number of entries.        *)
Decodes(f, b, d) ==
  f = [i \in 0..b.count |->
         IF i = 0 THEN <<>>
         ELSE IF b.entries[i].disc = d THEN Append(f[i - 1], b.entries[i].rec)
              ELSE f[i - 1]]

(* What it has pushed of a run of recs that starts behind off.             *)
RunSeen(recs, off, i) ==
  IF i <= off THEN <<>> ELSE IF i <= off + Len(recs) THEN SubSeq(recs, 1, i - off) ELSE recs

(* One record more of a prefix.                                            *)
LEMMA PrefixGrows ==
  ASSUME NEW recs \in Seq(Records), NEW k \in 1..Len(recs)
  PROVE  SubSeq(recs, 1, k) = Append(SubSeq(recs, 1, k - 1), recs[k])
  OBVIOUS

(* The whole prefix.                                                       *)
LEMMA WholePrefix ==
  ASSUME NEW recs \in Seq(Records)
  PROVE  SubSeq(recs, 1, Len(recs)) = recs /\ SubSeq(recs, 1, 0) = <<>>
  OBVIOUS

(* The run lies behind off.                                                *)
RunAt(b, d, recs, off) ==
  /\ b.count \in Nat /\ off \in Nat /\ off + Len(recs) <= b.count
  /\ \A i \in 1..Len(recs) : b.entries[off + i] = [disc |-> d, rec |-> recs[i]]
  /\ \A i \in 1..b.count : b.entries[i].disc = d => i \in (off + 1)..(off + Len(recs))

(* What turn i of the loop does.                                           *)
Turn(b, d, recs, off, i) ==
  RunSeen(recs, off, i) = IF b.entries[i].disc = d
                          THEN Append(RunSeen(recs, off, i - 1), b.entries[i].rec)
                          ELSE RunSeen(recs, off, i - 1)

(* The loop sees the run as it goes.                                       *)
LEMMA RunSeenStep ==
  ASSUME NEW b, NEW d, NEW recs \in Seq(Records), NEW off, RunAt(b, d, recs, off),
         NEW i \in 1..b.count
  PROVE  Turn(b, d, recs, off, i)
<1> USE DEF Turn
<1>1. /\ Len(recs) \in Nat /\ b.count \in Nat /\ off \in Nat /\ off + Len(recs) <= b.count
      /\ \A j \in 1..Len(recs) : b.entries[off + j] = [disc |-> d, rec |-> recs[j]]
      /\ \A j \in 1..b.count : b.entries[j].disc = d => j \in (off + 1)..(off + Len(recs))
  BY DEF RunAt
<1>2. CASE i <= off
  BY <1>1, <1>2 DEF RunSeen
<1>3. CASE off < i /\ i <= off + Len(recs)
  <2> DEFINE k == i - off
  <2>1. k \in 1..Len(recs) /\ off + k = i
    BY <1>1, <1>3
  <2>2. b.entries[i].disc = d /\ b.entries[i].rec = recs[k]
    <3> HIDE DEF k
    <3>1. b.entries[off + k] = [disc |-> d, rec |-> recs[k]] BY <1>1, <2>1
    <3> QED BY <2>1, <3>1
  <2>3. RunSeen(recs, off, i - 1) = SubSeq(recs, 1, k - 1)
    <3>1. CASE k = 1
      <4>1. i - 1 <= off /\ k - 1 = 0 BY <3>1, <2>1, <1>1
      <4> QED BY <4>1, WholePrefix DEF RunSeen
    <3>2. CASE k # 1
      <4>1. ~(i - 1 <= off) /\ i - 1 <= off + Len(recs) /\ i - 1 - off = k - 1
        BY <3>2, <2>1, <1>1, <1>3
      <4> QED BY <4>1 DEF RunSeen
    <3> QED BY <3>1, <3>2
  <2>4. RunSeen(recs, off, i) = SubSeq(recs, 1, k)
    BY <1>1, <1>3 DEF RunSeen
  <2> HIDE DEF k
  <2> QED BY <2>1, <2>2, <2>3, <2>4, PrefixGrows
<1>4. CASE off + Len(recs) < i
  <2>1. b.entries[i].disc # d
    BY <1>1, <1>4
  <2>2. RunSeen(recs, off, i) = recs
    BY <1>1, <1>4 DEF RunSeen
  <2>3. RunSeen(recs, off, i - 1) = recs
    <3>1. CASE i - 1 <= off
      <4>1. Len(recs) = 0 BY <3>1, <1>1, <1>4
      <4> QED BY <4>1, <3>1 DEF RunSeen
    <3>2. CASE ~(i - 1 <= off) /\ i - 1 <= off + Len(recs)
      <4>1. i - 1 - off = Len(recs) BY <3>2, <1>1, <1>4, SMTT(30)
      <4> QED BY <4>1, <3>2, WholePrefix DEF RunSeen
    <3>3. CASE ~(i - 1 <= off) /\ ~(i - 1 <= off + Len(recs))
      BY <3>3 DEF RunSeen
    <3> QED BY <3>1, <3>2, <3>3
  <2> QED BY <2>1, <2>2, <2>3
<1> QED BY <1>1, <1>2, <1>3, <1>4

(* A client gets the run, whole and in order.                              *)
LEMMA RunDecodes ==
  ASSUME NEW b \in Bucket, NEW d, NEW recs \in Seq(Records), HoldsRun(b, d, recs)
  PROVE  decode_bucket_matching(b, d) = recs
<1>1. b.count \in Nat /\ Len(recs) \in Nat
  BY DEF Bucket
<1>2. PICK off \in 0..(b.count - Len(recs)) :
        /\ \A i \in 1..Len(recs) : b.entries[off + i] = [disc |-> d, rec |-> recs[i]]
        /\ \A i \in 1..b.count : b.entries[i].disc = d => i \in (off + 1)..(off + Len(recs))
  BY DEF HoldsRun
<1>3. off \in Nat /\ off + Len(recs) <= b.count /\ RunAt(b, d, recs, off)
  BY <1>1, <1>2 DEF RunAt
<1>4. \A i \in 1..b.count : Turn(b, d, recs, off, i)
  BY <1>3, RunSeenStep, Zenon
<1>5. RunSeen(recs, off, 0) = <<>>
  BY <1>3 DEF RunSeen
<1> DEFINE g == [i \in 0..b.count |-> RunSeen(recs, off, i)]
<1>6. Decodes(g, b, d)
  <2>1. \A i \in 0..b.count :
          RunSeen(recs, off, i) =
            IF i = 0 THEN <<>>
            ELSE IF b.entries[i].disc = d THEN Append(g[i - 1], b.entries[i].rec)
                 ELSE g[i - 1]
    <3> TAKE i \in 0..b.count
    <3>1. CASE i = 0 BY <3>1, <1>5
    <3>2. CASE i \in 1..b.count
      <4>1. g[i - 1] = RunSeen(recs, off, i - 1) BY <3>2, <1>1
      <4> HIDE DEF g
      <4>2. Turn(b, d, recs, off, i) BY <3>2, <1>4
      <4>3. i # 0 BY <3>2
      <4> QED BY <4>1, <4>2, <4>3 DEF Turn
    <3>3. i = 0 \/ i \in 1..b.count BY <1>1
    <3> QED BY <3>1, <3>2, <3>3
  <2> QED BY <2>1, Zenon DEF Decodes
<1> DEFINE f == CHOOSE h : Decodes(h, b, d)
<1>7. Decodes(f, b, d)
  <2> HIDE DEF g
  <2> QED BY <1>6, Zenon
<1>8. decode_bucket_matching(b, d) = f[b.count]
  BY Zenon DEF decode_bucket_matching, Decodes
<1> HIDE DEF f
<1>9. \A i \in 0..b.count :
        f[i] = IF i = 0 THEN <<>>
               ELSE IF b.entries[i].disc = d THEN Append(f[i - 1], b.entries[i].rec)
                    ELSE f[i - 1]
  BY <1>7, Zenon DEF Decodes
<1>10. \A i \in 0..b.count : f[i] = RunSeen(recs, off, i)
  <2> DEFINE T == {i \in 0..b.count : f[i] # RunSeen(recs, off, i)}
  <2> SUFFICES ASSUME T # {} PROVE FALSE
    OBVIOUS
  <2>1. PICK i \in T : \A j \in T : i <= j
    <3>1. T \subseteq Nat BY <1>1
    <3> HIDE DEF T
    <3> QED BY <3>1, LeastNatural
  <2>2. i \in 0..b.count /\ f[i] # RunSeen(recs, off, i)
    OBVIOUS
  <2>3. i \in 1..b.count
    BY <2>2, <1>1, <1>5, <1>9
  <2>4. f[i - 1] = RunSeen(recs, off, i - 1)
    BY <2>1, <2>3, <1>1
  <2> HIDE DEF T
  <2>5. i # 0 /\ i \in 0..b.count BY <2>3, <1>1
  <2>6. f[i] = IF b.entries[i].disc = d THEN Append(RunSeen(recs, off, i - 1), b.entries[i].rec)
               ELSE RunSeen(recs, off, i - 1)
    BY <2>4, <2>5, <1>9
  <2>7. Turn(b, d, recs, off, i) BY <2>3, <1>4
  <2> QED BY <2>2, <2>6, <2>7 DEF Turn
<1>11. RunSeen(recs, off, b.count) = recs
  <2>1. CASE b.count <= off
    <3>1. Len(recs) = 0 BY <2>1, <1>1, <1>3
    <3> QED BY <2>1, <3>1 DEF RunSeen
  <2>2. CASE ~(b.count <= off) /\ b.count <= off + Len(recs)
    <3>1. b.count - off = Len(recs) BY <2>2, <1>1, <1>3
    <3> QED BY <2>2, <3>1, WholePrefix DEF RunSeen
  <2>3. CASE ~(b.count <= off) /\ ~(b.count <= off + Len(recs))
    BY <2>3 DEF RunSeen
  <2> QED BY <2>1, <2>2, <2>3
<1>12. b.count \in 0..b.count
  BY <1>1
<1> QED BY <1>8, <1>10, <1>11, <1>12

(* The abstract server's variables, as the refinement maps them.           *)
AbsStatus == CASE phase = "serving" -> "serving"
               [] phase = "failed" -> "failed"
               [] OTHER -> "starting"

AbsAnswers == IF phase # "serving" THEN None
              ELSE IF state.mode = "dump" THEN RecordsOf
              ELSE [n \in Zone |-> query(n)]

(* A start-up that publishes a dump answers with the zone's records.       *)
LEMMA DumpServes ==
  ASSUME TypeOK, NEW a \in BOOLEAN, NEW o \in BOOLEAN, NEW d \in BOOLEAN, build_state(a, o, d),
         phase' = "serving"
  PROVE  AbsAnswers' = [n \in Zone |-> RecordsOf[n]]
<1>1. state'.mode = "dump"
  BY DEF build_state
<1>2. RecordsOf = [n \in Zone |-> RecordsOf[n]]
  BY BuildAssumption
<1> QED BY <1>1, <1>2 DEF AbsAnswers

(* A start-up that publishes a layout answers every lookup with the name's *)
(* records.                                                                *)
LEMMA LayoutServes ==
  ASSUME Inv, Inv', publish
  PROVE  AbsAnswers' = [n \in Zone |-> RecordsOf[n]]
<1>1. /\ phase' = "serving" /\ UNCHANGED <<slotOf, discOf>>
      /\ state' = [mode |-> "pir", dump |-> FALSE, hash_salt |-> attempt, buckets |-> out]
  BY DEF publish, hashes
<1>2. state'.mode = "pir" /\ state'.hash_salt = attempt /\ state'.buckets = out
  BY <1>1
<1>3. out \in Layout /\ \A n \in Zone : slotOf[attempt][n] \in Slots
  BY DEF Inv, TypeOK, Names
<1>4. ASSUME NEW n \in Zone PROVE query(n)' = RecordsOf[n]
  <2> DEFINE b == out[slotOf[attempt][n]]
  <2>1. b \in Bucket
    BY <1>3, <1>4 DEF Layout
  <2>2. HoldsRun(b, discOf[attempt][b.salt][n], RecordsOf[n])
    BY <1>1, <1>2, <1>4 DEF Inv, PresentNamesOwnRecords
  <2>3. query(n)' = decode_bucket_matching(b, discOf[attempt][b.salt][n])
    BY <1>1, <1>2 DEF query
  <2>4. RecordsOf[n] \in Seq(Records)
    BY <1>4, RecordsTyped
  <2> HIDE DEF b
  <2> QED BY <2>1, <2>2, <2>3, <2>4, RunDecodes
<1>5. AbsAnswers' = [n \in Zone |-> query(n)']
  BY <1>1, <1>2 DEF AbsAnswers
<1> QED BY <1>4, <1>5, Zenon

(* A step of the build starts the abstract server, fails its start-up, or  *)
(* changes nothing of it.                                                  *)
LEMMA StepSimulates ==
  ASSUME Inv, Inv', [Next]_vars
  PROVE  \/ /\ AbsStatus = "starting" /\ AbsStatus' = "serving"
            /\ AbsAnswers' = [n \in Zone |-> RecordsOf[n]]
         \/ AbsStatus = "starting" /\ AbsStatus' = "failed" /\ AbsAnswers' = AbsAnswers
         \/ AbsStatus' = AbsStatus /\ AbsAnswers' = AbsAnswers
<1>0. /\ AbsStatus = IF phase = "serving" THEN "serving"
                     ELSE IF phase = "failed" THEN "failed" ELSE "starting"
      /\ AbsStatus' = IF phase' = "serving" THEN "serving"
                      ELSE IF phase' = "failed" THEN "failed" ELSE "starting"
  BY DEF AbsStatus
<1>1. ASSUME phase \notin {"serving", "failed"}, phase' # "serving"
      PROVE  \/ AbsStatus = "starting" /\ AbsStatus' = "failed" /\ AbsAnswers' = AbsAnswers
             \/ AbsStatus' = AbsStatus /\ AbsAnswers' = AbsAnswers
  BY <1>0, <1>1 DEF AbsAnswers
<1>2. ASSUME NEW a \in BOOLEAN, NEW o \in BOOLEAN, NEW d \in BOOLEAN, build_state(a, o, d),
             phase' = "serving"
      PROVE  /\ AbsStatus = "starting" /\ AbsStatus' = "serving"
             /\ AbsAnswers' = [n \in Zone |-> RecordsOf[n]]
  <2>1. phase = "loaded" BY <1>2 DEF build_state
  <2> QED BY <1>0, <1>2, <2>1, DumpServes DEF Inv
<1>3. ASSUME NEW a \in BOOLEAN, NEW o \in BOOLEAN, NEW d \in BOOLEAN, build_state(a, o, d),
             phase' # "serving"
      PROVE  phase \notin {"serving", "failed"} /\ phase' # "serving"
  BY <1>3 DEF build_state
<1>4. CASE publish
  <2>1. phase = "buckets" /\ phase' = "serving" BY <1>4 DEF publish
  <2> QED BY <1>0, <1>4, <2>1, LayoutServes
<1>5. ASSUME \/ begin_attempt \/ skip_empty_bucket \/ find_bucket_salt \/ no_bucket_salt
             \/ (\E n \in Zone : next_name(n)) \/ write_record \/ bucket_overflow
             \/ name_written \/ bucket_written
      PROVE  phase \notin {"serving", "failed"} /\ phase' # "serving"
  BY <1>5 DEF begin_attempt, skip_empty_bucket, find_bucket_salt, no_bucket_salt, next_name,
              write_record, bucket_overflow, name_written, bucket_written, attempt_failed
<1>6. CASE UNCHANGED vars
  <2>1. phase' = phase /\ state' = state /\ slotOf' = slotOf /\ discOf' = discOf
    BY <1>6 DEF vars, hashes
  <2>2. AbsStatus' = AbsStatus BY <1>0, <2>1
  <2>3. AbsAnswers' = AbsAnswers
    BY <2>1 DEF AbsAnswers, query
  <2> QED BY <2>2, <2>3
<1> QED BY <1>1, <1>2, <1>3, <1>4, <1>5, <1>6 DEF Next

(* The build implements ZoneLookup: whatever the hash functions and the    *)
(* order in which names are written, the server comes up answering every   *)
(* lookup with exactly the zone's records, or refuses to start, and what   *)
(* it answers never changes.                                               *)
THEOREM BuildRefinesZoneLookup == Spec => ServesTheZone
<1>1. Init => Abs!Init
  BY DEF Init, Abs!Init
<1>2. Inv /\ Inv' /\ [Next]_vars => [Abs!Next]_<<AbsStatus, AbsAnswers>>
  BY StepSimulates DEF Abs!Next, Abs!Serve, Abs!Refuse, AbsStatus, AbsAnswers
<1> QED BY <1>1, <1>2, InitInv, InvStep, PTL DEF Spec, ServesTheZone, Abs!Spec, AbsStatus, AbsAnswers

----------------------------------------------------------------------------
(* The bytes of the buckets (BucketCodec).                                 *)

(* The powers of two, from the number of subsets of a finite set.          *)
LEMMA PowerStep == ASSUME NEW n \in Nat PROVE 2^(n + 1) = 2^n + 2^n /\ 2^n \in Nat
<1> DEFINE S == 1..n
           x == n + 1
           with(A) == A \cup {x}
           W == {with(A) : A \in SUBSET S}
           f == [A \in SUBSET S |-> with(A)]
<1>1. IsFiniteSet(S) /\ Cardinality(S) = n /\ IsFiniteSet(S \cup {x}) /\ Cardinality(S \cup {x}) = n + 1
  <2>1. IsFiniteSet(1..n) /\ Cardinality(1..n) = n
    BY FS_Interval
  <2>2. IsFiniteSet(1..(n + 1)) /\ Cardinality(1..(n + 1)) = n + 1
    BY FS_Interval
  <2>3. 1..(n + 1) = S \cup {x}
    OBVIOUS
  <2> QED BY <2>1, <2>2, <2>3
<1>2. x \notin S
  OBVIOUS
<1> HIDE DEF S, x
<1>3. IsFiniteSet(SUBSET S) /\ Cardinality(SUBSET S) = 2^n
  BY <1>1, FS_SUBSET
<1>4. IsFiniteSet(SUBSET (S \cup {x})) /\ Cardinality(SUBSET (S \cup {x})) = 2^(n + 1)
  BY <1>1, FS_SUBSET
<1>5. SUBSET (S \cup {x}) = (SUBSET S) \cup W
  <2>1. ASSUME NEW A \in SUBSET (S \cup {x}), A \notin SUBSET S PROVE A \in W
    <3>1. A \ {x} \in SUBSET S /\ x \in A
      BY <2>1
    <3>2. A = with(A \ {x})
      BY <3>1
    <3> QED BY <3>1, <3>2, Zenon
  <2>2. \A A \in SUBSET S : with(A) \in SUBSET (S \cup {x}) /\ A \in SUBSET (S \cup {x})
    OBVIOUS
  <2> QED BY <2>1, <2>2
<1>6. (SUBSET S) \cap W = {}
  BY <1>2
<1>7. ExistsBijection(SUBSET S, W)
  <2>1. f \in [SUBSET S -> W]
    OBVIOUS
  <2>2. ASSUME NEW A \in SUBSET S, NEW B \in SUBSET S, f[A] = f[B] PROVE A = B
    <3>1. with(A) = with(B)
      BY <2>2
    <3> QED BY <3>1, <1>2
  <2>3. \A C \in W : \E A \in SUBSET S : f[A] = C
    OBVIOUS
  <2>4. f \in Bijection(SUBSET S, W)
    BY <2>1, <2>2, <2>3, Zenon DEF Bijection, Injection, Surjection, IsInjective
  <2> QED BY <2>4, Zenon DEF ExistsBijection
<1>8. IsFiniteSet(W) /\ Cardinality(W) = 2^n
  BY <1>3, <1>7, FS_Bijection
<1> HIDE DEF W
<1>9. Cardinality((SUBSET S) \cup W) = 2^n + 2^n - Cardinality((SUBSET S) \cap W)
  BY <1>3, <1>8, FS_Union
<1>10. Cardinality((SUBSET S) \cap W) = 0 /\ 2^n \in Nat
  BY <1>3, <1>6, FS_EmptySet, FS_CardinalityType
<1>11. 2^(n + 1) = 2^n + 2^n - Cardinality((SUBSET S) \cap W)
  BY <1>4, <1>5, <1>9, Zenon
<1> QED BY <1>10, <1>11

(* Powers of two are positive, and multiply by adding exponents.           *)
LEMMA PowerSum ==
  ASSUME NEW a \in Nat, NEW b \in Nat
  PROVE  2^a \in Nat \ {0} /\ 2^(a + b) = 2^a * 2^b
<1>1. ASSUME NEW c \in Nat PROVE 2^c \in Nat \ {0}
  <2> DEFINE T == {k \in Nat : ~(2^k \in Nat \ {0})}
  <2>1. SUFFICES ASSUME T # {} PROVE FALSE
    OBVIOUS
  <2>2. T \subseteq Nat
    OBVIOUS
  <2>3. PICK k \in T : \A y \in T : k <= y
    BY <2>1, <2>2, LeastNatural
  <2>4. k # 0
    <3>1. 2^0 = 1
      OBVIOUS
    <3>2. 2^0 \in Nat \ {0}
      BY <3>1
    <3> QED BY <2>3, <3>2, Zenon
  <2>5. PICK m \in Nat : k = m + 1 /\ m \notin T
    <3>1. k - 1 \in Nat /\ k = (k - 1) + 1 /\ ~(k <= k - 1)
      BY <2>4
    <3> QED BY <2>3, <3>1
  <2>6. 2^m \in Nat \ {0} /\ 2^k = 2^m + 2^m
    BY <2>5, PowerStep
  <2> QED BY <2>3, <2>6
<1>2. 2^(a + b) = 2^a * 2^b
  <2> DEFINE T == {k \in Nat : ~(2^(a + k) = 2^a * 2^k)}
  <2>1. SUFFICES ASSUME T # {} PROVE FALSE
    OBVIOUS
  <2>2. T \subseteq Nat
    OBVIOUS
  <2>3. PICK k \in T : \A y \in T : k <= y
    BY <2>1, <2>2, LeastNatural
  <2>4. k # 0
    <3>1. a + 0 = a /\ 2^0 = 1 /\ 2^a \in Int
      OBVIOUS
    <3>2. 2^(a + 0) = 2^a * 2^0
      BY <3>1
    <3> QED BY <2>3, <3>2
  <2>5. PICK m \in Nat : k = m + 1 /\ m \notin T
    <3>1. k - 1 \in Nat /\ k = (k - 1) + 1 /\ ~(k <= k - 1)
      BY <2>4
    <3> QED BY <2>3, <3>1
  <2>6. 2^(a + m) = 2^a * 2^m
    BY <2>5
  <2>7. 2^k = 2^m + 2^m /\ 2^(a + k) = 2^(a + m) + 2^(a + m)
    <3>1. a + k = (a + m) + 1 /\ a + m \in Nat
      BY <2>5
    <3> QED BY <2>5, <3>1, PowerStep
  <2>8. PICK x \in Nat, y \in Nat : x = 2^a /\ y = 2^m
    BY <1>1
  <2>9. 2^(a + k) = 2^a * 2^k
    <3>1. x * (y + y) = x * y + x * y
      OBVIOUS
    <3> QED BY <2>6, <2>7, <2>8, <3>1
  <2> QED BY <2>3, <2>9
<1> QED BY <1>1, <1>2
(* f solves a recursion from a up to k.                                    *)
Solves(f, k, S, a, step) ==
  f \in [0..k -> S] /\ f = [n \in 0..k |-> IF n = 0 THEN a ELSE step[<<n, f[n - 1]>>]]

(* A function that is defined by recursion over an initial segment of the  *)
(* naturals exists.                                                        *)
LEMMA FiniteRecursion ==
  ASSUME NEW m \in Nat, NEW S, NEW a \in S, NEW step \in [(1..m) \X S -> S]
  PROVE  \E f : Solves(f, m, S, a, step)
<1> DEFINE Solvable(k) == \E f : Solves(f, k, S, a, step)
           T == {k \in 0..m : ~ Solvable(k)}
<1> HIDE DEF Solvable
<1>2. SUFFICES ASSUME T # {} PROVE FALSE
  <2>1. Solvable(m)
    BY <1>2
  <2> QED BY <2>1 DEF Solvable
<1>3. PICK k \in T : \A y \in T : k <= y
  <2>1. T \subseteq Nat
    OBVIOUS
  <2> QED BY <1>2, <2>1, LeastNatural
<1>4. Solvable(0)
  <2> DEFINE f == [n \in 0..0 |-> a]
  <2>1. f \in [0..0 -> S]
    OBVIOUS
  <2>2. f = [n \in 0..0 |-> IF n = 0 THEN a ELSE step[<<n, f[n - 1]>>]]
    OBVIOUS
  <2> QED BY <2>1, <2>2 DEF Solves, Solvable
<1>5. k \in 1..m /\ Solvable(k - 1)
  <2>1. k \in 0..m /\ k # 0
    BY <1>3, <1>4
  <2>2. k - 1 \in 0..m /\ ~(k <= k - 1)
    BY <2>1
  <2> QED BY <1>3, <2>1, <2>2
<1>6. PICK f : f \in [0..(k - 1) -> S] /\ \A n \in 0..(k - 1) : f[n] = IF n = 0 THEN a ELSE step[<<n, f[n - 1]>>]
  <2>1. PICK f : Solves(f, k - 1, S, a, step)
    BY <1>5 DEF Solvable
  <2>2. f \in [0..(k - 1) -> S] /\ f = [n \in 0..(k - 1) |-> IF n = 0 THEN a ELSE step[<<n, f[n - 1]>>]]
    BY <2>1 DEF Solves
  <2>3. \A n \in 0..(k - 1) : f[n] = IF n = 0 THEN a ELSE step[<<n, f[n - 1]>>]
    BY <2>2, Zenon
  <2> QED BY <2>2, <2>3
<1>7. PICK last \in S : last = step[<<k, f[k - 1]>>]
  BY <1>5, <1>6
<1> DEFINE g == [n \in 0..k |-> IF n = k THEN last ELSE f[n]]
<1>8. g \in [0..k -> S]
  BY <1>5, <1>6, <1>7
<1>9. ASSUME NEW n \in 0..k
      PROVE  g[n] = IF n = 0 THEN a ELSE step[<<n, g[n - 1]>>]
  <2>1. CASE n = k
    <3>1. n # 0 /\ n - 1 \in 0..k /\ n - 1 # k
      BY <2>1, <1>5
    <3>2. g[n] = last /\ g[n - 1] = f[n - 1]
      BY <2>1, <3>1
    <3> QED BY <2>1, <3>1, <3>2, <1>7
  <2>2. CASE n # k /\ n # 0
    <3>1. n \in 0..(k - 1) /\ n - 1 \in 0..k /\ n - 1 # k
      BY <2>2, <1>5
    <3>2. g[n] = f[n] /\ g[n - 1] = f[n - 1]
      BY <2>2, <3>1
    <3> QED BY <2>2, <3>1, <3>2, <1>6
  <2>3. CASE n # k /\ n = 0
    <3>1. g[n] = f[n] /\ n \in 0..(k - 1)
      BY <2>3, <1>5
    <3> QED BY <2>3, <3>1, <1>6
  <2> QED BY <2>1, <2>2, <2>3
<1> HIDE DEF g
<1>10. g = [n \in 0..k |-> IF n = 0 THEN a ELSE step[<<n, g[n - 1]>>]]
  BY <1>8, <1>9
<1>11. Solvable(k)
  BY <1>8, <1>10 DEF Solves, Solvable
<1> QED BY <1>3, <1>11

(* A quotient is determined by its bounds.                                 *)
LEMMA Quotient ==
  ASSUME NEW v \in Nat, NEW d \in Nat \ {0}, NEW e \in Nat, NEW r \in 0..(d - 1), v = d * e + r
  PROVE  v \div d = e /\ v % d = r
  OBVIOUS

(* Dividing twice is dividing by the product.                              *)
LEMMA DivideTwice ==
  ASSUME NEW v \in Nat, NEW d \in Nat \ {0}, NEW e \in Nat \ {0}
  PROVE  (v \div d) \div e = v \div (d * e)
<1>1. PICK x \in Nat, r \in 0..(d - 1) : v = d * x + r /\ x = v \div d
  <2>1. v \div d \in Nat /\ v % d \in 0..(d - 1) /\ v = d * (v \div d) + (v % d)
    OBVIOUS
  <2> QED BY <2>1
<1>2. PICK y \in Nat, s \in 0..(e - 1) : x = e * y + s /\ y = x \div e
  <2>1. x \div e \in Nat /\ x % e \in 0..(e - 1) /\ x = e * (x \div e) + (x % e)
    OBVIOUS
  <2> QED BY <2>1
<1>3. PICK t \in Nat : t = d * s + r
  OBVIOUS
<1>4. PICK m \in Nat \ {0} : m = d * e
  <2>1. d * e \in Nat \ {0}
    OBVIOUS
  <2> QED BY <2>1
<1>5. t \in 0..(m - 1)
  <2>1. d * s <= d * (e - 1)
    BY <1>2
  <2>2. d * (e - 1) = d * e - d
    OBVIOUS
  <2>3. PICK z \in Nat : z = d * s
    OBVIOUS
  <2> QED BY <1>1, <1>3, <1>4, <2>1, <2>2, <2>3
<1>6. v = m * y + t
  <2>1. d * (e * y + s) = (d * e) * y + d * s
    OBVIOUS
  <2>2. PICK z \in Nat, w \in Nat : z = d * s /\ w = (d * e) * y
    <3>1. d * s \in Nat /\ (d * e) * y \in Nat
      OBVIOUS
    <3> QED BY <3>1
  <2>3. d * x = w + z
    BY <1>2, <2>1, <2>2
  <2>4. v = w + z + r
    BY <1>1, <2>3
  <2>5. t = z + r /\ w = m * y
    BY <1>3, <1>4, <2>2
  <2> QED BY <2>4, <2>5
<1>7. v \div m = y
  BY <1>5, <1>6, Quotient
<1> QED BY <1>1, <1>2, <1>4, <1>7
(* What m digits of so many bits can tell apart.                           *)
Span(bits, m) == 2^(bits * m)
Digit(bits) == 0..(2^bits - 1)

(* Spans are positive and grow by a digit at a time.                       *)
LEMMA Ranges ==
  ASSUME NEW bits \in Nat, NEW m \in Nat
  PROVE  /\ Span(bits, m) \in Nat \ {0} /\ Span(bits, 0) = 1 /\ 2^bits \in Nat \ {0}
         /\ Span(bits, m + 1) = Span(bits, m) * 2^bits
<1>2. PICK a \in Nat : a = bits * m
  OBVIOUS
<1>3. bits * (m + 1) = a + bits /\ bits * 0 = 0
  BY <1>2
<1>4. 2^a \in Nat \ {0} /\ 2^(a + bits) = 2^a * 2^bits /\ 2^bits \in Nat \ {0}
  BY PowerSum
<1>5. 2^0 = 1
  OBVIOUS
<1> QED BY <1>2, <1>3, <1>4, <1>5 DEF Span

(* The values number goes through, from its last digit on.                 *)
Accumulates(f, b, bits) ==
  /\ f \in [0..Len(b) -> Nat] /\ f[0] = 0
  /\ \A i \in 1..Len(b) : f[i] = f[i - 1] * 2^bits + b[Len(b) + 1 - i]

(* number ends with the last of the values it goes through.                *)
LEMMA Accumulated ==
  ASSUME NEW bits \in Nat, NEW b \in Seq(Digit(bits))
  PROVE  \E f : Accumulates(f, b, bits) /\ number(b, bits) = f[Len(b)]
<1>1. PICK B \in Nat \ {0} : B = 2^bits
  BY Ranges
<1>2. PICK n \in Nat : n = Len(b)
  OBVIOUS
<1>3. \A i \in 1..n : b[i] \in Nat
  BY <1>1, <1>2 DEF Digit
<1> DEFINE step == [e \in (1..n) \X Nat |-> e[2] * B + b[n + 1 - e[1]]]
<1>4. step \in [(1..n) \X Nat -> Nat]
  <2>1. ASSUME NEW e \in (1..n) \X Nat PROVE e[2] * B + b[n + 1 - e[1]] \in Nat
    <3>1. e[1] \in 1..n /\ e[2] \in Nat
      OBVIOUS
    <3>2. PICK x \in Nat, y \in Nat : x = e[2] /\ y = b[n + 1 - e[1]]
      BY <3>1, <1>3
    <3>3. x * B + y \in Nat
      OBVIOUS
    <3> QED BY <3>2, <3>3
  <2> QED BY <2>1
<1>5. \A i \in 1..n, x \in Nat : step[<<i, x>>] = x * B + b[n + 1 - i]
  OBVIOUS
<1> HIDE DEF step
<1> DEFINE Is(f) == f = [i \in 0..n |-> IF i = 0 THEN 0 ELSE f[i - 1] * B + b[n + 1 - i]]
<1>6. PICK g : Solves(g, n, Nat, 0, step)
  <2>1. 0 \in Nat
    OBVIOUS
  <2> QED BY <2>1, <1>4, FiniteRecursion, Zenon
<1>7. g \in [0..n -> Nat] /\ g = [i \in 0..n |-> IF i = 0 THEN 0 ELSE step[<<i, g[i - 1]>>]]
  BY <1>6 DEF Solves
<1>8. ASSUME NEW i \in 0..n, i # 0 PROVE step[<<i, g[i - 1]>>] = g[i - 1] * B + b[n + 1 - i]
  <2>1. i \in 1..n /\ i - 1 \in 0..n
    BY <1>8
  <2>2. g[i - 1] \in Nat
    BY <1>7, <2>1
  <2> QED BY <2>1, <2>2, <1>5
<1>9. Is(g)
  <2>1. [i \in 0..n |-> IF i = 0 THEN 0 ELSE step[<<i, g[i - 1]>>]]
          = [i \in 0..n |-> IF i = 0 THEN 0 ELSE g[i - 1] * B + b[n + 1 - i]]
    BY <1>8
  <2> QED BY <1>7, <2>1, Zenon
<1> DEFINE f == CHOOSE x : Is(x)
<1>10. number(b, bits) = f[n]
  BY <1>1, <1>2 DEF number
<1>11. Is(f)
  BY <1>9, Zenon
<1> HIDE DEF f
<1>12. f = [i \in 0..n |-> f[i]] /\ \A i \in 0..n : f[i] = IF i = 0 THEN 0 ELSE f[i - 1] * B + b[n + 1 - i]
  BY <1>11, Zenon
<1> HIDE DEF Is
<1> DEFINE T == {i \in 0..n : f[i] \notin Nat}
<1>13. T = {}
  <2>1. SUFFICES ASSUME T # {} PROVE FALSE
    OBVIOUS
  <2>2. T \subseteq Nat
    OBVIOUS
  <2>3. PICK i \in T : \A y \in T : i <= y
    BY <2>1, <2>2, LeastNatural
  <2>4. i # 0
    <3>1. 0 \in 0..n
      OBVIOUS
    <3>2. f[0] = 0
      BY <3>1, <1>12, Zenon
    <3>3. f[0] \in Nat
      BY <3>2
    <3> QED BY <2>3, <3>3, Zenon
  <2>5. i \in 1..n /\ i - 1 \in 0..n /\ f[i - 1] \in Nat
    BY <2>3, <2>4
  <2>6. PICK x \in Nat, y \in Nat : x = f[i - 1] /\ y = b[n + 1 - i]
    BY <2>5, <1>3
  <2>7. x * B + y \in Nat
    OBVIOUS
  <2>8. f[i] = x * B + y
    BY <2>4, <2>5, <2>6, <1>12
  <2> QED BY <2>3, <2>7, <2>8
<1>14. Accumulates(f, b, bits)
  <2>1. f \in [0..n -> Nat]
    BY <1>12, <1>13
  <2>2. f[0] = 0 /\ \A i \in 1..n : f[i] = f[i - 1] * B + b[n + 1 - i]
    BY <1>12
  <2> QED BY <1>1, <1>2, <2>1, <2>2 DEF Accumulates
<1> QED BY <1>2, <1>10, <1>14

(* The digits of a number.                                                 *)
LEMMA NumberDigits ==
  ASSUME NEW bits \in Nat, NEW v \in Nat, NEW n \in Nat
  PROVE  /\ digits(v, bits, n) \in Seq(Digit(bits)) /\ Len(digits(v, bits, n)) = n
         /\ \A i \in 1..n : digits(v, bits, n)[i] = (v \div Span(bits, i - 1)) % 2^bits
<1>1. PICK e : e = digits(v, bits, n)
  OBVIOUS
<1>2. e = [i \in 1..n |-> (v \div Span(bits, i - 1)) % 2^bits]
  BY <1>1 DEF digits, Span
<1>3. ASSUME NEW i \in 1..n PROVE e[i] \in Digit(bits)
  <2>1. PICK r \in Nat \ {0}, B \in Nat \ {0} : r = Span(bits, i - 1) /\ B = 2^bits
    <3>1. i - 1 \in Nat
      OBVIOUS
    <3>2. Span(bits, i - 1) \in Nat \ {0} /\ 2^bits \in Nat \ {0}
      BY <3>1, Ranges, Zenon
    <3> QED BY <3>2
  <2>2. PICK x \in Nat : x = v \div r
    <3>1. v \div r \in Nat
      OBVIOUS
    <3> QED BY <3>1
  <2>3. x % B \in 0..(B - 1)
    OBVIOUS
  <2> QED BY <1>2, <2>1, <2>2, <2>3 DEF Digit
<1>4. e \in Seq(Digit(bits)) /\ Len(e) = n
  BY <1>2, <1>3
<1> QED BY <1>1, <1>2, <1>4

(* Writing a number of n digits and reading it gives it back.              *)
LEMMA NumberRoundTrip ==
  ASSUME NEW bits \in Nat, NEW n \in Nat, NEW v \in 0..(Span(bits, n) - 1)
  PROVE  number(digits(v, bits, n), bits) = v
<1>0. v \in Nat /\ v < Span(bits, n)
  BY Ranges
<1>1. PICK b \in Seq(Digit(bits)) : b = digits(v, bits, n) /\ Len(b) = n
  BY <1>0, NumberDigits
<1>2. PICK f : Accumulates(f, b, bits) /\ number(b, bits) = f[n]
  BY <1>1, Accumulated
<1> DEFINE T == {i \in 0..n : f[i] # v \div Span(bits, n - i)}
<1>3. T = {}
  <2>1. SUFFICES ASSUME T # {} PROVE FALSE
    OBVIOUS
  <2>2. T \subseteq Nat
    OBVIOUS
  <2>3. PICK i \in T : \A y \in T : i <= y
    BY <2>1, <2>2, LeastNatural
  <2>4. i # 0
    <3>1. PICK r \in Nat \ {0} : r = Span(bits, n) /\ v < r
      BY <1>0, Ranges
    <3>2. v \div r = 0
      <4>1. v = r * 0 + v /\ v \in 0..(r - 1) /\ 0 \in Nat
        BY <1>0, <3>1
      <4> QED BY <1>0, <4>1, Quotient, SMTT(60)
    <3>3. f[0] = 0 /\ n - 0 = n
      BY <1>2 DEF Accumulates
    <3> QED BY <2>3, <3>1, <3>2, <3>3
  <2>5. i \in 1..n /\ i - 1 \in 0..n /\ i - 1 \notin T
    BY <2>3, <2>4
  <2>6. PICK m \in Nat : m = n - i /\ m + 1 = n - (i - 1)
    BY <2>5
  <2>7. PICK r \in Nat \ {0}, B \in Nat \ {0} : r = Span(bits, m) /\ B = 2^bits /\ Span(bits, m + 1) = r * B
    <3>1. /\ Span(bits, m) \in Nat \ {0} /\ 2^bits \in Nat \ {0}
          /\ Span(bits, m + 1) = Span(bits, m) * 2^bits
      BY Ranges, Zenon
    <3> QED BY <3>1, Zenon
  <2>8. PICK x \in Nat : x = v \div r
    <3>1. v \div r \in Nat
      BY <1>0
    <3> QED BY <3>1
  <2>9. f[i - 1] = x \div B
    <3>1. f[i - 1] = v \div (r * B)
      BY <2>5, <2>6, <2>7
    <3>2. (v \div r) \div B = v \div (r * B)
      BY <1>0, DivideTwice
    <3> QED BY <2>8, <3>1, <3>2
  <2>10. b[n + 1 - i] = x % B
    <3>0. n + 1 - i \in 1..n /\ (n + 1 - i) - 1 = n - i
      BY <2>5
    <3>1. \A j \in 1..n : digits(v, bits, n)[j] = (v \div Span(bits, j - 1)) % 2^bits
      BY <1>0, NumberDigits, Zenon
    <3>2. b[n + 1 - i] = (v \div Span(bits, n - i)) % 2^bits
      BY <1>1, <2>5, <3>0, <3>1
    <3> QED BY <2>6, <2>7, <2>8, <3>2, Zenon
  <2>11. f[i] = (x \div B) * B + (x % B)
    BY <1>1, <1>2, <2>5, <2>7, <2>9, <2>10 DEF Accumulates
  <2>12. (x \div B) * B + (x % B) = x
    OBVIOUS
  <2> QED BY <2>3, <2>6, <2>7, <2>8, <2>11, <2>12
<1>4. f[n] = v \div Span(bits, n - n)
  BY <1>3
<1>5. Span(bits, n - n) = 1 /\ v \div 1 = v
  BY <1>0, Ranges
<1> QED BY <1>1, <1>2, <1>4, <1>5

(* Reading n digits gives a number that is written as these digits.        *)
LEMMA DigitsRoundTrip ==
  ASSUME NEW bits \in Nat, NEW b \in Seq(Digit(bits))
  PROVE  /\ number(b, bits) \in 0..(Span(bits, Len(b)) - 1)
         /\ digits(number(b, bits), bits, Len(b)) = b
<1>1. PICK n \in Nat : n = Len(b)
  OBVIOUS
<1>2. PICK f : Accumulates(f, b, bits) /\ number(b, bits) = f[n]
  BY <1>1, Accumulated
<1>3. PICK B \in Nat \ {0} : B = 2^bits
  BY Ranges
<1>4. /\ \A i \in 0..n : f[i] \in Nat
      /\ f[0] = 0 /\ \A i \in 1..n : f[i] = f[i - 1] * B + b[n + 1 - i]
  BY <1>1, <1>2, <1>3 DEF Accumulates
<1>5. \A i \in 1..n : b[i] \in 0..(B - 1)
  BY <1>1, <1>3 DEF Digit
<1> DEFINE T == {i \in 0..n : ~(f[i] < Span(bits, i))}
<1>6. T = {}
  <2>1. SUFFICES ASSUME T # {} PROVE FALSE
    OBVIOUS
  <2>2. T \subseteq Nat
    OBVIOUS
  <2>3. PICK i \in T : \A y \in T : i <= y
    BY <2>1, <2>2, LeastNatural
  <2>4. i # 0
    <3>1. Span(bits, 0) = 1
      BY Ranges
    <3> QED BY <2>3, <1>4, <3>1
  <2>5. i \in 1..n /\ i - 1 \in 0..n /\ i - 1 \notin T /\ i - 1 \in Nat
    BY <2>3, <2>4
  <2>6. PICK r \in Nat \ {0} : r = Span(bits, i - 1) /\ Span(bits, i) = r * B
    <3>1. PICK m \in Nat : m = i - 1 /\ i = m + 1
      BY <2>5
    <3>2. Span(bits, m) \in Nat \ {0} /\ Span(bits, m + 1) = Span(bits, m) * 2^bits
      BY Ranges, Zenon
    <3> QED BY <3>1, <3>2, <1>3, Zenon
  <2>7. PICK x \in Nat, y \in 0..(B - 1) : x = f[i - 1] /\ y = b[n + 1 - i] /\ x < r /\ f[i] = x * B + y
    <3>1. n + 1 - i \in 1..n
      BY <2>5
    <3>2. f[i - 1] \in Nat /\ b[n + 1 - i] \in 0..(B - 1)
      BY <2>5, <3>1, <1>4, <1>5
    <3>3. f[i] = f[i - 1] * B + b[n + 1 - i] /\ f[i - 1] < r
      BY <2>5, <2>6, <1>4
    <3> QED BY <3>2, <3>3, Zenon
  <2>8. (x + 1) * B <= r * B
    <3>1. PICK k \in Nat : r = (x + 1) + k
      <4>1. x < r /\ r \in Nat
        BY <2>7
      <4>2. r - (x + 1) \in Nat /\ r = (x + 1) + (r - (x + 1))
        BY <4>1
      <4> QED BY <4>2
    <3>2. ((x + 1) + k) * B = (x + 1) * B + k * B
      OBVIOUS
    <3>3. PICK q \in Nat, l \in Nat : q = (x + 1) * B /\ l = k * B
      <4>1. (x + 1) * B \in Nat /\ k * B \in Nat
        OBVIOUS
      <4> QED BY <4>1
    <3>4. r * B = q + l
      BY <3>1, <3>2, <3>3, Zenon
    <3> QED BY <3>3, <3>4
  <2>9. (x + 1) * B = x * B + B
    OBVIOUS
  <2>10. x * B + y < r * B
    <3>1. PICK z \in Nat : z = x * B
      OBVIOUS
    <3>2. PICK w \in Nat : w = r * B
      OBVIOUS
    <3>3. z + B <= w
      BY <2>8, <2>9, <3>1, <3>2
    <3>4. z + y < w
      BY <3>3
    <3> QED BY <3>1, <3>2, <3>4
  <2> QED BY <2>3, <2>6, <2>7, <2>10
<1>7. PICK v \in Nat : v = f[n] /\ v < Span(bits, n)
  <2>1. n \in 0..n
    OBVIOUS
  <2>2. f[n] < Span(bits, n)
    BY <1>6, <2>1, Zenon
  <2> QED BY <1>4, <2>1, <2>2, Zenon
<1> DEFINE U == {m \in 0..n : v \div Span(bits, m) # f[n - m]}
<1>8. U = {}
  <2>1. SUFFICES ASSUME U # {} PROVE FALSE
    OBVIOUS
  <2>2. U \subseteq Nat
    OBVIOUS
  <2>3. PICK m \in U : \A y \in U : m <= y
    BY <2>1, <2>2, LeastNatural
  <2>4. m # 0
    <3>1. Span(bits, 0) = 1 /\ v \div 1 = v /\ n - 0 = n
      BY Ranges
    <3> QED BY <2>3, <1>7, <3>1
  <2>5. PICK k \in Nat : m = k + 1 /\ k \in 0..n /\ k \notin U
    <3>1. m - 1 \in 0..n /\ m - 1 \notin U /\ m - 1 \in Nat /\ m = (m - 1) + 1
      BY <2>3, <2>4
    <3> QED BY <3>1
  <2>6. PICK r \in Nat \ {0} : r = Span(bits, k) /\ Span(bits, m) = r * B
    BY <1>3, <2>5, Ranges
  <2>7. n - k \in 1..n /\ n - m \in 0..n /\ (n - k) - 1 = n - m
    BY <2>3, <2>5
  <2>8. PICK x \in Nat, y \in 0..(B - 1) : x = f[n - m] /\ y = b[k + 1] /\ f[n - k] = x * B + y
    <3>1. k + 1 \in 1..n /\ n + 1 - (n - k) = k + 1
      BY <2>5, <2>7
    <3>2. f[n - m] \in Nat /\ b[k + 1] \in 0..(B - 1)
      BY <2>7, <3>1, <1>4, <1>5
    <3>3. f[n - k] = f[n - m] * B + b[k + 1]
      BY <2>7, <3>1, <1>4
    <3> QED BY <3>2, <3>3, Zenon
  <2>9. v \div r = x * B + y
    BY <2>5, <2>6, <2>8
  <2>10. v \div (r * B) = (x * B + y) \div B
    <3>1. (v \div r) \div B = v \div (r * B)
      BY DivideTwice
    <3> QED BY <2>9, <3>1
  <2>11. (x * B + y) \div B = x
    <3>1. PICK z \in Nat : z = x * B + y /\ z = B * x + y
      OBVIOUS
    <3>2. z \div B = x
      BY <3>1, Quotient
    <3> QED BY <3>1, <3>2
  <2> QED BY <2>3, <2>6, <2>8, <2>10, <2>11
<1>9. ASSUME NEW i \in 1..n PROVE digits(v, bits, n)[n + 1 - i] = b[n + 1 - i]
  <2>1. PICK m \in 0..n : m = n - i /\ n - m = i
    OBVIOUS
  <2>2. v \div Span(bits, m) = f[i]
    BY <1>8, <2>1
  <2>3. PICK x \in Nat, y \in 0..(B - 1) : x = f[i - 1] /\ y = b[n + 1 - i] /\ f[i] = x * B + y
    <3>1. i - 1 \in 0..n /\ n + 1 - i \in 1..n
      OBVIOUS
    <3>2. f[i - 1] \in Nat /\ b[n + 1 - i] \in 0..(B - 1)
      BY <3>1, <1>4, <1>5
    <3>3. f[i] = f[i - 1] * B + b[n + 1 - i]
      BY <1>4
    <3> QED BY <3>2, <3>3, Zenon
  <2>4. (x * B + y) % B = y
    <3>1. PICK z \in Nat : z = x * B + y /\ z = B * x + y
      OBVIOUS
    <3>2. z % B = y
      BY <3>1, Quotient
    <3> QED BY <3>1, <3>2
  <2>5. digits(v, bits, n)[n + 1 - i] = (v \div Span(bits, m)) % B
    <3>1. n + 1 - i \in 1..n /\ (n + 1 - i) - 1 = m
      BY <2>1
    <3>2. \A j \in 1..n : digits(v, bits, n)[j] = (v \div Span(bits, j - 1)) % 2^bits
      BY NumberDigits, Zenon
    <3> QED BY <1>3, <3>1, <3>2
  <2> QED BY <2>2, <2>3, <2>4, <2>5
<1>10. digits(v, bits, n) = b
  <2>1. PICK e \in Seq(Digit(bits)) : e = digits(v, bits, n) /\ Len(e) = n
    BY NumberDigits
  <2>2. ASSUME NEW i \in 1..n PROVE e[i] = b[i]
    <3>1. PICK j \in 1..n : j = n + 1 - i /\ i = n + 1 - j
      <4>1. n + 1 - i \in 1..n /\ i = n + 1 - (n + 1 - i)
        OBVIOUS
      <4> QED BY <4>1
    <3> QED BY <1>9, <2>1, <3>1
  <2> QED BY <1>1, <2>1, <2>2, SeqEqual
<1>11. v \in 0..(Span(bits, n) - 1)
  <2>1. PICK r \in Nat : r = Span(bits, n)
    BY Ranges, Zenon
  <2> QED BY <1>7, <2>1
<1> QED BY <1>1, <1>2, <1>7, <1>10, <1>11, Zenon

----------------------------------------------------------------------------
(* Slices and blocks of bytes.                                             *)

(* s stands in b behind the first from elements.                           *)
At(b, from, s) == \A k \in 1..Len(s) : b[from + k] = s[k]

(* s are the n elements of b behind the first from.                        *)
Slices(T, b, from, n, s) ==
  s \in Seq(T) /\ Len(s) = n /\ \A i \in 1..n : s[i] = b[from + i]

(* What slice takes.                                                       *)
LEMMA SliceTaken ==
  ASSUME NEW T, NEW b \in Seq(T), NEW from \in Nat, NEW n \in Nat, from + n <= Len(b)
  PROVE  Slices(T, b, from, n, slice(b, from, n))
<1>1. Len(b) \in Nat
  OBVIOUS
<1>2. slice(b, from, n) = [i \in 1..n |-> b[from + i]]
  <2>1. (1 + (from + n)) - (from + 1) = n /\ \A i \in 1..n : (i + (from + 1)) - 1 = from + i
    OBVIOUS
  <2>2. slice(b, from, n) = [i \in 1..((1 + (from + n)) - (from + 1)) |-> b[(i + (from + 1)) - 1]]
    BY DEF slice, SubSeq
  <2> QED BY <2>1, <2>2
<1>3. \A i \in 1..n : b[from + i] \in T
  <2>1. \A i \in 1..n : from + i \in 1..Len(b)
    BY <1>1
  <2> QED BY <2>1
<1>4. [i \in 1..n |-> b[from + i]] \in Seq(T) /\ Len([i \in 1..n |-> b[from + i]]) = n
  BY <1>3
<1> QED BY <1>2, <1>4 DEF Slices

(* A slice where s stands is s.                                            *)
LEMMA SliceAt ==
  ASSUME NEW T, NEW b \in Seq(T), NEW from \in Nat, NEW s \in Seq(T),
         from + Len(s) <= Len(b), At(b, from, s)
  PROVE  slice(b, from, Len(s)) = s
<1>1. Len(s) \in Nat
  OBVIOUS
<1>2. PICK c \in Seq(T) : c = slice(b, from, Len(s)) /\ Len(c) = Len(s) /\ \A i \in 1..Len(s) : c[i] = b[from + i]
  <2>1. Slices(T, b, from, Len(s), slice(b, from, Len(s)))
    BY <1>1, SliceTaken
  <2> QED BY <2>1, Zenon DEF Slices
<1>3. \A i \in 1..Len(s) : c[i] = s[i]
  BY <1>2 DEF At
<1> QED BY <1>2, <1>3, SeqEqual

(* z is x with y behind it.                                                *)
Joins(T, x, y, z) ==
  /\ z \in Seq(T) /\ Len(z) = Len(x) + Len(y)
  /\ \A i \in 1..Len(x) : z[i] = x[i]
  /\ \A k \in 1..Len(y) : z[Len(x) + k] = y[k]

(* What two sequences one behind the other are.                            *)
LEMMA Joined ==
  ASSUME NEW T, NEW x \in Seq(T), NEW y \in Seq(T)
  PROVE  Joins(T, x, y, x \o y)
<1>0. PICK n \in Nat, m \in Nat : n = Len(x) /\ m = Len(y)
  OBVIOUS
<1>1. x \o y \in Seq(T) /\ Len(x \o y) = n + m
  BY <1>0
<1>2. \A i \in 1..(n + m) : (x \o y)[i] = IF i <= n THEN x[i] ELSE y[i - n]
  BY <1>0
<1>3. ASSUME NEW k \in 1..m PROVE (x \o y)[n + k] = y[k]
  <2>1. n + k \in 1..(n + m) /\ ~(n + k <= n) /\ (n + k) - n = k
    OBVIOUS
  <2> QED BY <2>1, <1>2
<1>4. ASSUME NEW i \in 1..n PROVE (x \o y)[i] = x[i]
  <2>1. i \in 1..(n + m) /\ i <= n
    OBVIOUS
  <2> QED BY <2>1, <1>2
<1> QED BY <1>0, <1>1, <1>3, <1>4 DEF Joins

(* copy_into puts s in its place and leaves the rest and the length.       *)
LEMMA Copied ==
  ASSUME NEW T, NEW b \in Seq(T), NEW from \in Nat, NEW s \in Seq(T), from + Len(s) <= Len(b)
  PROVE  /\ copy_into(b, from, s) \in Seq(T) /\ Len(copy_into(b, from, s)) = Len(b)
         /\ At(copy_into(b, from, s), from, s)
         /\ \A i \in 1..Len(b) : i \notin (from + 1)..(from + Len(s)) =>
              copy_into(b, from, s)[i] = b[i]
<1>1. PICK n \in Nat, m \in Nat : n = Len(b) /\ m = Len(s)
  OBVIOUS
<1>2. PICK x : x = SubSeq(b, 1, from)
  OBVIOUS
<1>3. PICK z : z = SubSeq(b, from + m + 1, n)
  OBVIOUS
<1>4. x \in Seq(T) /\ Len(x) = from /\ \A i \in 1..from : x[i] = b[i]
  <2>1. x = slice(b, 0, from)
    BY <1>2 DEF slice
  <2>2. 0 + from <= Len(b) /\ 0 \in Nat /\ \A i \in 1..from : 0 + i = i
    BY <1>1
  <2>3. x \in Seq(T) /\ Len(x) = from /\ \A i \in 1..from : x[i] = b[0 + i]
    <3>1. 0 + from <= Len(b) /\ 0 \in Nat
      BY <2>2
    <3>2. Slices(T, b, 0, from, slice(b, 0, from))
      BY <3>1, SliceTaken
    <3> QED BY <2>1, <3>2, Zenon DEF Slices
  <2> QED BY <2>2, <2>3
<1>5. PICK r \in Nat : r = n - (from + m) /\ from + m + r = n
  <2>1. n - (from + m) \in Nat /\ from + m + (n - (from + m)) = n
    BY <1>1
  <2> QED BY <2>1
<1>6. z \in Seq(T) /\ Len(z) = r /\ \A i \in 1..r : z[i] = b[from + m + i]
  <2>1. z = slice(b, from + m, r)
    BY <1>3, <1>5 DEF slice
  <2>2. from + m \in Nat /\ from + m + r <= Len(b)
    BY <1>1, <1>5
  <2>3. Slices(T, b, from + m, r, slice(b, from + m, r))
    BY <2>2, SliceTaken
  <2> QED BY <2>1, <2>3, Zenon DEF Slices
<1>7. PICK y : y = x \o s
  OBVIOUS
<1>8. y \in Seq(T) /\ Len(y) = from + m /\ (\A i \in 1..from : y[i] = b[i]) /\ \A k \in 1..m : y[from + k] = s[k]
  <2>1. /\ y \in Seq(T) /\ Len(y) = from + m
        /\ \A i \in 1..from : y[i] = x[i]
        /\ \A k \in 1..m : y[from + k] = s[k]
    <3>1. Joins(T, x, s, y)
      BY <1>4, <1>7, Joined, Zenon
    <3> QED BY <1>1, <1>4, <3>1, Zenon DEF Joins
  <2> QED BY <2>1, <1>4
<1>9. PICK c : c = y \o z
  OBVIOUS
<1>10. c \in Seq(T) /\ Len(c) = n /\ (\A i \in 1..(from + m) : c[i] = y[i]) /\ \A i \in 1..r : c[from + m + i] = z[i]
  <2>1. PICK l \in Nat : l = from + m /\ l + r = n
    BY <1>5
  <2>2. /\ c \in Seq(T) /\ Len(c) = l + r
        /\ \A i \in 1..l : c[i] = y[i]
        /\ \A i \in 1..r : c[l + i] = z[i]
    <3>1. Joins(T, y, z, c)
      BY <1>6, <1>8, <1>9, Joined, Zenon
    <3>2. Len(y) = l /\ Len(z) = r
      BY <2>1, <1>6, <1>8, Zenon
    <3> QED BY <3>1, <3>2, Zenon DEF Joins
  <2> QED BY <2>1, <2>2
<1>11. c = copy_into(b, from, s)
  BY <1>1, <1>2, <1>3, <1>7, <1>9 DEF copy_into
<1>12. At(c, from, s)
  <2>1. ASSUME NEW k \in 1..m PROVE c[from + k] = s[k]
    <3>1. from + k \in 1..(from + m)
      OBVIOUS
    <3> QED BY <3>1, <1>8, <1>10
  <2> QED BY <2>1, <1>1 DEF At
<1>13. ASSUME NEW i \in 1..n, i \notin (from + 1)..(from + m) PROVE c[i] = b[i]
  <2>1. CASE i <= from
    <3>1. i \in 1..from /\ i \in 1..(from + m)
      BY <2>1
    <3> QED BY <3>1, <1>8, <1>10
  <2>2. CASE i > from + m
    <3>1. PICK k \in 1..r : i = from + m + k
      <4>1. i - (from + m) \in 1..r /\ i = from + m + (i - (from + m))
        BY <2>2, <1>5
      <4> QED BY <4>1
    <3> QED BY <3>1, <1>6, <1>10
  <2>3. i <= from \/ i > from + m
    BY <1>13
  <2> QED BY <2>1, <2>2, <2>3
<1> QED BY <1>1, <1>10, <1>11, <1>12, <1>13

(* What stands outside a copied range still stands there.                  *)
LEMMA CopyLeaves ==
  ASSUME NEW T, NEW b \in Seq(T), NEW from \in Nat, NEW s \in Seq(T), from + Len(s) <= Len(b),
         NEW at \in Nat, NEW u \in Seq(T), at + Len(u) <= Len(b), At(b, at, u),
         at + Len(u) <= from \/ from + Len(s) <= at
  PROVE  At(copy_into(b, from, s), at, u)
<1>1. PICK m \in Nat, l \in Nat : m = Len(s) /\ l = Len(u)
  OBVIOUS
<1>2. PICK c : c = copy_into(b, from, s)
  OBVIOUS
<1>3. \A i \in 1..Len(b) : i \notin (from + 1)..(from + m) => c[i] = b[i]
  BY <1>1, <1>2, Copied
<1>4. ASSUME NEW k \in 1..l PROVE c[at + k] = u[k]
  <2>1. at + k \in 1..Len(b) /\ at + k \notin (from + 1)..(from + m)
    BY <1>1
  <2>2. b[at + k] = u[k]
    BY <1>1 DEF At
  <2> QED BY <2>1, <2>2, <1>3
<1> QED BY <1>1, <1>2, <1>4 DEF At

(* Blocks of one length, one behind the other.                             *)
LEMMA FlattenBlocks ==
  ASSUME NEW T, NEW m \in Nat \ {0}, NEW n \in Nat, NEW ss, Len(ss) = m,
         \A g \in 1..m : ss[g] \in Seq(T) /\ Len(ss[g]) = n
  PROVE  /\ FlattenSeq(ss) \in Seq(T) /\ Len(FlattenSeq(ss)) = m * n
         /\ \A g \in 1..m, k \in 1..n : FlattenSeq(ss)[(g - 1) * n + k] = ss[g][k]
<1> DEFINE step == [e \in (1..(m - 1)) \X Seq(T) |-> e[2] \o ss[e[1] + 1]]
<1>1. step \in [(1..(m - 1)) \X Seq(T) -> Seq(T)]
  <2>1. ASSUME NEW e \in (1..(m - 1)) \X Seq(T) PROVE e[2] \o ss[e[1] + 1] \in Seq(T)
    <3>1. e[2] \in Seq(T) /\ e[1] + 1 \in 1..m
      OBVIOUS
    <3>2. ss[e[1] + 1] \in Seq(T)
      BY <3>1
    <3> QED BY <3>1, <3>2
  <2> QED BY <2>1
<1>2. \A i \in 1..(m - 1), x \in Seq(T) : step[<<i, x>>] = x \o ss[i + 1]
  OBVIOUS
<1> HIDE DEF step
<1>3. PICK h : Solves(h, m - 1, Seq(T), ss[1], step)
  <2>1. m - 1 \in Nat /\ ss[1] \in Seq(T)
    OBVIOUS
  <2> QED BY <2>1, <1>1, FiniteRecursion, Zenon
<1>4. h \in [0..(m - 1) -> Seq(T)] /\ h = [i \in 0..(m - 1) |-> IF i = 0 THEN ss[1] ELSE step[<<i, h[i - 1]>>]]
  BY <1>3 DEF Solves
<1>5. \A i \in 0..(m - 1) : h[i] = IF i = 0 THEN ss[1] ELSE step[<<i, h[i - 1]>>]
  BY <1>4, Zenon
<1> DEFINE Is(f) == f = [i \in 1..m |-> IF i = 1 THEN ss[1] ELSE f[i - 1] \o ss[i]]
           g0 == [i \in 1..m |-> h[i - 1]]
<1>6. Is(g0)
  <2>1. ASSUME NEW i \in 1..m PROVE g0[i] = IF i = 1 THEN ss[1] ELSE g0[i - 1] \o ss[i]
    <3>1. CASE i = 1
      <4>0. 0 \in 0..(m - 1)
        OBVIOUS
      <4>1. h[0] = ss[1]
        BY <3>1, <4>0, <1>5, Zenon
      <4>2. i - 1 = 0
        BY <3>1
      <4> QED BY <3>1, <4>1, <4>2
    <3>2. CASE i # 1
      <4>1. i - 1 \in 1..(m - 1) /\ i - 1 \in 0..(m - 1) /\ i - 1 \in 1..m /\ (i - 1) - 1 \in 0..(m - 1) /\ (i - 1) + 1 = i /\ i - 1 # 0
        BY <3>2
      <4>2. h[i - 1] = step[<<i - 1, h[(i - 1) - 1]>>] /\ h[(i - 1) - 1] \in Seq(T)
        BY <4>1, <1>4, <1>5
      <4>3. h[i - 1] = h[(i - 1) - 1] \o ss[i]
        BY <4>1, <4>2, <1>2
      <4>4. g0[i] = h[i - 1] /\ g0[i - 1] = h[(i - 1) - 1]
        BY <4>1
      <4> QED BY <3>2, <4>3, <4>4
    <3> QED BY <3>1, <3>2
  <2>2. g0 = [i \in 1..m |-> g0[i]]
    OBVIOUS
  <2> HIDE DEF g0
  <2>3. [i \in 1..m |-> g0[i]] = [i \in 1..m |-> IF i = 1 THEN ss[1] ELSE g0[i - 1] \o ss[i]]
    BY <2>1
  <2> QED BY <2>2, <2>3, Zenon
<1> HIDE DEF g0
<1> DEFINE f == CHOOSE x : Is(x)
<1>7. FlattenSeq(ss) = f[m]
  <2>1. FlattenSeq(ss) = (CHOOSE x : x = [i \in 1..m |-> IF i = 1 THEN ss[i] ELSE x[i - 1] \o ss[i]])[m]
    BY DEF FlattenSeq
  <2>2. ASSUME NEW x
        PROVE  [i \in 1..m |-> IF i = 1 THEN ss[i] ELSE x[i - 1] \o ss[i]]
                 = [i \in 1..m |-> IF i = 1 THEN ss[1] ELSE x[i - 1] \o ss[i]]
    OBVIOUS
  <2>3. \A x : (x = [i \in 1..m |-> IF i = 1 THEN ss[i] ELSE x[i - 1] \o ss[i]]) <=> Is(x)
    BY <2>2, Zenon
  <2>4. (CHOOSE x : x = [i \in 1..m |-> IF i = 1 THEN ss[i] ELSE x[i - 1] \o ss[i]]) = (CHOOSE x : Is(x))
    <3> HIDE DEF Is
    <3> QED BY <2>3
  <2> QED BY <2>1, <2>4
<1>8. Is(f)
  BY <1>6, Zenon
<1> HIDE DEF f
<1>9. \A i \in 1..m : f[i] = IF i = 1 THEN ss[1] ELSE f[i - 1] \o ss[i]
  BY <1>8, Zenon
<1> HIDE DEF Is
<1> DEFINE Good(i) == /\ f[i] \in Seq(T) /\ Len(f[i]) = i * n
                      /\ \A g \in 1..i, k \in 1..n : f[i][(g - 1) * n + k] = ss[g][k]
           C == {i \in 1..m : ~Good(i)}
<1>10. C = {}
  <2>1. SUFFICES ASSUME C # {} PROVE FALSE
    OBVIOUS
  <2>2. C \subseteq Nat
    OBVIOUS
  <2>3. PICK i \in C : \A y \in C : i <= y
    BY <2>1, <2>2, LeastNatural
  <2>4. CASE i = 1
    <3>1. f[1] = ss[1] /\ ss[1] \in Seq(T) /\ Len(ss[1]) = n
      BY <1>9
    <3>2. 1 * n = n /\ \A g \in 1..1, k \in 1..n : g = 1 /\ (g - 1) * n + k = k
      OBVIOUS
    <3>3. Good(1)
      BY <3>1, <3>2
    <3> QED BY <2>3, <2>4, <3>3
  <2>5. CASE i # 1
    <3>1. PICK j \in 1..m : i = j + 1 /\ j \notin C /\ j \in Nat
      <4>1. i \in 1..m /\ \A y \in C : y \in 1..m
        <5> HIDE DEF Good
        <5> QED BY <2>3
      <4>2. i - 1 \in 1..m /\ i = (i - 1) + 1 /\ ~(i <= i - 1) /\ i - 1 \in Nat
        BY <4>1, <2>5
      <4>3. i - 1 \notin C
        <5> HIDE DEF C
        <5> QED BY <4>2, <2>3
      <4> HIDE DEF C
      <4> QED BY <4>2, <4>3
    <3>2. Good(j)
      <4> HIDE DEF Good
      <4> QED BY <3>1
    <3>3. f[i] = f[j] \o ss[i] /\ i \in 1..m
      <4>1. i - 1 = j
        BY <3>1
      <4> QED BY <4>1, <2>3, <2>5, <1>9
    <3>4. PICK w \in Nat : w = j * n
      <4>1. j * n \in Nat
        BY <3>1
      <4> QED BY <4>1
    <3>5. i * n = w + n
      <4>1. (j + 1) * n = j * n + n
        BY <3>1
      <4> QED BY <4>1, <3>1, <3>4
    <3>6. f[j] \in Seq(T) /\ Len(f[j]) = w /\ ss[i] \in Seq(T) /\ Len(ss[i]) = n
      BY <3>2, <3>3, <3>4
    <3>7. /\ f[i] \in Seq(T) /\ Len(f[i]) = w + n
          /\ \A l \in 1..w : f[i][l] = f[j][l]
          /\ \A k \in 1..n : f[i][w + k] = ss[i][k]
      <4>1. Joins(T, f[j], ss[i], f[i])
        BY <3>3, <3>6, Joined, Zenon
      <4> QED BY <3>6, <4>1, Zenon DEF Joins
    <3>8. ASSUME NEW g \in 1..i, NEW k \in 1..n
          PROVE  f[i][(g - 1) * n + k] = ss[g][k]
      <4>1. CASE g = i
        <5>1. (g - 1) * n = w
          BY <4>1, <3>1, <3>4
        <5> QED BY <4>1, <5>1, <3>7
      <4>2. CASE g # i
        <5>1. g \in 1..j
          BY <4>2, <3>1
        <5>2. PICK u \in Nat : u = (g - 1) * n
          <6>1. (g - 1) * n \in Nat
            OBVIOUS
          <6> QED BY <6>1
        <5>3. u + n <= w
          <6>1. PICK d \in Nat : j = g + d
            <7>1. j - g \in Nat /\ j = g + (j - g)
              BY <5>1
            <7> QED BY <7>1
          <6>2. (g + d) * n = (g - 1) * n + n + d * n /\ d * n \in Nat
            OBVIOUS
          <6> QED BY <6>1, <6>2, <5>2, <3>4
        <5>4. u + k \in 1..w
          BY <5>3
        <5>5. f[j][u + k] = ss[g][k]
          BY <5>1, <5>2, <3>2
        <5> QED BY <5>2, <5>4, <5>5, <3>7
      <4> QED BY <4>1, <4>2
    <3>9. Good(i)
      BY <3>5, <3>7, <3>8
    <3> QED BY <2>3, <3>9
  <2> QED BY <2>4, <2>5
<1>11. m \in 1..m /\ Good(m)
  <2>1. m \in 1..m
    OBVIOUS
  <2> HIDE DEF Good
  <2> QED BY <2>1, <1>10
<1> QED BY <1>7, <1>11

----------------------------------------------------------------------------
(* Bytes and coefficients.                                                 *)

Byte == Digit(BYTE_BITS)

(* Header fields hold every salt and count; a group has whole bytes.       *)
LEMMA Widths ==
  /\ BYTE_BITS \in Nat \ {0} /\ COEFF_BITS \in Nat \ {0} /\ DISC_BITS \in Nat \ {0}
  /\ Span(COEFF_BITS, COEFFS_PER_GROUP) = Span(BYTE_BITS, BYTES_PER_GROUP)
  /\ MAX_ENTRIES_PER_BUCKET = Span(BYTE_BITS, COUNT_BYTES) - 1
  /\ MAX_BUCKET_SALT_ATTEMPTS <= Span(BYTE_BITS, BUCKET_SALT_BYTES)
<1>1. BYTE_BITS \in Nat \ {0} /\ COEFF_BITS \in Nat \ {0} /\ DISC_BITS \in Nat \ {0}
  BY BucketCodecAssumption
<1>2. COEFF_BITS * COEFFS_PER_GROUP = BYTE_BITS * BYTES_PER_GROUP
  BY <1>1, BucketCodecAssumption DEF COEFFS_PER_GROUP, BYTES_PER_GROUP
<1>3. BYTE_BITS * COUNT_BYTES = COUNT_BYTES * BYTE_BITS
      /\ BYTE_BITS * BUCKET_SALT_BYTES = BUCKET_SALT_BYTES * BYTE_BITS
  BY <1>1 DEF COUNT_BYTES, BUCKET_SALT_BYTES
<1> QED BY <1>1, <1>2, <1>3, BucketCodecAssumption, Zenon DEF Span

(* A bucket is a number of whole groups.                                   *)
LEMMA GroupCount ==
  /\ Groups \in Nat \ {0}
  /\ BUCKET_BYTES = Groups * BYTES_PER_GROUP /\ N = Groups * COEFFS_PER_GROUP
<1>1. BUCKET_BYTES \in Nat /\ BUCKET_BYTES % 5 = 0 /\ BUCKET_BYTES >= 6
  BY BuildAssumption, BucketCodecAssumption
     DEF BYTES_PER_GROUP, FIRST_ENTRY_OFFSET, BUCKET_SALT_BYTES, COUNT_BYTES
<1>2. PICK g \in Nat : g = BUCKET_BYTES \div 5 /\ BUCKET_BYTES = g * 5
  <2>1. BUCKET_BYTES \div 5 \in Nat /\ BUCKET_BYTES = (BUCKET_BYTES \div 5) * 5
    BY <1>1
  <2> QED BY <2>1
<1>3. N = g * 4 /\ N \div 4 = g
  BY <1>2 DEF N, BYTES_PER_GROUP, COEFFS_PER_GROUP
<1> QED BY <1>1, <1>2, <1>3 DEF Groups, BYTES_PER_GROUP, COEFFS_PER_GROUP

(* Every place is one of a group.                                          *)
LEMMA InGroup ==
  ASSUME NEW m \in Nat, NEW n \in Nat \ {0}, NEW i \in 1..(m * n)
  PROVE  \E g \in 1..m, k \in 1..n : i = (g - 1) * n + k
<1>1. PICK q \in Nat, r \in 0..(n - 1) : i - 1 = n * q + r
  <2>1. (i - 1) \div n \in Nat /\ (i - 1) % n \in 0..(n - 1) /\ i - 1 = n * ((i - 1) \div n) + ((i - 1) % n)
    <3>1. PICK j \in Nat : j = i - 1
      <4>1. m * n \in Nat
        OBVIOUS
      <4>2. i - 1 \in Nat
        BY <4>1
      <4> QED BY <4>2
    <3>2. j \div n \in Nat /\ j % n \in 0..(n - 1) /\ j = n * (j \div n) + (j % n)
      OBVIOUS
    <3> QED BY <3>1, <3>2
  <2> QED BY <2>1
<1>2. q < m
  <2>1. SUFFICES ASSUME m <= q PROVE FALSE
    BY <1>1
  <2>2. PICK d \in Nat : q = m + d
    <3>1. q - m \in Nat /\ q = m + (q - m)
      BY <2>1, <1>1
    <3> QED BY <3>1
  <2>3. n * (m + d) = m * n + n * d /\ n * d \in Nat /\ m * n \in Nat
    OBVIOUS
  <2>4. PICK x \in Nat, y \in Nat : x = m * n /\ y = n * d
    BY <2>3
  <2>5. i - 1 = x + y + r /\ i \in 1..x
    BY <1>1, <2>2, <2>3, <2>4
  <2> QED BY <2>5
<1>3. q + 1 \in 1..m /\ r + 1 \in 1..n /\ (q + 1) - 1 = q
  BY <1>1, <1>2
<1>4. i = q * n + (r + 1)
  <2>1. n * q = q * n /\ q * n \in Nat
    OBVIOUS
  <2>2. m * n \in Nat
    OBVIOUS
  <2> QED BY <1>1, <2>1, <2>2
<1> QED BY <1>3, <1>4

(* Places of one group of many.                                            *)
LEMMA GroupWithin ==
  ASSUME NEW m \in Nat, NEW n \in Nat, NEW g \in 1..m
  PROVE  (g - 1) * n \in Nat /\ (g - 1) * n + n <= m * n
<1>1. PICK d \in Nat : m = g + d
  <2>1. m - g \in Nat /\ m = g + (m - g)
    OBVIOUS
  <2> QED BY <2>1
<1>2. (g + d) * n = (g - 1) * n + n + d * n /\ d * n \in Nat /\ (g - 1) * n \in Nat
  OBVIOUS
<1> QED BY <1>1, <1>2

(* The coefficients of a bucket's bytes, a group of digits at a time.      *)
LEMMA Packed ==
  ASSUME NEW b \in Seq(Byte), Len(b) = BUCKET_BYTES
  PROVE  /\ pack_bytes_into_coeffs(b) \in Seq(Digit(COEFF_BITS))
         /\ Len(pack_bytes_into_coeffs(b)) = N
         /\ \A g \in 1..Groups :
              /\ pack_group(b, g) \in Seq(Digit(COEFF_BITS))
              /\ Len(pack_group(b, g)) = COEFFS_PER_GROUP
              /\ to_le_bytes(number(pack_group(b, g), COEFF_BITS), BYTES_PER_GROUP)
                   = slice(b, (g - 1) * BYTES_PER_GROUP, BYTES_PER_GROUP)
              /\ \A k \in 1..COEFFS_PER_GROUP :
                   pack_bytes_into_coeffs(b)[(g - 1) * COEFFS_PER_GROUP + k] = pack_group(b, g)[k]
<1> DEFINE ss == [g \in 1..Groups |-> pack_group(b, g)]
<1>1. /\ BYTE_BITS \in Nat /\ COEFF_BITS \in Nat /\ Groups \in Nat \ {0}
      /\ COEFFS_PER_GROUP \in Nat /\ BYTES_PER_GROUP \in Nat
  BY Widths, GroupCount DEF COEFFS_PER_GROUP, BYTES_PER_GROUP
<1>2. ASSUME NEW g \in 1..Groups
      PROVE  /\ pack_group(b, g) \in Seq(Digit(COEFF_BITS))
             /\ Len(pack_group(b, g)) = COEFFS_PER_GROUP
             /\ to_le_bytes(number(pack_group(b, g), COEFF_BITS), BYTES_PER_GROUP)
                  = slice(b, (g - 1) * BYTES_PER_GROUP, BYTES_PER_GROUP)
  <2>1. PICK at \in Nat : at = (g - 1) * BYTES_PER_GROUP /\ at + BYTES_PER_GROUP <= BUCKET_BYTES
    BY <1>1, GroupWithin, GroupCount
  <2>2. PICK s \in Seq(Byte) : s = slice(b, at, BYTES_PER_GROUP) /\ Len(s) = BYTES_PER_GROUP
    <3>1. at + BYTES_PER_GROUP <= Len(b)
      BY <1>1, <2>1
    <3>2. Slices(Byte, b, at, BYTES_PER_GROUP, slice(b, at, BYTES_PER_GROUP))
      BY <1>1, <3>1, SliceTaken
    <3> QED BY <3>2, Zenon DEF Slices
  <2>3. PICK v : v = number(s, BYTE_BITS)
    OBVIOUS
  <2>4. v \in 0..(Span(BYTE_BITS, BYTES_PER_GROUP) - 1) /\ digits(v, BYTE_BITS, BYTES_PER_GROUP) = s
    BY <1>1, <2>2, <2>3, DigitsRoundTrip, Zenon DEF Byte
  <2>5. Span(COEFF_BITS, COEFFS_PER_GROUP) = Span(BYTE_BITS, BYTES_PER_GROUP)
    BY Widths
  <2>6. v \in Nat
    <3>1. Span(BYTE_BITS, BYTES_PER_GROUP) \in Nat
      BY <1>1, Ranges
    <3> QED BY <2>4, <3>1
  <2>7. pack_group(b, g) = digits(v, COEFF_BITS, COEFFS_PER_GROUP)
    BY <2>1, <2>2, <2>3, Zenon DEF pack_group, from_le_bytes
  <2>8. pack_group(b, g) \in Seq(Digit(COEFF_BITS)) /\ Len(pack_group(b, g)) = COEFFS_PER_GROUP
    <3>1. /\ digits(v, COEFF_BITS, COEFFS_PER_GROUP) \in Seq(Digit(COEFF_BITS))
          /\ Len(digits(v, COEFF_BITS, COEFFS_PER_GROUP)) = COEFFS_PER_GROUP
      <4>1. COEFF_BITS \in Nat /\ COEFFS_PER_GROUP \in Nat /\ v \in Nat
        BY <1>1, <2>6
      <4> QED BY <4>1, NumberDigits, Zenon
    <3> QED BY <2>7, <3>1, Zenon
  <2>9. number(pack_group(b, g), COEFF_BITS) = v
    BY <1>1, <2>4, <2>5, <2>7, NumberRoundTrip, Zenon
  <2> QED BY <2>1, <2>2, <2>4, <2>8, <2>9, Zenon DEF to_le_bytes
<1>3. Len(ss) = Groups /\ \A g \in 1..Groups : ss[g] = pack_group(b, g)
  BY <1>1, <1>2
<1>4. pack_bytes_into_coeffs(b) = FlattenSeq(ss)
  BY DEF pack_bytes_into_coeffs
<1> HIDE DEF ss
<1>5. /\ FlattenSeq(ss) \in Seq(Digit(COEFF_BITS)) /\ Len(FlattenSeq(ss)) = Groups * COEFFS_PER_GROUP
      /\ \A g \in 1..Groups, k \in 1..COEFFS_PER_GROUP :
           FlattenSeq(ss)[(g - 1) * COEFFS_PER_GROUP + k] = ss[g][k]
  <2>1. \A g \in 1..Groups : ss[g] \in Seq(Digit(COEFF_BITS)) /\ Len(ss[g]) = COEFFS_PER_GROUP
    BY <1>2, <1>3, Zenon
  <2> QED BY <1>1, <1>3, <2>1, FlattenBlocks, SMTT(60)
<1>6. N = Groups * COEFFS_PER_GROUP
  BY GroupCount
<1>7. ASSUME NEW g \in 1..Groups, NEW k \in 1..COEFFS_PER_GROUP
      PROVE  pack_bytes_into_coeffs(b)[(g - 1) * COEFFS_PER_GROUP + k] = pack_group(b, g)[k]
  BY <1>3, <1>4, <1>5, Zenon
<1> QED BY <1>2, <1>4, <1>5, <1>6, <1>7, Zenon

(* What the client unpacks are the bytes the server packed.                *)
LEMMA PackRoundTrip ==
  ASSUME NEW b \in Seq(Byte), Len(b) = BUCKET_BYTES
  PROVE  unpack_coeffs_into_bytes(pack_bytes_into_coeffs(b)) = b
<1> DEFINE cs == pack_bytes_into_coeffs(b)
           ss == [g \in 1..Groups |-> unpack_group(cs, g)]
<1>1. /\ BYTE_BITS \in Nat /\ COEFF_BITS \in Nat /\ Groups \in Nat \ {0}
      /\ COEFFS_PER_GROUP \in Nat /\ BYTES_PER_GROUP \in Nat \ {0}
  BY Widths, GroupCount DEF COEFFS_PER_GROUP, BYTES_PER_GROUP
<1>2. PICK C \in Nat \ {0} : C = 2^COEFF_BITS
  BY <1>1, Ranges
<1>3. unpack_coeffs_into_bytes(cs) = FlattenSeq(ss)
  BY DEF unpack_coeffs_into_bytes
<1> HIDE DEF cs
<1>4. ASSUME NEW g \in 1..Groups
      PROVE  unpack_group(cs, g) = slice(b, (g - 1) * BYTES_PER_GROUP, BYTES_PER_GROUP)
  <2>1. PICK p \in Seq(Digit(COEFF_BITS)) :
          /\ p = pack_group(b, g) /\ Len(p) = COEFFS_PER_GROUP
          /\ to_le_bytes(number(p, COEFF_BITS), BYTES_PER_GROUP)
               = slice(b, (g - 1) * BYTES_PER_GROUP, BYTES_PER_GROUP)
          /\ \A k \in 1..COEFFS_PER_GROUP : cs[(g - 1) * COEFFS_PER_GROUP + k] = p[k]
    BY Packed, Zenon DEF cs
  <2>2. ASSUME NEW k \in 1..COEFFS_PER_GROUP
        PROVE  cs[(g - 1) * COEFFS_PER_GROUP + k] % 2^COEFF_BITS = p[k]
    <3>1. p[k] \in 0..(C - 1)
      BY <2>1, <1>1, <1>2 DEF Digit
    <3>2. p[k] % C = p[k]
      <4>1. PICK y \in 0..(C - 1) : y = p[k]
        BY <3>1
      <4>2. y \in Nat /\ y = C * 0 + y /\ 0 \in Nat
        OBVIOUS
      <4>3. y % C = y
        BY <4>2, Quotient
      <4> QED BY <4>1, <4>3, Zenon
    <3> QED BY <2>1, <3>2, <1>2, Zenon
  <2>3. [k \in 1..COEFFS_PER_GROUP |-> cs[(g - 1) * COEFFS_PER_GROUP + k] % 2^COEFF_BITS] = p
    <3>1. [k \in 1..COEFFS_PER_GROUP |-> cs[(g - 1) * COEFFS_PER_GROUP + k] % 2^COEFF_BITS]
            = [k \in 1..COEFFS_PER_GROUP |-> p[k]]
      BY <2>2
    <3>2. p = [k \in 1..COEFFS_PER_GROUP |-> p[k]]
      BY <2>1, <1>1
    <3> QED BY <3>1, <3>2, Zenon
  <2> QED BY <2>1, <2>3, Zenon DEF unpack_group
<1>5. ASSUME NEW g \in 1..Groups
      PROVE  /\ (g - 1) * BYTES_PER_GROUP \in Nat
             /\ ss[g] \in Seq(Byte) /\ Len(ss[g]) = BYTES_PER_GROUP
             /\ \A k \in 1..BYTES_PER_GROUP : ss[g][k] = b[(g - 1) * BYTES_PER_GROUP + k]
  <2>1. PICK at \in Nat : at = (g - 1) * BYTES_PER_GROUP /\ at + BYTES_PER_GROUP <= BUCKET_BYTES
    BY <1>1, GroupWithin, GroupCount
  <2>2. PICK s \in Seq(Byte) : s = slice(b, at, BYTES_PER_GROUP) /\ Len(s) = BYTES_PER_GROUP
                               /\ \A k \in 1..BYTES_PER_GROUP : s[k] = b[at + k]
    <3>1. at + BYTES_PER_GROUP <= Len(b) /\ BYTES_PER_GROUP \in Nat
      BY <1>1, <2>1
    <3>2. Slices(Byte, b, at, BYTES_PER_GROUP, slice(b, at, BYTES_PER_GROUP))
      BY <3>1, SliceTaken
    <3> QED BY <3>2, Zenon DEF Slices
  <2>3. ss[g] = s
    BY <1>4, <2>1, <2>2, Zenon
  <2> QED BY <2>1, <2>2, <2>3, Zenon
<1>6. Len(ss) = Groups
  BY <1>1
<1> HIDE DEF ss
<1>7. PICK u : u = FlattenSeq(ss)
  OBVIOUS
<1>8. /\ u \in Seq(Byte) /\ Len(u) = Groups * BYTES_PER_GROUP
      /\ \A g \in 1..Groups, k \in 1..BYTES_PER_GROUP : u[(g - 1) * BYTES_PER_GROUP + k] = ss[g][k]
  <2>1. \A g \in 1..Groups : ss[g] \in Seq(Byte) /\ Len(ss[g]) = BYTES_PER_GROUP
    BY <1>5, Zenon
  <2>2. /\ FlattenSeq(ss) \in Seq(Byte) /\ Len(FlattenSeq(ss)) = Groups * BYTES_PER_GROUP
        /\ \A g \in 1..Groups, k \in 1..BYTES_PER_GROUP : FlattenSeq(ss)[(g - 1) * BYTES_PER_GROUP + k] = ss[g][k]
    <3>1. Groups \in Nat \ {0} /\ BYTES_PER_GROUP \in Nat /\ Len(ss) = Groups
      BY <1>1, <1>6
    <3> QED BY <2>1, <3>1, FlattenBlocks, SMTT(60)
  <2> QED BY <1>7, <2>2, Zenon
<1>9. BUCKET_BYTES = Groups * BYTES_PER_GROUP
  BY GroupCount
<1>10. ASSUME NEW i \in 1..BUCKET_BYTES PROVE u[i] = b[i]
  <2>1. PICK g \in 1..Groups, k \in 1..BYTES_PER_GROUP : i = (g - 1) * BYTES_PER_GROUP + k
    <3>1. PICK m \in Nat, n \in Nat \ {0} : m = Groups /\ n = BYTES_PER_GROUP
      BY <1>1
    <3>2. i \in 1..(m * n)
      BY <1>9, <3>1
    <3>3. \E g \in 1..m, k \in 1..n : i = (g - 1) * n + k
      BY <3>2, InGroup, ZenonT(60)
    <3> QED BY <3>1, <3>3, Zenon
  <2> QED BY <2>1, <1>5, <1>8, Zenon
<1>11. u = b
  BY <1>8, <1>9, <1>10, SeqEqual
<1> QED BY <1>3, <1>7, <1>11 DEF cs

----------------------------------------------------------------------------
(* The bytes of one entry.                                                 *)

(* Kinds and their codes.                                                  *)
LEMMA KindCodes ==
  ASSUME NEW kind \in Kinds
  PROVE  kind_code(kind) \in 0..3 /\ KindOfCode[kind_code(kind) + 1] = kind
<1>1. \E i \in 1..4 : KindOfCode[i] = kind
  BY DEF KindOfCode, Kinds
<1>2. DOMAIN KindOfCode = 1..4
  BY DEF KindOfCode
<1>3. PICK i \in 1..4 : i = (CHOOSE j \in 1..4 : KindOfCode[j] = kind) /\ KindOfCode[i] = kind
  BY <1>1, Zenon
<1>4. kind_code(kind) = i - 1
  BY <1>2, <1>3, Zenon DEF kind_code
<1>5. i - 1 \in 0..3 /\ (i - 1) + 1 = i
  OBVIOUS
<1> QED BY <1>3, <1>4, <1>5

(* A tag gives back its discriminator and its kind.                        *)
LEMMA TagRoundTrip ==
  ASSUME NEW d \in Discs, NEW kind \in Kinds
  PROVE  /\ pack_tag(d, kind) \in Seq(Byte) /\ Len(pack_tag(d, kind)) = 2
         /\ parse_tag(pack_tag(d, kind)) = [disc |-> d, kind |-> kind]
<1>1. PICK D \in Nat \ {0} : D = 2^DISC_BITS /\ Span(BYTE_BITS, 2) = D * 4
  <2>1. BYTE_BITS \in Nat /\ DISC_BITS \in Nat /\ BYTE_BITS * 2 = DISC_BITS + 2
    BY Widths, BucketCodecAssumption
  <2>2. 2^DISC_BITS \in Nat \ {0} /\ 2^(DISC_BITS + 2) = 2^DISC_BITS * 2^2 /\ 2^2 = 4
    <3>1. 2^DISC_BITS \in Nat \ {0} /\ 2^(DISC_BITS + 2) = 2^DISC_BITS * 2^2
      <4>1. DISC_BITS \in Nat /\ 2 \in Nat
        BY <2>1
      <4> QED BY <4>1, PowerSum, Zenon
    <3>2. 2^2 = 4
      OBVIOUS
    <3> QED BY <3>1, <3>2, Zenon
  <2>3. Span(BYTE_BITS, 2) = 2^DISC_BITS * 4
    BY <2>1, <2>2, Zenon DEF Span
  <2> QED BY <2>2, <2>3, Zenon
<1>2. PICK c \in 0..3 : c = kind_code(kind) /\ KindOfCode[c + 1] = kind
  BY KindCodes
<1>3. d \in 0..(D - 1)
  BY <1>1, BucketCodecAssumption
<1>4. PICK v \in Nat : v = d + c * D
  <2>1. d + c * D \in Nat
    BY <1>3
  <2> QED BY <2>1
<1>5. v = D * c + d
  BY <1>3, <1>4
<1>6. v \div D = c /\ v % D = d
  BY <1>3, <1>5, Quotient
<1>7. v \in 0..(Span(BYTE_BITS, 2) - 1)
  <2>1. c = 0 \/ c = 1 \/ c = 2 \/ c = 3
    OBVIOUS
  <2>2. v < D * 4
    BY <2>1, <1>3, <1>4
  <2> QED BY <1>1, <2>2
<1>8. pack_tag(d, kind) = digits(v, BYTE_BITS, 2)
  BY <1>1, <1>2, <1>4, Zenon DEF pack_tag, to_le_bytes
<1>9. BYTE_BITS \in Nat /\ 2 \in Nat
  BY Widths
<1>10. digits(v, BYTE_BITS, 2) \in Seq(Byte) /\ Len(digits(v, BYTE_BITS, 2)) = 2
  <2>1. /\ digits(v, BYTE_BITS, 2) \in Seq(Digit(BYTE_BITS)) /\ Len(digits(v, BYTE_BITS, 2)) = 2
        /\ \A i \in 1..2 : digits(v, BYTE_BITS, 2)[i] = (v \div Span(BYTE_BITS, i - 1)) % 2^BYTE_BITS
    BY <1>9, NumberDigits, Zenon
  <2> QED BY <2>1, Zenon DEF Byte
<1>11. number(digits(v, BYTE_BITS, 2), BYTE_BITS) = v
  BY <1>7, <1>9, NumberRoundTrip, Zenon
<1>12. parse_tag(pack_tag(d, kind)) = [disc |-> v % D, kind |-> KindOfCode[v \div D + 1]]
  BY <1>1, <1>8, <1>11, Zenon DEF parse_tag, from_le_bytes
<1> QED BY <1>2, <1>6, <1>8, <1>10, <1>12, Zenon

(* The sizes of an entry's parts.                                          *)
LEMMA EntryParts ==
  ASSUME NEW e \in Entry
  PROVE  /\ e.disc \in Discs /\ e.rec \in Records /\ e.rec.kind \in Kinds
         /\ rdata_bytes(e.rec.kind) \in Nat /\ entry_size(e.rec.kind) = 2 + rdata_bytes(e.rec.kind)
         /\ Rdata(e.rec) \in Seq(Byte) /\ Len(Rdata(e.rec)) = rdata_bytes(e.rec.kind)
         /\ entry_bytes(e) \in Seq(Byte) /\ Len(entry_bytes(e)) = entry_size(e.rec.kind)
         /\ Joins(Byte, pack_tag(e.disc, e.rec.kind), Rdata(e.rec), entry_bytes(e))
<1>1. e.disc \in Discs /\ e.rec \in Records
  BY DEF Entry
<1>2. e.rec.kind \in Kinds
  BY <1>1, BuildAssumption
<1>3. PICK n \in Nat : n = rdata_bytes(e.rec.kind) /\ entry_size(e.rec.kind) = 2 + n
  <2>1. rdata_bytes(e.rec.kind) \in Nat
    BY DEF rdata_bytes
  <2> QED BY <2>1 DEF entry_size
<1>4. Rdata(e.rec) \in [1..n -> Byte]
  <2>1. Rdata(e.rec) \in [1..rdata_bytes(e.rec.kind) -> 0..(2^BYTE_BITS - 1)]
    BY <1>1, BucketCodecAssumption, Zenon
  <2> QED BY <2>1, <1>3, Zenon DEF Byte, Digit
<1>5. Rdata(e.rec) \in Seq(Byte) /\ Len(Rdata(e.rec)) = n
  <2>1. PICK r \in [1..n -> Byte] : r = Rdata(e.rec)
    BY <1>4
  <2>2. r \in Seq(Byte) /\ Len(r) = n
    OBVIOUS
  <2> QED BY <2>1, <2>2
<1>6. PICK t \in Seq(Byte) : t = pack_tag(e.disc, e.rec.kind) /\ Len(t) = 2
  BY <1>1, <1>2, TagRoundTrip, Zenon
<1>7. PICK r \in Seq(Byte) : r = Rdata(e.rec) /\ Len(r) = n
  BY <1>5
<1>8. Joins(Byte, t, r, t \o r)
  BY Joined
<1>9. entry_bytes(e) = t \o r
  BY <1>6, <1>7 DEF entry_bytes
<1>10. entry_bytes(e) \in Seq(Byte) /\ Len(entry_bytes(e)) = 2 + n
  BY <1>6, <1>7, <1>8, <1>9, Zenon DEF Joins
<1> QED BY <1>1, <1>2, <1>3, <1>5, <1>6, <1>7, <1>8, <1>9, <1>10, Zenon

(* What the decoder finds where an entry stands.                           *)
LEMMA EntryRead ==
  ASSUME NEW b \in Seq(Byte), NEW e \in Entry, NEW p \in Nat,
         p + entry_size(e.rec.kind) <= Len(b), At(b, p, entry_bytes(e))
  PROVE  /\ parse_tag(slice(b, p, 2)) = [disc |-> e.disc, kind |-> e.rec.kind]
         /\ slice(b, p + 2, rdata_bytes(e.rec.kind)) = Rdata(e.rec)
<1>1. PICK n \in Nat : n = rdata_bytes(e.rec.kind) /\ entry_size(e.rec.kind) = 2 + n
  BY EntryParts
<1>2. PICK t \in Seq(Byte) : t = pack_tag(e.disc, e.rec.kind) /\ Len(t) = 2
                             /\ parse_tag(t) = [disc |-> e.disc, kind |-> e.rec.kind]
  BY EntryParts, TagRoundTrip, Zenon
<1>3. PICK r \in Seq(Byte) : r = Rdata(e.rec) /\ Len(r) = n
  BY <1>1, EntryParts, Zenon
<1>4. PICK z \in Seq(Byte) : z = entry_bytes(e) /\ Joins(Byte, t, r, z)
  BY <1>2, <1>3, EntryParts, Zenon
<1>5. /\ Len(z) = 2 + n /\ (\A i \in 1..2 : z[i] = t[i]) /\ \A k \in 1..n : z[2 + k] = r[k]
  BY <1>2, <1>3, <1>4, Zenon DEF Joins
<1>6. \A k \in 1..(2 + n) : b[p + k] = z[k]
  BY <1>4, <1>5, Zenon DEF At
<1>7. At(b, p, t)
  BY <1>2, <1>5, <1>6 DEF At
<1>8. At(b, p + 2, r)
  <2>1. ASSUME NEW k \in 1..n PROVE b[(p + 2) + k] = r[k]
    <3>1. 2 + k \in 1..(2 + n) /\ p + (2 + k) = (p + 2) + k
      OBVIOUS
    <3>2. b[p + (2 + k)] = r[k]
      BY <3>1, <1>5, <1>6
    <3> QED BY <3>1, <3>2
  <2> QED BY <2>1, <1>3 DEF At
<1>9. slice(b, p, Len(t)) = t
  <2>1. p + Len(t) <= Len(b)
    BY <1>1, <1>2
  <2> QED BY <2>1, <1>7, SliceAt
<1>10. slice(b, p + 2, Len(r)) = r
  <2>1. p + 2 \in Nat /\ (p + 2) + Len(r) <= Len(b)
    BY <1>1, <1>3
  <2> QED BY <2>1, <1>8, SliceAt
<1> QED BY <1>1, <1>2, <1>3, <1>9, <1>10, Zenon

----------------------------------------------------------------------------
(* The bytes of a bucket.                                                  *)

(* S[i] is the position behind the first i entries.                        *)
Places(es, S) ==
  /\ S \in [0..Len(es) -> Nat] /\ S[0] = FIRST_ENTRY_OFFSET
  /\ \A i \in 1..Len(es) : S[i] = S[i - 1] + entry_size(es[i].rec.kind)

(* Later entries stand behind earlier ones.                                *)
LEMMA PlacesGrow ==
  ASSUME NEW es \in Seq(Entry), NEW S, Places(es, S),
         NEW j \in 0..Len(es), NEW i \in 0..j
  PROVE  S[i] <= S[j] /\ FIRST_ENTRY_OFFSET <= S[i]
<1>1. Len(es) \in Nat
  OBVIOUS
<1>2. \A k \in 1..Len(es) : S[k - 1] <= S[k]
  <2>1. ASSUME NEW k \in 1..Len(es) PROVE S[k - 1] <= S[k]
    <3>1. S[k] = S[k - 1] + entry_size(es[k].rec.kind)
      BY DEF Places
    <3>2. k - 1 \in 0..Len(es) /\ es[k] \in Entry
      BY <1>1
    <3>3. S[k - 1] \in Nat
      BY <3>2 DEF Places
    <3>4. entry_size(es[k].rec.kind) \in Nat
      BY DEF entry_size, rdata_bytes
    <3> QED BY <3>1, <3>3, <3>4
  <2> QED BY <2>1
<1>3. \A k \in 0..Len(es) : S[k] \in Nat
  BY DEF Places
<1>4. ASSUME NEW l \in 0..Len(es) PROVE \A k \in l..Len(es) : S[l] <= S[k]
  <2> DEFINE T == {k \in l..Len(es) : ~(S[l] <= S[k])}
  <2>1. SUFFICES ASSUME T # {} PROVE FALSE
    OBVIOUS
  <2>2. T \subseteq Nat
    BY <1>1
  <2>3. PICK k \in T : \A y \in T : k <= y
    BY <2>1, <2>2, LeastNatural
  <2>4. k # l /\ k \in l..Len(es)
    BY <2>3, <1>3
  <2>5. k - 1 \in l..Len(es) /\ k \in 1..Len(es) /\ k - 1 \in 0..Len(es) /\ k \in 0..Len(es) /\ ~(k <= k - 1)
    BY <2>4, <1>1
  <2>6. S[l] <= S[k - 1]
    BY <2>3, <2>5
  <2>7. S[k - 1] <= S[k] /\ S[k - 1] \in Nat /\ S[k] \in Nat /\ S[l] \in Nat
    BY <2>5, <1>2, <1>3
  <2> QED BY <2>3, <2>6, <2>7
<1>5. i \in 0..Len(es) /\ j \in i..Len(es) /\ 0 \in 0..Len(es) /\ i \in 0..Len(es)
  BY <1>1
<1>6. S[i] <= S[j]
  BY <1>4, <1>5
<1>7. S[0] <= S[i]
  BY <1>4, <1>5
<1> QED BY <1>6, <1>7 DEF Places

(* x is the bucket, and the cursor, once i entries are appended.           *)
LaidOut(x, salt, es, S, i) ==
  /\ x = [bytes |-> x.bytes, pos |-> x.pos]
  /\ x.bytes \in Seq(Byte) /\ Len(x.bytes) = BUCKET_BYTES /\ x.pos = S[i]
  /\ At(x.bytes, 0, to_le_bytes(salt, BUCKET_SALT_BYTES))
  /\ At(x.bytes, COUNT_OFFSET, to_le_bytes(i, COUNT_BYTES))
  /\ \A j \in 1..i : At(x.bytes, S[j - 1], entry_bytes(es[j]))

(* Numbers in the header.                                                  *)
LEMMA Header ==
  ASSUME NEW v \in Nat, NEW n \in Nat
  PROVE  /\ to_le_bytes(v, n) \in Seq(Byte) /\ Len(to_le_bytes(v, n)) = n
         /\ v < Span(BYTE_BITS, n) => from_le_bytes(to_le_bytes(v, n)) = v
<1>1. BYTE_BITS \in Nat
  BY Widths
<1>2. to_le_bytes(v, n) \in Seq(Byte) /\ Len(to_le_bytes(v, n)) = n
  <2>1. /\ digits(v, BYTE_BITS, n) \in Seq(Digit(BYTE_BITS)) /\ Len(digits(v, BYTE_BITS, n)) = n
        /\ \A i \in 1..n : digits(v, BYTE_BITS, n)[i] = (v \div Span(BYTE_BITS, i - 1)) % 2^BYTE_BITS
    BY <1>1, NumberDigits, Zenon
  <2> QED BY <2>1, Zenon DEF Byte, to_le_bytes
<1>3. ASSUME v < Span(BYTE_BITS, n) PROVE from_le_bytes(to_le_bytes(v, n)) = v
  <2>1. v \in 0..(Span(BYTE_BITS, n) - 1)
    <3>1. Span(BYTE_BITS, n) \in Nat
      BY <1>1, Ranges
    <3> QED BY <3>1, <1>3
  <2> QED BY <1>1, <2>1, NumberRoundTrip, Zenon DEF from_le_bytes, to_le_bytes
<1> QED BY <1>2, <1>3

(* A header field that holds a number is read as that number.              *)
LEMMA HeaderRead ==
  ASSUME NEW b \in Seq(Byte), Len(b) = BUCKET_BYTES, NEW v \in Nat
  PROVE  /\ At(b, 0, to_le_bytes(v, BUCKET_SALT_BYTES)) /\ v < Span(BYTE_BITS, BUCKET_SALT_BYTES)
              => read_bucket_salt(b) = v
         /\ At(b, COUNT_OFFSET, to_le_bytes(v, COUNT_BYTES)) /\ v < Span(BYTE_BITS, COUNT_BYTES)
              => read_entry_count(b) = v
<1>1. BUCKET_BYTES \in Nat /\ BUCKET_BYTES >= 6
  BY BuildAssumption, BucketCodecAssumption DEF FIRST_ENTRY_OFFSET, BUCKET_SALT_BYTES, COUNT_BYTES
<1>2. ASSUME NEW from \in Nat, NEW n \in Nat, from + n <= BUCKET_BYTES,
             At(b, from, to_le_bytes(v, n)), v < Span(BYTE_BITS, n)
      PROVE  from_le_bytes(slice(b, from, n)) = v
  <2>1. PICK s \in Seq(Byte) : s = to_le_bytes(v, n) /\ Len(s) = n /\ from_le_bytes(s) = v
    BY <1>2, Header
  <2>2. from + Len(s) <= Len(b) /\ At(b, from, s)
    BY <1>2, <2>1
  <2>3. slice(b, from, Len(s)) = s
    BY <2>2, SliceAt
  <2> QED BY <2>1, <2>3, Zenon
<1>3. /\ BUCKET_SALT_BYTES \in Nat /\ 0 + BUCKET_SALT_BYTES <= BUCKET_BYTES /\ 0 \in Nat
      /\ COUNT_OFFSET \in Nat /\ COUNT_BYTES \in Nat /\ COUNT_OFFSET + COUNT_BYTES <= BUCKET_BYTES
  BY <1>1 DEF COUNT_OFFSET, BUCKET_SALT_BYTES, COUNT_BYTES
<1> QED BY <1>2, <1>3, Zenon DEF read_bucket_salt, read_entry_count

(* Appending an entry that fits leaves the entries before it alone.        *)
LEMMA AppendLaysOut ==
  ASSUME NEW es \in Seq(Entry), NEW S, Places(es, S), S[Len(es)] <= BUCKET_BYTES,
         Len(es) <= MAX_ENTRIES_PER_BUCKET, NEW salt \in Nat,
         NEW i \in 1..Len(es), NEW x, LaidOut(x, salt, es, S, i - 1)
  PROVE  LaidOut(append_entry_bytes(x, es[i]), salt, es, S, i)
<1>1. PICK b \in Seq(Byte), p \in Nat : b = x.bytes /\ p = x.pos /\ p = S[i - 1] /\ Len(b) = BUCKET_BYTES
  <2>1. i - 1 \in 0..Len(es)
    OBVIOUS
  <2>2. S[i - 1] \in Nat
    BY <2>1 DEF Places
  <2> QED BY <2>2 DEF LaidOut
<1>2. PICK e \in Entry : e = es[i]
  OBVIOUS
<1>3. PICK z \in Seq(Byte), l \in Nat : z = entry_bytes(e) /\ Len(z) = l /\ l = entry_size(e.rec.kind)
  BY EntryParts
<1>4. S[i] = p + l /\ p + l <= BUCKET_BYTES /\ 6 <= p
  <2>1. S[i] = S[i - 1] + entry_size(es[i].rec.kind)
    BY DEF Places
  <2>2. Len(es) \in 0..Len(es) /\ i \in 0..Len(es) /\ i - 1 \in 0..i
    OBVIOUS
  <2>3. S[i] <= S[Len(es)] /\ FIRST_ENTRY_OFFSET <= S[i]
    BY <2>2, PlacesGrow
  <2>4. FIRST_ENTRY_OFFSET <= S[i - 1]
    BY <2>2, PlacesGrow
  <2>5. S[Len(es)] \in Nat
    BY <2>2 DEF Places
  <2>6. BUCKET_BYTES \in Nat
    BY BuildAssumption
  <2> QED BY <1>1, <1>2, <1>3, <2>1, <2>3, <2>4, <2>5, <2>6
          DEF FIRST_ENTRY_OFFSET, BUCKET_SALT_BYTES, COUNT_BYTES
<1>5. PICK c \in Seq(Byte) :
        /\ c = copy_into(b, p, z) /\ Len(c) = BUCKET_BYTES /\ At(c, p, z)
  <2>1. p + Len(z) <= Len(b)
    BY <1>1, <1>3, <1>4
  <2>2. /\ copy_into(b, p, z) \in Seq(Byte) /\ Len(copy_into(b, p, z)) = Len(b)
        /\ At(copy_into(b, p, z), p, z)
    BY <2>1, Copied, Zenon
  <2> QED BY <1>1, <2>2, Zenon
<1>6. Len(es) \in Nat /\ i - 1 \in Nat
  OBVIOUS
<1>7. read_entry_count(b) = i - 1
  <2>1. At(b, COUNT_OFFSET, to_le_bytes(i - 1, COUNT_BYTES))
    BY <1>1 DEF LaidOut
  <2>2. i - 1 < Span(BYTE_BITS, COUNT_BYTES)
    <3>1. MAX_ENTRIES_PER_BUCKET = Span(BYTE_BITS, COUNT_BYTES) - 1 /\ BYTE_BITS \in Nat
      BY Widths, Zenon
    <3>2. COUNT_BYTES \in Nat
      BY DEF COUNT_BYTES
    <3>3. Span(BYTE_BITS, COUNT_BYTES) \in Nat \ {0}
      BY <3>1, <3>2, Ranges, Zenon
    <3> QED BY <3>1, <3>3, <1>6
  <2> QED BY <1>1, <1>6, <2>1, <2>2, HeaderRead, Zenon
<1>8. PICK n \in Seq(Byte) : n = to_le_bytes(i, COUNT_BYTES) /\ Len(n) = 2
  <2>1. i \in Nat /\ COUNT_BYTES \in Nat /\ COUNT_BYTES = 2
    BY <1>6 DEF COUNT_BYTES
  <2>2. to_le_bytes(i, COUNT_BYTES) \in Seq(Byte) /\ Len(to_le_bytes(i, COUNT_BYTES)) = COUNT_BYTES
    BY <2>1, Header, Zenon
  <2> QED BY <2>1, <2>2, Zenon
<1>9. PICK s \in Seq(Byte) : s = to_le_bytes(salt, BUCKET_SALT_BYTES) /\ Len(s) = 4
  <2>1. BUCKET_SALT_BYTES \in Nat /\ BUCKET_SALT_BYTES = 4
    BY DEF BUCKET_SALT_BYTES
  <2>2. /\ to_le_bytes(salt, BUCKET_SALT_BYTES) \in Seq(Byte)
        /\ Len(to_le_bytes(salt, BUCKET_SALT_BYTES)) = BUCKET_SALT_BYTES
    BY <2>1, Header, Zenon
  <2> QED BY <2>1, <2>2, Zenon
<1>10. PICK f \in Nat : f = 4 /\ COUNT_OFFSET = f
  BY DEF COUNT_OFFSET, BUCKET_SALT_BYTES
<1>11. PICK w \in Seq(Byte) :
         /\ w = copy_into(c, f, n) /\ Len(w) = BUCKET_BYTES /\ At(w, f, n)
  <2>1. f + Len(n) <= Len(c)
    <3>1. Len(c) = BUCKET_BYTES /\ Len(n) = 2 /\ f = 4
      BY <1>5, <1>8, <1>10
    <3>2. p + l <= BUCKET_BYTES /\ 6 <= p
      BY <1>4
    <3>3. BUCKET_BYTES \in Nat
      BY BuildAssumption
    <3> QED BY <3>1, <3>2, <3>3
  <2>2. /\ copy_into(c, f, n) \in Seq(Byte) /\ Len(copy_into(c, f, n)) = Len(c)
        /\ At(copy_into(c, f, n), f, n)
    BY <2>1, Copied, ZenonT(60)
  <2> QED BY <1>5, <2>2
<1>12. append_entry_bytes(x, es[i]) = [bytes |-> w, pos |-> p + l]
  <2>1. (i - 1) + 1 = i
    OBVIOUS
  <2>3. write_entry_count(c, i) = copy_into(c, COUNT_OFFSET, to_le_bytes(i, COUNT_BYTES))
    BY DEF write_entry_count
  <2>4. write_entry_count(c, i) = w
    BY <1>8, <1>10, <1>11, <2>3
  <2>2. write_entry_count(c, read_entry_count(b) + 1) = w
    BY <1>7, <2>1, <2>4
  <2> QED BY <1>1, <1>2, <1>3, <1>5, <2>2, Zenon DEF append_entry_bytes
<1>13. ASSUME NEW u \in Seq(Byte), NEW at \in Nat, At(b, at, u), at + Len(u) <= p,
              at + Len(u) <= 4 \/ 6 <= at
       PROVE  At(w, at, u)
  <2>1. BUCKET_BYTES \in Nat
    BY BuildAssumption
  <2>2. at + Len(u) <= Len(b) /\ p + Len(z) <= Len(b) /\ (at + Len(u) <= p \/ p + Len(z) <= at)
    <3>1. Len(u) \in Nat /\ at + Len(u) <= p
      BY <1>13
    <3>2. p + Len(z) <= Len(b) /\ p <= p + l
      BY <1>1, <1>3, <1>4, <2>1
    <3>3. Len(b) \in Nat /\ Len(z) \in Nat
      OBVIOUS
    <3> QED BY <3>1, <3>2, <3>3
  <2>3. At(c, at, u)
    <3>1. At(copy_into(b, p, z), at, u)
      BY <1>13, <2>2, CopyLeaves, Zenon
    <3> QED BY <3>1, <1>5
  <2>4. at + Len(u) <= Len(c) /\ f + Len(n) <= Len(c) /\ (at + Len(u) <= f \/ f + Len(n) <= at)
    <3>1. at + Len(u) <= f \/ f + Len(n) <= at
      BY <1>8, <1>10, <1>13
    <3>2. f + Len(n) <= Len(c)
      BY <1>4, <1>5, <1>8, <1>10, <2>1
    <3>3. Len(c) = Len(b)
      BY <1>1, <1>5
    <3> QED BY <2>2, <3>1, <3>2, <3>3
  <2>5. At(copy_into(c, f, n), at, u)
    BY <1>13, <2>3, <2>4, CopyLeaves, Zenon
  <2> QED BY <1>11, <2>5
<1>14. At(w, 0, s)
  <2>1. At(b, 0, s)
    BY <1>1, <1>9 DEF LaidOut
  <2>2. 0 + Len(s) <= p /\ 0 + Len(s) <= 4 /\ 0 \in Nat
    BY <1>4, <1>9
  <2> QED BY <1>13, <2>1, <2>2
<1>15. At(w, p, z)
  <2>1. p + Len(z) <= Len(c) /\ f + Len(n) <= Len(c) /\ f + Len(n) <= p
    <3>1. Len(z) = l /\ p + l <= BUCKET_BYTES /\ 6 <= p
      BY <1>3, <1>4
    <3>2. Len(c) = BUCKET_BYTES /\ Len(n) = 2 /\ f = 4
      BY <1>5, <1>8, <1>10
    <3>3. BUCKET_BYTES \in Nat
      BY BuildAssumption
    <3> QED BY <3>1, <3>2, <3>3
  <2>2. At(copy_into(c, f, n), p, z)
    BY <1>5, <2>1, CopyLeaves, Zenon
  <2> QED BY <1>11, <2>2
<1>16. ASSUME NEW j \in 1..i PROVE At(w, S[j - 1], entry_bytes(es[j]))
  <2>1. CASE j = i
    BY <2>1, <1>1, <1>2, <1>3, <1>15, Zenon
  <2>2. CASE j # i
    <3>1. j \in 1..(i - 1) /\ j \in 1..Len(es) /\ j \in 0..(i - 1) /\ i - 1 \in 0..Len(es) /\ j - 1 \in 0..(i - 1) /\ j - 1 \in 0..Len(es)
      BY <2>2
    <3>2. At(b, S[j - 1], entry_bytes(es[j]))
      BY <3>1, <1>1 DEF LaidOut
    <3>3. PICK q \in Nat : q = S[j - 1] /\ 6 <= q
      <4>1. FIRST_ENTRY_OFFSET <= S[j - 1]
        BY <3>1, PlacesGrow
      <4>2. S[j - 1] \in Nat
        BY <3>1 DEF Places
      <4> QED BY <4>1, <4>2 DEF FIRST_ENTRY_OFFSET, BUCKET_SALT_BYTES, COUNT_BYTES
    <3>4. PICK u \in Seq(Byte) : u = entry_bytes(es[j]) /\ Len(u) = entry_size(es[j].rec.kind)
      <4>1. es[j] \in Entry
        BY <3>1
      <4> QED BY <4>1, EntryParts
    <3>5. q + Len(u) <= p
      <4>1. S[j] = S[j - 1] + entry_size(es[j].rec.kind)
        BY <3>1 DEF Places
      <4>2. S[j] <= S[i - 1]
        BY <3>1, PlacesGrow
      <4> QED BY <1>1, <3>3, <3>4, <4>1, <4>2
    <3> QED BY <1>13, <3>2, <3>3, <3>4, <3>5
  <2> QED BY <2>1, <2>2
<1>17. PICK y : y = append_entry_bytes(x, es[i])
  OBVIOUS
<1>18. y = [bytes |-> w, pos |-> p + l] /\ y.bytes = w /\ y.pos = S[i]
  BY <1>4, <1>12, <1>17
<1> QED BY <1>8, <1>9, <1>10, <1>11, <1>14, <1>16, <1>17, <1>18, Zenon DEF LaidOut

(* Every step of laying a bucket out keeps what stands already.            *)
LEMMA LayingOut ==
  ASSUME NEW es \in Seq(Entry), NEW S, Places(es, S), S[Len(es)] <= BUCKET_BYTES,
         Len(es) <= MAX_ENTRIES_PER_BUCKET, NEW salt \in Nat,
         NEW f, LaidOut(f[0], salt, es, S, 0),
         \A i \in 1..Len(es) : LaidOut(f[i - 1], salt, es, S, i - 1) =>
           f[i] = append_entry_bytes(f[i - 1], es[i])
  PROVE  \A i \in 0..Len(es) : LaidOut(f[i], salt, es, S, i)
<1> DEFINE T == {i \in 0..Len(es) : ~ LaidOut(f[i], salt, es, S, i)}
<1>1. SUFFICES ASSUME T # {} PROVE FALSE
  OBVIOUS
<1>2. T \subseteq Nat
  OBVIOUS
<1>3. PICK i \in T : \A y \in T : i <= y
  BY <1>1, <1>2, LeastNatural
<1>4. i \in 0..Len(es) /\ ~ LaidOut(f[i], salt, es, S, i)
  BY <1>3
<1>5. i # 0
  BY <1>4, Zenon
<1>6. i \in 1..Len(es) /\ i - 1 \in 0..Len(es) /\ ~(i <= i - 1)
  BY <1>4, <1>5
<1>7. LaidOut(f[i - 1], salt, es, S, i - 1)
  BY <1>3, <1>6
<1>8. f[i] = append_entry_bytes(f[i - 1], es[i])
  BY <1>6, <1>7
<1>9. LaidOut(append_entry_bytes(f[i - 1], es[i]), salt, es, S, i)
  BY <1>6, <1>7, AppendLaysOut, Zenon
<1> QED BY <1>4, <1>8, <1>9, Zenon

(* The zeroed bucket with its salt counts no entries.                      *)
LEMMA StartLaidOut ==
  ASSUME NEW es \in Seq(Entry), NEW S, Places(es, S), NEW salt \in Nat
  PROVE  LaidOut([bytes |-> write_bucket_salt([k \in 1..BUCKET_BYTES |-> 0], salt),
                  pos |-> FIRST_ENTRY_OFFSET], salt, es, S, 0)
<1>1. BUCKET_BYTES \in Nat /\ 6 <= BUCKET_BYTES
  BY BuildAssumption, BucketCodecAssumption DEF FIRST_ENTRY_OFFSET, BUCKET_SALT_BYTES, COUNT_BYTES
<1>2. BYTE_BITS \in Nat /\ 2^BYTE_BITS \in Nat \ {0}
  BY Widths, Ranges
<1>3. PICK b \in Seq(Byte) : b = [k \in 1..BUCKET_BYTES |-> 0] /\ Len(b) = BUCKET_BYTES
  <2>1. 0 \in Byte
    BY <1>2 DEF Byte, Digit
  <2>2. [k \in 1..BUCKET_BYTES |-> 0] \in Seq(Byte)
    BY <1>1, <2>1
  <2>3. Len([k \in 1..BUCKET_BYTES |-> 0]) = BUCKET_BYTES
    BY <1>1
  <2> QED BY <2>2, <2>3
<1>4. BUCKET_SALT_BYTES = 4 /\ COUNT_BYTES = 2 /\ BUCKET_SALT_BYTES \in Nat /\ COUNT_BYTES \in Nat
  BY DEF BUCKET_SALT_BYTES, COUNT_BYTES
<1>5. PICK s \in Seq(Byte) : s = to_le_bytes(salt, BUCKET_SALT_BYTES) /\ Len(s) = 4
  <2>1. /\ to_le_bytes(salt, BUCKET_SALT_BYTES) \in Seq(Byte)
        /\ Len(to_le_bytes(salt, BUCKET_SALT_BYTES)) = BUCKET_SALT_BYTES
    BY <1>4, Header, Zenon
  <2> QED BY <1>4, <2>1
<1>6. PICK n \in Seq(Byte) : n = to_le_bytes(0, COUNT_BYTES) /\ Len(n) = 2 /\ n[1] = 0 /\ n[2] = 0
  <2>1. PICK o \in Nat : o = 0
    OBVIOUS
  <2>2. /\ digits(o, BYTE_BITS, COUNT_BYTES) \in Seq(Digit(BYTE_BITS))
        /\ Len(digits(o, BYTE_BITS, COUNT_BYTES)) = COUNT_BYTES
        /\ \A i \in 1..COUNT_BYTES :
             digits(o, BYTE_BITS, COUNT_BYTES)[i] = (o \div Span(BYTE_BITS, i - 1)) % 2^BYTE_BITS
    <3>1. BYTE_BITS \in Nat
      BY <1>2
    <3>2. COUNT_BYTES \in Nat
      BY <1>4
    <3> QED BY <3>1, <3>2, NumberDigits, Zenon
  <2>3. PICK d \in Seq(Byte) : d = digits(o, BYTE_BITS, COUNT_BYTES) /\ d = to_le_bytes(o, COUNT_BYTES)
    BY <2>2, Zenon DEF Byte, to_le_bytes
  <2>4. ASSUME NEW i \in 1..2 PROVE d[i] = 0
    <3>1. i \in 1..COUNT_BYTES
      BY <1>4
    <3>2. d[i] = (o \div Span(BYTE_BITS, i - 1)) % 2^BYTE_BITS
      BY <2>2, <2>3, <3>1, Zenon
    <3>3. i - 1 \in Nat
      OBVIOUS
    <3>4. PICK x \in Nat \ {0}, B \in Nat \ {0} : x = Span(BYTE_BITS, i - 1) /\ B = 2^BYTE_BITS
      BY <1>2, <3>3, Ranges
    <3>5. 0 \div x = 0 /\ 0 % B = 0
      <4>1. 0 \in Nat /\ 0 = x * 0 + 0 /\ 0 \in 0..(x - 1) /\ 0 = B * 0 + 0 /\ 0 \in 0..(B - 1)
        OBVIOUS
      <4> QED BY <4>1, Quotient
    <3>6. d[i] = (0 \div x) % B
      BY <2>1, <3>2, <3>4
    <3> QED BY <3>5, <3>6
  <2>5. d[1] = 0 /\ d[2] = 0
    BY <2>4
  <2>6. d = to_le_bytes(0, COUNT_BYTES)
    BY <2>1, <2>3
  <2>7. Len(d) = 2
    BY <1>4, <2>2, <2>3
  <2> QED BY <2>5, <2>6, <2>7, Zenon
<1>7. PICK z \in Nat, f \in Nat : z = 0 /\ f = 4 /\ COUNT_OFFSET = f
  BY DEF COUNT_OFFSET, BUCKET_SALT_BYTES
<1>8. z + Len(s) <= Len(b) /\ f + Len(n) <= Len(b) /\ z + Len(s) <= f
  <2>1. Len(b) \in Nat /\ 6 <= Len(b)
    BY <1>1, <1>3
  <2>2. Len(s) = 4
    BY <1>5
  <2>3. Len(n) = 2
    BY <1>6
  <2> QED BY <2>1, <2>2, <2>3, <1>7
<1>9. PICK w \in Seq(Byte) : w = copy_into(b, z, s) /\ Len(w) = BUCKET_BYTES /\ At(w, z, s) /\ At(w, f, n)
  <2>1. /\ copy_into(b, z, s) \in Seq(Byte) /\ Len(copy_into(b, z, s)) = Len(b)
        /\ At(copy_into(b, z, s), z, s)
    BY <1>8, Copied, Zenon
  <2>2. At(b, f, n)
    <3>1. ASSUME NEW k \in 1..2 PROVE b[f + k] = n[k]
      <4>1. f + k \in 1..BUCKET_BYTES
        BY <1>1, <1>7
      <4>2. b[f + k] = 0
        BY <1>3, <4>1
      <4>3. k = 1 \/ k = 2
        OBVIOUS
      <4> QED BY <1>6, <4>2, <4>3
    <3> QED BY <1>6, <3>1 DEF At
  <2>3. At(copy_into(b, z, s), f, n)
    BY <1>8, <2>2, CopyLeaves, Zenon
  <2> QED BY <1>3, <2>1, <2>3
<1>10. write_bucket_salt([k \in 1..BUCKET_BYTES |-> 0], salt) = w
  <2>1. write_bucket_salt(b, salt) = copy_into(b, 0, to_le_bytes(salt, BUCKET_SALT_BYTES))
    BY DEF write_bucket_salt
  <2>2. write_bucket_salt(b, salt) = w
    BY <1>5, <1>7, <1>9, <2>1
  <2> QED BY <1>3, <2>2
<1>11. PICK x : x = [bytes |-> w, pos |-> FIRST_ENTRY_OFFSET]
  OBVIOUS
<1>12. x = [bytes |-> x.bytes, pos |-> x.pos] /\ x.bytes = w /\ x.pos = FIRST_ENTRY_OFFSET
  BY <1>11
<1>13. LaidOut(x, salt, es, S, 0)
  <2>1. At(x.bytes, 0, to_le_bytes(salt, BUCKET_SALT_BYTES))
    BY <1>5, <1>7, <1>9, <1>12
  <2>2. At(x.bytes, COUNT_OFFSET, to_le_bytes(0, COUNT_BYTES))
    BY <1>6, <1>7, <1>9, <1>12
  <2>3. x.bytes \in Seq(Byte) /\ Len(x.bytes) = BUCKET_BYTES /\ x.pos = S[0]
    BY <1>9, <1>12 DEF Places
  <2>4. \A j \in 1..0 : At(x.bytes, S[j - 1], entry_bytes(es[j]))
    OBVIOUS
  <2> QED BY <1>12, <2>1, <2>2, <2>3, <2>4 DEF LaidOut
<1> QED BY <1>10, <1>11, <1>13, Zenon

(* The bytes of a bucket whose entries fit.                                *)
LEMMA BucketLaidOut ==
  ASSUME NEW bucket, bucket.salt \in Nat, bucket.entries \in Seq(Entry), NEW S,
         Places(bucket.entries, S), S[Len(bucket.entries)] <= BUCKET_BYTES,
         Len(bucket.entries) <= MAX_ENTRIES_PER_BUCKET
  PROVE  \E x : /\ LaidOut(x, bucket.salt, bucket.entries, S, Len(bucket.entries))
                /\ bucket_bytes(bucket) = x.bytes
<1>1. PICK salt \in Nat, es \in Seq(Entry), n \in Nat :
        salt = bucket.salt /\ es = bucket.entries /\ n = Len(es)
  OBVIOUS
<1>2. Places(es, S) /\ S[n] <= BUCKET_BYTES /\ n <= MAX_ENTRIES_PER_BUCKET
  BY <1>1
<1>3. PICK a : a = [bytes |-> write_bucket_salt([k \in 1..BUCKET_BYTES |-> 0], salt),
                    pos |-> FIRST_ENTRY_OFFSET]
  OBVIOUS
<1>4. LaidOut(a, salt, es, S, 0)
  BY <1>2, <1>3, StartLaidOut, Zenon
<1> DEFINE R == {x \in [bytes : Seq(Byte), pos : Nat] : Len(x.bytes) = BUCKET_BYTES}
<1>5. ASSUME NEW i \in 0..n, NEW x, LaidOut(x, salt, es, S, i) PROVE x \in R
  <2>1. S[i] \in Nat
    BY <1>1, <1>2 DEF Places
  <2> QED BY <1>5, <2>1 DEF LaidOut
<1>6. a \in R
  <2>1. 0 \in 0..n
    OBVIOUS
  <2> QED BY <1>4, <1>5, <2>1
<1> HIDE DEF R
<1> DEFINE after(e) == append_entry_bytes(e[2], es[e[1]])
           step == [e \in (1..n) \X R |-> IF after(e) \in R THEN after(e) ELSE a]
<1>7. step \in [(1..n) \X R -> R]
  <2>1. \A e \in (1..n) \X R : (IF after(e) \in R THEN after(e) ELSE a) \in R
    BY <1>6, Zenon
  <2> QED BY <2>1, Zenon
<1>8. ASSUME NEW i \in 1..n, NEW x \in R, append_entry_bytes(x, es[i]) \in R
      PROVE  step[<<i, x>>] = append_entry_bytes(x, es[i])
  <2>1. <<i, x>> \in (1..n) \X R
    OBVIOUS
  <2>2. <<i, x>>[1] = i /\ <<i, x>>[2] = x
    OBVIOUS
  <2>3. after(<<i, x>>) = append_entry_bytes(x, es[i])
    BY <2>2
  <2> QED BY <1>8, <2>1, <2>3, Zenon
<1> HIDE DEF step
<1>9. PICK g : Solves(g, n, R, a, step)
  BY <1>6, <1>7, FiniteRecursion, Zenon
<1>10. g \in [0..n -> R] /\ g = [i \in 0..n |-> IF i = 0 THEN a ELSE step[<<i, g[i - 1]>>]]
  BY <1>9 DEF Solves
<1>11. \A i \in 0..n : g[i] = IF i = 0 THEN a ELSE step[<<i, g[i - 1]>>]
  BY <1>10, Zenon
<1>12. \A i \in 0..n : LaidOut(g[i], salt, es, S, i)
  <2>1. LaidOut(g[0], salt, es, S, 0)
    <3>1. 0 \in 0..n
      OBVIOUS
    <3>2. g[0] = a
      BY <3>1, <1>11, Zenon
    <3> QED BY <1>4, <3>2
  <2>2. ASSUME NEW i \in 1..n, LaidOut(g[i - 1], salt, es, S, i - 1)
        PROVE  g[i] = append_entry_bytes(g[i - 1], es[i])
    <3>1. i \in 0..n /\ i # 0 /\ i - 1 \in 0..n
      OBVIOUS
    <3>2. i \in 1..Len(es) /\ S[Len(es)] <= BUCKET_BYTES /\ Len(es) <= MAX_ENTRIES_PER_BUCKET
      BY <1>1, <1>2
    <3>3. LaidOut(append_entry_bytes(g[i - 1], es[i]), salt, es, S, i)
      BY <1>2, <2>2, <3>2, AppendLaysOut, Zenon
    <3>4. append_entry_bytes(g[i - 1], es[i]) \in R /\ g[i - 1] \in R
      BY <1>5, <2>2, <3>1, <3>3, Zenon
    <3>5. g[i] = step[<<i, g[i - 1]>>]
      BY <1>11, <3>1, Zenon
    <3> QED BY <1>8, <3>4, <3>5
  <2>3. S[Len(es)] <= BUCKET_BYTES /\ Len(es) <= MAX_ENTRIES_PER_BUCKET /\ 1..Len(es) = 1..n /\ 0..Len(es) = 0..n
    BY <1>1, <1>2
  <2>4. \A i \in 1..Len(es) : LaidOut(g[i - 1], salt, es, S, i - 1) => g[i] = append_entry_bytes(g[i - 1], es[i])
    BY <2>2, <2>3
  <2>5. \A i \in 0..Len(es) : LaidOut(g[i], salt, es, S, i)
    BY <1>2, <2>1, <2>3, <2>4, LayingOut, Zenon
  <2> QED BY <2>3, <2>5
<1> DEFINE Is(h) == h = [i \in 0..n |-> IF i = 0 THEN a ELSE append_entry_bytes(h[i - 1], es[i])]
<1>13. Is(g)
  <2>1. ASSUME NEW i \in 0..n, i # 0 PROVE step[<<i, g[i - 1]>>] = append_entry_bytes(g[i - 1], es[i])
    <3>1. i \in 1..n /\ i - 1 \in 0..n /\ i \in 1..Len(es) /\ S[Len(es)] <= BUCKET_BYTES /\ Len(es) <= MAX_ENTRIES_PER_BUCKET
      BY <1>1, <1>2, <2>1
    <3>2. LaidOut(g[i - 1], salt, es, S, i - 1)
      BY <1>12, <3>1
    <3>3. LaidOut(append_entry_bytes(g[i - 1], es[i]), salt, es, S, i)
      BY <1>2, <3>1, <3>2, AppendLaysOut, Zenon
    <3>4. append_entry_bytes(g[i - 1], es[i]) \in R /\ g[i - 1] \in R
      BY <1>5, <3>1, <3>2, <3>3, Zenon
    <3> QED BY <1>8, <3>1, <3>4
  <2>2. [i \in 0..n |-> IF i = 0 THEN a ELSE step[<<i, g[i - 1]>>]]
          = [i \in 0..n |-> IF i = 0 THEN a ELSE append_entry_bytes(g[i - 1], es[i])]
    BY <2>1
  <2> QED BY <1>10, <2>2, Zenon
<1> DEFINE f == CHOOSE h : Is(h)
<1>14. bucket_bytes(bucket) = f[n].bytes
  BY <1>1, <1>3 DEF bucket_bytes
<1>15. Is(f)
  BY <1>13, Zenon
<1> HIDE DEF f
<1>16. \A i \in 0..n : f[i] = IF i = 0 THEN a ELSE append_entry_bytes(f[i - 1], es[i])
  BY <1>15, Zenon
<1>17. LaidOut(f[n], salt, es, S, n)
  <2>1. LaidOut(f[0], salt, es, S, 0)
    <3>1. 0 \in 0..n
      OBVIOUS
    <3>2. f[0] = a
      BY <3>1, <1>16, Zenon
    <3> QED BY <1>4, <3>2
  <2>2. ASSUME NEW i \in 1..n PROVE f[i] = append_entry_bytes(f[i - 1], es[i])
    <3>1. i \in 0..n /\ i # 0
      OBVIOUS
    <3> QED BY <3>1, <1>16, Zenon
  <2>3. S[Len(es)] <= BUCKET_BYTES /\ Len(es) <= MAX_ENTRIES_PER_BUCKET /\ 1..Len(es) = 1..n /\ n \in 0..Len(es)
    BY <1>1, <1>2
  <2>4. \A i \in 1..Len(es) : LaidOut(f[i - 1], salt, es, S, i - 1) => f[i] = append_entry_bytes(f[i - 1], es[i])
    BY <2>2, <2>3
  <2>5. \A i \in 0..Len(es) : LaidOut(f[i], salt, es, S, i)
    BY <1>2, <2>1, <2>3, <2>4, LayingOut, Zenon
  <2> QED BY <2>3, <2>5
<1> QED BY <1>1, <1>14, <1>17, Zenon

----------------------------------------------------------------------------
(* What the client's decoder makes of the bytes.                           *)

(* The decoder's output for records.                                       *)
AsBytes(rec) == [kind |-> rec.kind, rdata |-> Rdata(rec)]
Out(recs) == [i \in DOMAIN recs |-> AsBytes(recs[i])]

(* One record more is one output more.                                     *)
LEMMA OutAppend ==
  ASSUME NEW recs \in Seq(Records), NEW rec \in Records
  PROVE  Out(Append(recs, rec)) = Append(Out(recs), AsBytes(rec))
<1>1. PICK n \in Nat : n = Len(recs) /\ DOMAIN recs = 1..n
  OBVIOUS
<1>2. PICK a \in Seq(Records) :
        /\ a = Append(recs, rec) /\ DOMAIN a = 1..(n + 1)
        /\ a[n + 1] = rec /\ \A i \in 1..n : a[i] = recs[i]
  <2>1. /\ Append(recs, rec) \in Seq(Records) /\ Len(Append(recs, rec)) = Len(recs) + 1
        /\ Append(recs, rec)[Len(recs) + 1] = rec
        /\ \A i \in 1..Len(recs) : Append(recs, rec)[i] = recs[i]
    BY AppendProperties
  <2>2. PICK a \in Seq(Records) : a = Append(recs, rec) /\ Len(a) = n + 1
    BY <1>1, <2>1
  <2> QED BY <1>1, <2>1, <2>2
<1>3. PICK o : o = Out(recs)
  OBVIOUS
<1> DEFINE T == {AsBytes(q) : q \in Records}
<1>4. o \in Seq(T) /\ Len(o) = n /\ \A i \in 1..n : o[i] = AsBytes(recs[i])
  <2>1. o = [i \in 1..n |-> AsBytes(recs[i])]
    BY <1>1, <1>3 DEF Out
  <2>2. \A i \in 1..n : AsBytes(recs[i]) \in T
    BY <1>1
  <2> HIDE DEF T
  <2> QED BY <2>1, <2>2
<1>5. AsBytes(rec) \in T
  OBVIOUS
<1> HIDE DEF T
<1>6. PICK x \in T : x = AsBytes(rec)
  BY <1>5
<1>7. PICK p \in Seq(T) : p = Append(o, x) /\ Len(p) = n + 1 /\ p[n + 1] = x /\ \A i \in 1..n : p[i] = o[i]
  <2>1. /\ Append(o, x) \in Seq(T) /\ Len(Append(o, x)) = Len(o) + 1
        /\ Append(o, x)[Len(o) + 1] = x
        /\ \A i \in 1..Len(o) : Append(o, x)[i] = o[i]
    BY <1>4, AppendProperties
  <2> QED BY <1>4, <2>1
<1>8. a[n + 1] = rec /\ \A i \in 1..n : a[i] = recs[i]
  BY <1>2
<1>9. \A i \in 1..(n + 1) : p[i] = AsBytes(a[i])
  <2>1. ASSUME NEW i \in 1..(n + 1) PROVE p[i] = AsBytes(a[i])
    <3>1. CASE i = n + 1
      BY <3>1, <1>6, <1>7, <1>8
    <3>2. CASE i # n + 1
      <4>1. i \in 1..n
        BY <3>2
      <4> QED BY <4>1, <1>4, <1>7, <1>8
    <3> QED BY <3>1, <3>2
  <2> QED BY <2>1
<1>10. p = [i \in 1..(n + 1) |-> AsBytes(a[i])]
  <2>1. p = [i \in 1..Len(p) |-> p[i]]
    OBVIOUS
  <2> QED BY <2>1, <1>7, <1>9
<1>11. Out(a) = p
  BY <1>2, <1>10, Zenon DEF Out
<1> QED BY <1>2, <1>3, <1>6, <1>7, <1>11

(* r[i] is what the first i entries hold under d.                          *)
Matches(r, es, d) ==
  /\ r \in [0..Len(es) -> Seq(Records)] /\ r[0] = <<>>
  /\ \A i \in 1..Len(es) :
       r[i] = IF es[i].disc = d THEN Append(r[i - 1], es[i].rec) ELSE r[i - 1]

(* decode_bucket_matching collects the matches entry by entry.             *)
LEMMA BucketMatches ==
  ASSUME NEW bucket, bucket.entries \in Seq(Entry), bucket.count = Len(bucket.entries), NEW d
  PROVE  \E r : Matches(r, bucket.entries, d) /\ decode_bucket_matching(bucket, d) = r[bucket.count]
<1>1. PICK es \in Seq(Entry), n \in Nat : es = bucket.entries /\ n = Len(es) /\ n = bucket.count
  OBVIOUS
<1>2. \A i \in 1..n : es[i].rec \in Records
  <2>1. \A i \in 1..n : es[i] \in Entry
    BY <1>1
  <2> QED BY <2>1 DEF Entry
<1> DEFINE turn(e) == IF es[e[1]].disc = d THEN Append(e[2], es[e[1]].rec) ELSE e[2]
           step == [e \in (1..n) \X Seq(Records) |-> turn(e)]
<1>3. step \in [(1..n) \X Seq(Records) -> Seq(Records)]
  <2>1. ASSUME NEW e \in (1..n) \X Seq(Records) PROVE turn(e) \in Seq(Records)
    <3>1. PICK i \in 1..n, s \in Seq(Records) : e[1] = i /\ e[2] = s
      OBVIOUS
    <3>2. Append(s, es[i].rec) \in Seq(Records)
      BY <1>2
    <3> QED BY <3>1, <3>2
  <2> QED BY <2>1
<1>4. \A i \in 1..n, s \in Seq(Records) :
        step[<<i, s>>] = IF es[i].disc = d THEN Append(s, es[i].rec) ELSE s
  OBVIOUS
<1> HIDE DEF step
<1>5. PICK g : Solves(g, n, Seq(Records), <<>>, step)
  <2>1. <<>> \in Seq(Records)
    OBVIOUS
  <2> QED BY <2>1, <1>3, FiniteRecursion, Zenon
<1>6. g \in [0..n -> Seq(Records)] /\ g = [i \in 0..n |-> IF i = 0 THEN <<>> ELSE step[<<i, g[i - 1]>>]]
  BY <1>5 DEF Solves
<1> DEFINE Is(f) == f = [i \in 0..n |-> IF i = 0 THEN <<>>
                                        ELSE IF es[i].disc = d THEN Append(f[i - 1], es[i].rec)
                                             ELSE f[i - 1]]
<1>7. Is(g)
  <2>1. ASSUME NEW i \in 0..n, i # 0
        PROVE  step[<<i, g[i - 1]>>] = IF es[i].disc = d THEN Append(g[i - 1], es[i].rec) ELSE g[i - 1]
    <3>1. i \in 1..n /\ i - 1 \in 0..n
      BY <2>1
    <3>2. g[i - 1] \in Seq(Records)
      BY <1>6, <3>1
    <3> QED BY <3>1, <3>2, <1>4
  <2>2. [i \in 0..n |-> IF i = 0 THEN <<>> ELSE step[<<i, g[i - 1]>>]]
          = [i \in 0..n |-> IF i = 0 THEN <<>>
                            ELSE IF es[i].disc = d THEN Append(g[i - 1], es[i].rec) ELSE g[i - 1]]
    BY <2>1
  <2> QED BY <1>6, <2>2, Zenon
<1> DEFINE r == CHOOSE f : Is(f)
<1>8. decode_bucket_matching(bucket, d) = r[n]
  BY <1>1 DEF decode_bucket_matching
<1>9. Is(r)
  BY <1>7, Zenon
<1> HIDE DEF r
<1>10. r = [i \in 0..n |-> r[i]]
  BY <1>9, Zenon
<1>11. \A i \in 0..n : r[i] = IF i = 0 THEN <<>>
                              ELSE IF es[i].disc = d THEN Append(r[i - 1], es[i].rec) ELSE r[i - 1]
  BY <1>9, Zenon
<1> HIDE DEF Is
<1>12. r[0] = <<>> /\ \A i \in 1..n : r[i] = IF es[i].disc = d THEN Append(r[i - 1], es[i].rec) ELSE r[i - 1]
  <2>1. 0 \in 0..n /\ \A i \in 1..n : i \in 0..n /\ i # 0
    OBVIOUS
  <2> QED BY <1>11, <2>1, Zenon
<1> DEFINE T == {i \in 0..n : r[i] \notin Seq(Records)}
<1>13. T = {}
  <2>1. SUFFICES ASSUME T # {} PROVE FALSE
    OBVIOUS
  <2>2. T \subseteq Nat
    OBVIOUS
  <2>3. PICK i \in T : \A y \in T : i <= y
    BY <2>1, <2>2, LeastNatural
  <2>4. i \in 0..n /\ r[i] \notin Seq(Records)
    BY <2>3
  <2>5. i # 0
    <3>1. r[0] \in Seq(Records)
      BY <1>12
    <3> QED BY <2>4, <3>1, Zenon
  <2>6. i \in 1..n /\ i - 1 \in 0..n /\ ~(i <= i - 1)
    BY <2>4, <2>5
  <2>7. r[i - 1] \in Seq(Records)
    BY <2>3, <2>6
  <2>8. Append(r[i - 1], es[i].rec) \in Seq(Records)
    BY <2>6, <2>7, <1>2
  <2> QED BY <2>4, <2>6, <2>7, <2>8, <1>12
<1>14. r \in [0..n -> Seq(Records)]
  BY <1>10, <1>13
<1>15. Matches(r, es, d)
  BY <1>1, <1>12, <1>14 DEF Matches
<1> QED BY <1>1, <1>8, <1>15, Zenon

(* The decoder behind i entries.                                           *)
Cursor(S, r, i) == [pos |-> S[i], out |-> Out(r[i]), broken |-> FALSE]

(* A turn of the decoder's loop reads the next entry.                      *)
LEMMA DecodeTurn ==
  ASSUME NEW es \in Seq(Entry), NEW S, Places(es, S), S[Len(es)] <= BUCKET_BYTES,
         NEW b \in Seq(Byte), Len(b) = BUCKET_BYTES, NEW d, NEW r, Matches(r, es, d),
         NEW i \in 1..Len(es), At(b, S[i - 1], entry_bytes(es[i]))
  PROVE  decode_entry(b, d, Cursor(S, r, i - 1)) = Cursor(S, r, i)
<1>1. i - 1 \in 0..Len(es) /\ i \in 0..Len(es) /\ Len(es) \in 0..Len(es)
  OBVIOUS
<1>2. PICK e \in Entry : e = es[i]
  OBVIOUS
<1>3. PICK p \in Nat, l \in Nat, q \in Nat :
        p = S[i - 1] /\ l = rdata_bytes(e.rec.kind) /\ entry_size(e.rec.kind) = 2 + l /\ q = S[i] /\ q = p + (2 + l)
  <2>1. S[i - 1] \in Nat /\ S[i] \in Nat /\ S[i] = S[i - 1] + entry_size(es[i].rec.kind)
    BY <1>1 DEF Places
  <2>2. rdata_bytes(e.rec.kind) \in Nat /\ entry_size(e.rec.kind) = 2 + rdata_bytes(e.rec.kind)
    BY EntryParts
  <2> QED BY <1>2, <2>1, <2>2
<1>4. q <= BUCKET_BYTES /\ p + 2 <= BUCKET_BYTES /\ BUCKET_BYTES \in Nat
  <2>1. S[i] <= S[Len(es)]
    BY <1>1, PlacesGrow
  <2>2. S[Len(es)] \in Nat
    BY <1>1 DEF Places
  <2>3. BUCKET_BYTES \in Nat
    BY BuildAssumption
  <2>4. PICK m \in Nat, z \in Nat : m = S[Len(es)] /\ z = BUCKET_BYTES /\ m <= z
    BY <2>2, <2>3
  <2>5. q <= m /\ q = p + (2 + l)
    BY <1>3, <2>1, <2>4
  <2> QED BY <2>4, <2>5
<1>5. /\ parse_tag(slice(b, p, 2)) = [disc |-> e.disc, kind |-> e.rec.kind]
      /\ slice(b, p + 2, rdata_bytes(e.rec.kind)) = Rdata(e.rec)
  <2>1. At(b, p, entry_bytes(e)) /\ p + entry_size(e.rec.kind) <= Len(b)
    BY <1>2, <1>3, <1>4
  <2> QED BY <2>1, EntryRead, Zenon
<1>6. PICK o \in Seq(Records), o2 \in Seq(Records) : o = r[i - 1] /\ o2 = r[i]
  BY <1>1 DEF Matches
<1>7. o2 = IF e.disc = d THEN Append(o, e.rec) ELSE o
  BY <1>2, <1>6 DEF Matches
<1>8. PICK at : at = [pos |-> p, out |-> Out(o), broken |-> FALSE]
  OBVIOUS
<1>9. at = Cursor(S, r, i - 1)
  BY <1>3, <1>6, <1>8 DEF Cursor
<1>10. PICK t : t = [disc |-> e.disc, kind |-> e.rec.kind]
  OBVIOUS
<1>11. PICK rec : rec = AsBytes(e.rec) /\ rec = [kind |-> t.kind, rdata |-> slice(b, p + 2, rdata_bytes(t.kind))]
  BY <1>5, <1>10 DEF AsBytes
<1>12. decode_entry(b, d, at)
         = [at EXCEPT !.pos = q, !.out = IF t.disc = d THEN Append(@, rec) ELSE @]
  <2>1. at.broken = FALSE /\ at.pos = p /\ ~(at.pos + 2 > BUCKET_BYTES)
    BY <1>4, <1>8
  <2>2. parse_tag(slice(b, at.pos, 2)) = t /\ rec = [kind |-> t.kind, rdata |-> slice(b, at.pos + 2, rdata_bytes(t.kind))]
    BY <1>5, <1>10, <1>11, <2>1
  <2>3. at.pos + entry_size(t.kind) = q /\ ~(q > BUCKET_BYTES)
    BY <1>3, <1>4, <1>10, <2>1
  <2> QED BY <2>1, <2>2, <2>3, Zenon DEF decode_entry
<1>13. Out(o2) = IF t.disc = d THEN Append(Out(o), rec) ELSE Out(o)
  <2>1. e.rec \in Records
    BY EntryParts
  <2>2. Out(Append(o, e.rec)) = Append(Out(o), AsBytes(e.rec))
    BY <2>1, OutAppend
  <2> QED BY <1>7, <1>10, <1>11, <2>2
<1>14. decode_entry(b, d, at) = [pos |-> q, out |-> Out(o2), broken |-> FALSE]
  BY <1>8, <1>12, <1>13
<1> QED BY <1>3, <1>6, <1>9, <1>14 DEF Cursor

(* The decoder's loop ends with what the record model decodes.             *)
LEMMA BytesMatch ==
  ASSUME NEW es \in Seq(Entry), NEW S, Places(es, S), S[Len(es)] <= BUCKET_BYTES,
         NEW b \in Seq(Byte), Len(b) = BUCKET_BYTES, read_entry_count(b) = Len(es),
         \A j \in 1..Len(es) : At(b, S[j - 1], entry_bytes(es[j])),
         NEW d, NEW r, Matches(r, es, d)
  PROVE  decode_bytes_matching(b, d) = Out(r[Len(es)])
<1>1. PICK n \in Nat : n = Len(es)
  OBVIOUS
<1>2. PICK a : a = [pos |-> FIRST_ENTRY_OFFSET, out |-> <<>>, broken |-> FALSE]
  OBVIOUS
<1>3. a = Cursor(S, r, 0)
  <2>1. S[0] = FIRST_ENTRY_OFFSET /\ r[0] = <<>>
    BY DEF Places, Matches
  <2>2. Out(<<>>) = <<>>
    BY DEF Out
  <2> QED BY <1>2, <2>1, <2>2 DEF Cursor
<1>4. \A i \in 1..n : decode_entry(b, d, Cursor(S, r, i - 1)) = Cursor(S, r, i)
  <2>1. ASSUME NEW i \in 1..n PROVE decode_entry(b, d, Cursor(S, r, i - 1)) = Cursor(S, r, i)
    <3>1. i \in 1..Len(es) /\ At(b, S[i - 1], entry_bytes(es[i]))
      BY <1>1
    <3> QED BY <3>1, DecodeTurn, SMTT(60)
  <2> QED BY <2>1
<1> DEFINE Is(f) == f = [i \in 0..n |-> IF i = 0 THEN a ELSE decode_entry(b, d, f[i - 1])]
           g == [i \in 0..n |-> Cursor(S, r, i)]
<1>5. Is(g)
  <2>1. \A i \in 0..n : g[i] = Cursor(S, r, i)
    OBVIOUS
  <2> HIDE DEF g
  <2>2. ASSUME NEW i \in 0..n PROVE Cursor(S, r, i) = IF i = 0 THEN a ELSE decode_entry(b, d, g[i - 1])
    <3>1. CASE i = 0
      BY <3>1, <1>3
    <3>2. CASE i # 0
      <4>1. i \in 1..n /\ i - 1 \in 0..n
        BY <3>2
      <4> QED BY <3>2, <4>1, <2>1, <1>4
    <3> QED BY <3>1, <3>2
  <2>3. g = [i \in 0..n |-> Cursor(S, r, i)]
    BY DEF g
  <2> QED BY <2>2, <2>3
<1> DEFINE f == CHOOSE h : Is(h)
<1>6. decode_bytes_matching(b, d) = f[n].out
  BY <1>1, <1>2 DEF decode_bytes_matching
<1>7. Is(f)
  BY <1>5, Zenon
<1> HIDE DEF f, g
<1>8. \A i \in 0..n : f[i] = IF i = 0 THEN a ELSE decode_entry(b, d, f[i - 1])
  BY <1>7, Zenon
<1> DEFINE T == {i \in 0..n : ~(f[i] = Cursor(S, r, i))}
<1>9. T = {}
  <2>1. SUFFICES ASSUME T # {} PROVE FALSE
    OBVIOUS
  <2>2. T \subseteq Nat
    OBVIOUS
  <2>3. PICK i \in T : \A y \in T : i <= y
    BY <2>1, <2>2, LeastNatural
  <2>4. i \in 0..n /\ ~(f[i] = Cursor(S, r, i))
    BY <2>3
  <2>5. i # 0
    <3>1. 0 \in 0..n
      OBVIOUS
    <3>2. f[0] = Cursor(S, r, 0)
      BY <3>1, <1>3, <1>8, Zenon
    <3> QED BY <2>4, <3>2, Zenon
  <2>6. i \in 1..n /\ i - 1 \in 0..n /\ ~(i <= i - 1)
    BY <2>4, <2>5
  <2>7. f[i - 1] = Cursor(S, r, i - 1)
    BY <2>3, <2>6
  <2>8. f[i] = decode_entry(b, d, f[i - 1])
    BY <1>8, <2>4, <2>5, Zenon
  <2> QED BY <2>4, <2>6, <2>7, <2>8, <1>4
<1>10. f[n] = Cursor(S, r, n)
  BY <1>9
<1> QED BY <1>1, <1>6, <1>10 DEF Cursor

(* What a client reads in a bucket whose entries fit.                      *)
LEMMA BucketDecodes ==
  ASSUME NEW bucket \in Bucket, bucket.count = Len(bucket.entries), NEW S,
         Places(bucket.entries, S), S[bucket.count] <= BUCKET_BYTES,
         bucket.count <= MAX_ENTRIES_PER_BUCKET
  PROVE  /\ bucket_bytes(bucket) \in Seq(Byte) /\ Len(bucket_bytes(bucket)) = BUCKET_BYTES
         /\ read_bucket_salt(bucket_bytes(bucket)) = bucket.salt
         /\ \A d : decode_bytes_matching(bucket_bytes(bucket), d) = Out(decode_bucket_matching(bucket, d))
<1>1. PICK salt \in BucketSalts, es \in Seq(Entry), n \in Nat :
        salt = bucket.salt /\ es = bucket.entries /\ n = Len(es) /\ n = bucket.count
  BY DEF Bucket
<1>2. salt \in Nat /\ salt < MAX_BUCKET_SALT_ATTEMPTS /\ MAX_BUCKET_SALT_ATTEMPTS \in Nat
  BY BuildAssumption DEF BucketSalts
<1>3. Places(es, S) /\ S[Len(es)] <= BUCKET_BYTES /\ Len(es) <= MAX_ENTRIES_PER_BUCKET
  BY <1>1
<1>4. PICK x : LaidOut(x, salt, es, S, n) /\ bucket_bytes(bucket) = x.bytes
  <2>1. bucket.salt \in Nat /\ bucket.entries \in Seq(Entry)
    BY <1>1, <1>2
  <2>2. Places(bucket.entries, S) /\ S[Len(bucket.entries)] <= BUCKET_BYTES
        /\ Len(bucket.entries) <= MAX_ENTRIES_PER_BUCKET
    BY <1>1, <1>3
  <2>3. \E x : /\ LaidOut(x, bucket.salt, bucket.entries, S, Len(bucket.entries))
               /\ bucket_bytes(bucket) = x.bytes
    BY <2>1, <2>2, BucketLaidOut, Zenon
  <2> QED BY <2>3, <1>1
<1>5. PICK b \in Seq(Byte) : b = bucket_bytes(bucket) /\ Len(b) = BUCKET_BYTES
        /\ At(b, 0, to_le_bytes(salt, BUCKET_SALT_BYTES))
        /\ At(b, COUNT_OFFSET, to_le_bytes(n, COUNT_BYTES))
        /\ \A j \in 1..n : At(b, S[j - 1], entry_bytes(es[j]))
  BY <1>4, Zenon DEF LaidOut
<1>6. salt < Span(BYTE_BITS, BUCKET_SALT_BYTES) /\ n < Span(BYTE_BITS, COUNT_BYTES)
  <2>1. /\ MAX_ENTRIES_PER_BUCKET = Span(BYTE_BITS, COUNT_BYTES) - 1 /\ BYTE_BITS \in Nat
        /\ MAX_BUCKET_SALT_ATTEMPTS <= Span(BYTE_BITS, BUCKET_SALT_BYTES)
    BY Widths
  <2>2. COUNT_BYTES \in Nat /\ BUCKET_SALT_BYTES \in Nat
    BY DEF COUNT_BYTES, BUCKET_SALT_BYTES
  <2>3. Span(BYTE_BITS, COUNT_BYTES) \in Nat \ {0} /\ Span(BYTE_BITS, BUCKET_SALT_BYTES) \in Nat \ {0}
    BY <2>1, <2>2, Ranges, Zenon
  <2> QED BY <1>1, <1>2, <2>1, <2>3
<1>7. read_bucket_salt(b) = salt /\ read_entry_count(b) = n
  BY <1>2, <1>5, <1>6, HeaderRead, Zenon
<1>8. ASSUME NEW d PROVE decode_bytes_matching(b, d) = Out(decode_bucket_matching(bucket, d))
  <2>1. PICK r : Matches(r, bucket.entries, d) /\ decode_bucket_matching(bucket, d) = r[bucket.count]
    <3>1. bucket.entries \in Seq(Entry)
      BY <1>1
    <3> QED BY <3>1, BucketMatches, Zenon
  <2>2. Matches(r, es, d) /\ decode_bucket_matching(bucket, d) = r[Len(es)]
    BY <1>1, <2>1
  <2>3. read_entry_count(b) = Len(es) /\ \A j \in 1..Len(es) : At(b, S[j - 1], entry_bytes(es[j]))
    BY <1>1, <1>5, <1>7
  <2>4. decode_bytes_matching(b, d) = Out(r[Len(es)])
    BY <1>3, <1>5, <2>2, <2>3, BytesMatch, Zenon
  <2> QED BY <2>2, <2>4
<1> QED BY <1>1, <1>5, <1>7, <1>8

----------------------------------------------------------------------------
(* Every bucket's entries lie within its bytes: append_entry refuses the   *)
(* entry, and the attempt, before the cursor passes the end.               *)
Fits(b, p) ==
  /\ p \in Nat /\ p <= BUCKET_BYTES /\ b.count <= MAX_ENTRIES_PER_BUCKET
  /\ \E S : Places(b.entries, S) /\ S[b.count] = p

Room ==
  /\ \A s \in Slots : \E p : Fits(out[s], p)
  /\ phase = "entries" => Fits(out[slot_idx], pos)

RoomServed ==
  phase = "serving" /\ state.mode = "pir" =>
    /\ state.buckets \in Layout
    /\ \A s \in Slots : /\ state.buckets[s].count = Len(state.buckets[s].entries)
                        /\ \E p : Fits(state.buckets[s], p)

BytesInv == Inv /\ Room /\ RoomServed

(* A bucket without entries fits.                                          *)
LEMMA EmptyFits ==
  ASSUME NEW b, b.entries = <<>>, b.count = 0
  PROVE  Fits(b, FIRST_ENTRY_OFFSET)
<1> DEFINE S == [i \in 0..0 |-> FIRST_ENTRY_OFFSET]
<1>1. FIRST_ENTRY_OFFSET \in Nat /\ FIRST_ENTRY_OFFSET <= BUCKET_BYTES /\ 0 <= MAX_ENTRIES_PER_BUCKET
  BY BuildAssumption, BucketCodecAssumption DEF FIRST_ENTRY_OFFSET, BUCKET_SALT_BYTES, COUNT_BYTES
<1>2. Len(b.entries) = 0
  OBVIOUS
<1>3. S[0] = FIRST_ENTRY_OFFSET /\ S \in [0..0 -> Nat]
  BY <1>1
<1> HIDE DEF S
<1>4. Places(b.entries, S)
  BY <1>2, <1>3 DEF Places
<1> QED BY <1>1, <1>3, <1>4 DEF Fits

(* An entry that append_entry accepts keeps the bucket fitting.            *)
LEMMA AppendFits ==
  ASSUME NEW b \in Bucket, b.count = Len(b.entries), NEW d \in Discs, NEW r \in Records,
         NEW p, Fits(b, p), append_fits(b, p, r)
  PROVE  Fits(append_entry(b, d, r), p + entry_size(r.kind))
<1>1. PICK b2 : b2 = append_entry(b, d, r)
  OBVIOUS
<1>2. Grown(b, b2, d, r)
  BY <1>1, AppendKeepsEntries
<1>3. PICK es \in Seq(Entry), n \in Nat : es = b.entries /\ n = b.count /\ n = Len(es)
  BY DEF Bucket
<1>4. PICK es2 \in Seq(Entry) :
        /\ es2 = b2.entries /\ Len(es2) = n + 1 /\ b2.count = n + 1
        /\ es2[n + 1] = [disc |-> d, rec |-> r] /\ \A i \in 1..n : es2[i] = es[i]
  BY <1>2, <1>3 DEF Grown, Bucket
<1>5. PICK S : Places(es, S) /\ S[n] = p
  BY <1>3 DEF Fits
<1>6. PICK q \in Nat : q = p + entry_size(r.kind)
  <2>1. entry_size(r.kind) \in Nat
    BY DEF entry_size, rdata_bytes
  <2> QED BY <2>1 DEF Fits
<1> DEFINE T == [i \in 0..(n + 1) |-> IF i = n + 1 THEN q ELSE S[i]]
<1>7. T \in [0..(n + 1) -> Nat]
  <2>1. \A i \in 0..(n + 1) : i # n + 1 => S[i] \in Nat
    BY <1>3, <1>5 DEF Places
  <2> QED BY <2>1
<1>8. T[n + 1] = q /\ \A i \in 0..n : T[i] = S[i]
  OBVIOUS
<1> HIDE DEF T
<1>9. T[0] = FIRST_ENTRY_OFFSET
  BY <1>5, <1>8 DEF Places
<1>10. ASSUME NEW i \in 1..(n + 1) PROVE T[i] = T[i - 1] + entry_size(es2[i].rec.kind)
  <2>1. CASE i = n + 1
    <3>1. es2[i].rec = r /\ T[i] = q /\ T[i - 1] = p
      BY <2>1, <1>4, <1>5, <1>8
    <3> QED BY <3>1, <1>6
  <2>2. CASE i # n + 1
    <3>1. i \in 1..n /\ i \in 0..n /\ i - 1 \in 0..n
      BY <2>2
    <3>2. S[i] = S[i - 1] + entry_size(es[i].rec.kind)
      BY <3>1, <1>3, <1>5 DEF Places
    <3> QED BY <3>1, <3>2, <1>4, <1>8
  <2> QED BY <2>1, <2>2
<1>11. Places(es2, T)
  BY <1>4, <1>7, <1>9, <1>10 DEF Places
<1>12. q <= BUCKET_BYTES /\ n + 1 <= MAX_ENTRIES_PER_BUCKET
  <2>1. n < MAX_ENTRIES_PER_BUCKET /\ q <= BUCKET_BYTES
    BY <1>3, <1>6 DEF append_fits
  <2> QED BY <2>1, BuildAssumption
<1>13. Fits(b2, q)
  BY <1>4, <1>8, <1>11, <1>12 DEF Fits
<1> QED BY <1>1, <1>6, <1>13

(* Room when one bucket changes.                                           *)
LEMMA RoomUpdated ==
  ASSUME out \in Layout, \A s \in Slots : \E p : Fits(out[s], p),
         NEW s0 \in Slots, NEW b \in Bucket, out' = [out EXCEPT ![s0] = b],
         NEW p0, Fits(b, p0)
  PROVE  out'[s0] = b /\ \A s \in Slots : \E p : Fits(out'[s], p)
<1>1. out'[s0] = b /\ \A s \in Slots : s # s0 => out'[s] = out[s]
  BY DEF Layout
<1>2. ASSUME NEW s \in Slots PROVE \E p : Fits(out'[s], p)
  <2>1. CASE s = s0
    BY <2>1, <1>1
  <2>2. CASE s # s0
    BY <2>2, <1>1
  <2> QED BY <2>1, <2>2
<1> QED BY <1>1, <1>2

(* No step of the build passes the end of a bucket.                        *)
LEMMA RoomStep == ASSUME BytesInv, Inv', [Next]_vars PROVE Room'
<1>0. TypeOK /\ out \in Layout /\ Room
  BY DEF BytesInv, Inv, TypeOK
<1>1. ASSUME UNCHANGED out, phase' # "entries" PROVE Room'
  BY <1>0, <1>1 DEF Room
<1>2. ASSUME UNCHANGED <<out, slot_idx, pos>>, phase' = phase PROVE Room'
  BY <1>0, <1>2 DEF Room
<1>3. CASE begin_attempt
  <2>1. \A s \in Slots : out'[s] = ZeroBucket
    BY <1>3 DEF begin_attempt
  <2>2. Fits(ZeroBucket, FIRST_ENTRY_OFFSET)
    <3>1. ZeroBucket.entries = <<>> /\ ZeroBucket.count = 0
      BY DEF ZeroBucket
    <3> QED BY <3>1, EmptyFits
  <2>3. phase' # "entries"
    BY <1>3 DEF begin_attempt
  <2> QED BY <2>1, <2>2, <2>3 DEF Room
<1>4. CASE find_bucket_salt
  <2>1. slot_idx \in Slots
    BY <1>0, <1>4, BuildAssumption DEF find_bucket_salt, Slots, TypeOK
  <2>2. PICK salt \in BucketSalts : out' = [out EXCEPT ![slot_idx].salt = salt]
    BY <1>4 DEF find_bucket_salt, usable_salts
  <2>3. out[slot_idx] = ZeroBucket
    BY <2>1, <1>4 DEF BytesInv, Inv, LaterZero, find_bucket_salt
  <2>4. PICK b : b = [out[slot_idx] EXCEPT !.salt = salt]
    OBVIOUS
  <2>5. b.entries = <<>> /\ b.count = 0 /\ b \in Bucket
    <3>1. b = [salt |-> salt, count |-> 0, entries |-> <<>>]
      BY <2>3, <2>4 DEF ZeroBucket
    <3>2. <<>> \in Seq(Entry) /\ 0 \in Nat
      OBVIOUS
    <3>3. b \in Bucket
      BY <3>1, <3>2 DEF Bucket
    <3> QED BY <3>1, <3>3
  <2>6. out' = [out EXCEPT ![slot_idx] = b]
    BY <2>2, <2>4
  <2>7. Fits(b, FIRST_ENTRY_OFFSET)
    BY <2>5, EmptyFits
  <2>8. out'[slot_idx] = b /\ \A s \in Slots : \E p : Fits(out'[s], p)
    BY <1>0, <2>1, <2>5, <2>6, <2>7, RoomUpdated DEF Room
  <2>9. slot_idx' = slot_idx /\ pos' = FIRST_ENTRY_OFFSET
    BY <1>4 DEF find_bucket_salt
  <2> QED BY <2>7, <2>8, <2>9 DEF Room
<1>5. CASE write_record
  <2>1. slot_idx \in Slots /\ phase = "entries" /\ cur \in Zone /\ Fits(out[slot_idx], pos)
    BY <1>0, <1>5, NoneNotInZone DEF write_record, TypeOK, Room
  <2>2. PICK b \in Bucket : b = out[slot_idx] /\ b.count = Len(b.entries)
    BY <1>0, <2>1 DEF TypeOK, Layout
  <2>3. PICK r : r = RecordsOf[cur][done + 1] /\ r \in Records
    <3>1. RecordsOf[cur] \in Seq(Records) /\ done \in Nat /\ done < Len(RecordsOf[cur])
      BY <1>0, <1>5, <2>1, RecordsTyped DEF write_record, TypeOK
    <3>2. done + 1 \in 1..Len(RecordsOf[cur])
      BY <3>1
    <3> QED BY <3>1, <3>2
  <2>4. PICK d \in Discs : d = discOf[attempt][b.salt][cur]
    <3>1. b.salt \in BucketSalts /\ attempt \in Attempts /\ cur \in Names
      BY <1>0, <2>1 DEF Bucket, TypeOK, Names
    <3> QED BY <1>0, <3>1 DEF TypeOK
  <2>5. /\ append_fits(b, pos, r) /\ pos' = pos + entry_size(r.kind) /\ slot_idx' = slot_idx
        /\ out' = [out EXCEPT ![slot_idx] = append_entry(b, d, r)]
    BY <1>5, <2>2, <2>3, <2>4 DEF write_record
  <2>6. PICK b2 \in Bucket : b2 = append_entry(b, d, r)
    BY <2>2, <2>3, <2>4, AppendKeepsEntries DEF Grown
  <2>7. Fits(b2, pos')
    BY <2>1, <2>2, <2>3, <2>5, <2>6, AppendFits
  <2>8. out'[slot_idx] = b2 /\ \A s \in Slots : \E p : Fits(out'[s], p)
    <3>1. out' = [out EXCEPT ![slot_idx] = b2] /\ \A s \in Slots : \E p : Fits(out[s], p)
      BY <1>0, <2>5, <2>6 DEF Room
    <3> QED BY <1>0, <2>1, <2>7, <3>1, RoomUpdated
  <2> QED BY <2>5, <2>7, <2>8 DEF Room
<1>6. ASSUME NEW a \in BOOLEAN, NEW o \in BOOLEAN, NEW d \in BOOLEAN, build_state(a, o, d)
      PROVE  Room'
  <2>1. UNCHANGED out /\ phase' # "entries"
    BY <1>6 DEF build_state
  <2> QED BY <2>1, <1>1
<1>7. CASE no_bucket_salt \/ bucket_overflow
  <2>1. UNCHANGED out /\ phase' # "entries"
    BY <1>7 DEF no_bucket_salt, bucket_overflow, attempt_failed
  <2> QED BY <2>1, <1>1
<1>8. CASE skip_empty_bucket \/ bucket_written \/ publish
  <2>1. UNCHANGED out /\ phase' # "entries"
    BY <1>8 DEF skip_empty_bucket, bucket_written, publish
  <2> QED BY <2>1, <1>1
<1>9. ASSUME NEW n \in Zone, next_name(n) PROVE Room'
  <2>1. UNCHANGED <<out, slot_idx, pos>> /\ phase' = phase
    BY <1>9 DEF next_name
  <2> QED BY <2>1, <1>2
<1>10. CASE name_written
  <2>1. UNCHANGED <<out, slot_idx, pos>> /\ phase' = phase
    BY <1>10 DEF name_written
  <2> QED BY <2>1, <1>2
<1>11. CASE UNCHANGED vars
  <2>1. UNCHANGED <<out, slot_idx, pos>> /\ phase' = phase
    BY <1>11 DEF vars, cursor
  <2> QED BY <2>1, <1>2
<1> QED BY <1>3, <1>4, <1>5, <1>6, <1>7, <1>8, <1>9, <1>10, <1>11 DEF Next

(* The invariant of the bytes is inductive.                                *)
LEMMA BytesInvStep == BytesInv /\ [Next]_vars => BytesInv'
<1> SUFFICES ASSUME BytesInv, [Next]_vars PROVE BytesInv'
  OBVIOUS
<1>1. Inv'
  BY InvStep DEF BytesInv
<1>2. Room'
  BY <1>1, RoomStep
<1>3. RoomServed'
  <2>1. CASE publish
    <3>1. state'.buckets = out
      BY <2>1 DEF publish
    <3>2. out \in Layout /\ (\A s \in Slots : out[s].count = Len(out[s].entries))
          /\ \A s \in Slots : \E p : Fits(out[s], p)
      BY DEF BytesInv, Inv, TypeOK, Room
    <3> QED BY <3>1, <3>2 DEF RoomServed
  <2>2. ASSUME NEW a \in BOOLEAN, NEW o \in BOOLEAN, NEW d \in BOOLEAN, build_state(a, o, d)
        PROVE  RoomServed'
    <3>1. phase' # "serving" \/ state'.mode = "dump"
      BY <2>2 DEF build_state
    <3> QED BY <3>1 DEF RoomServed
  <2>3. CASE UNCHANGED vars
    <3>1. phase' = phase /\ state' = state
      BY <2>3 DEF vars
    <3>2. RoomServed
      BY DEF BytesInv
    <3> QED BY <3>1, <3>2 DEF RoomServed
  <2>4. ASSUME phase' # "serving" PROVE RoomServed'
    BY <2>4 DEF RoomServed
  <2>5. CASE begin_attempt \/ skip_empty_bucket \/ find_bucket_salt \/ no_bucket_salt
             \/ bucket_overflow
    <3>1. phase' # "serving"
      BY <2>5 DEF begin_attempt, skip_empty_bucket, find_bucket_salt, no_bucket_salt,
                  bucket_overflow, attempt_failed
    <3> QED BY <3>1, <2>4
  <2>6. CASE (\E n \in Zone : next_name(n)) \/ write_record \/ name_written \/ bucket_written
    <3>1. phase' # "serving"
      BY <2>6 DEF next_name, write_record, name_written, bucket_written
    <3> QED BY <3>1, <2>4
  <2> QED BY <2>1, <2>2, <2>3, <2>5, <2>6 DEF Next
<1> QED BY <1>1, <1>2, <1>3 DEF BytesInv

(* It holds in the beginning.                                              *)
LEMMA InitBytes == Init => BytesInv
<1> SUFFICES ASSUME Init PROVE BytesInv
  OBVIOUS
<1>1. Inv
  BY InitInv
<1>2. Room
  <2>1. \A s \in Slots : out[s] = ZeroBucket
    BY DEF Init
  <2>2. ZeroBucket.entries = <<>> /\ ZeroBucket.count = 0
    BY DEF ZeroBucket
  <2>3. Fits(ZeroBucket, FIRST_ENTRY_OFFSET)
    BY <2>2, EmptyFits
  <2>4. phase # "entries"
    BY DEF Init
  <2> QED BY <2>1, <2>3, <2>4 DEF Room
<1>3. RoomServed
  BY DEF Init, RoomServed
<1> QED BY <1>1, <1>2, <1>3 DEF BytesInv

(* Buckets that fit decode.                                                *)
LEMMA RoomDecodes == BytesInv => ServedBytesDecode
<1> SUFFICES ASSUME BytesInv, phase = "serving", state.mode = "pir" PROVE ServedBytesDecode
  BY DEF ServedBytesDecode
<1>1. ASSUME NEW s \in Slots
      PROVE  LET bucket == state.buckets[s]
                 coeffs == pack_bytes_into_coeffs(bucket_bytes(bucket))
                 bytes == unpack_coeffs_into_bytes(coeffs)
             IN  /\ \A i \in 1..N : coeffs[i] \in 0..(2^COEFF_BITS - 1)
                 /\ read_bucket_salt(bytes) = bucket.salt
                 /\ \A d \in Discs :
                      LET recs == decode_bucket_matching(bucket, d)
                      IN  decode_bytes_matching(bytes, d) =
                            [i \in DOMAIN recs |-> [kind |-> recs[i].kind, rdata |-> Rdata(recs[i])]]
  <2>1. PICK bucket \in Bucket : /\ bucket = state.buckets[s] /\ bucket.count = Len(bucket.entries)
                                 /\ \E p : Fits(bucket, p)
    <3>1. RoomServed
      BY DEF BytesInv
    <3>2. state.buckets \in Layout /\ state.buckets[s].count = Len(state.buckets[s].entries)
          /\ \E p : Fits(state.buckets[s], p)
      BY <3>1 DEF RoomServed
    <3>3. state.buckets[s] \in Bucket
      BY <3>2 DEF Layout
    <3> QED BY <3>2, <3>3
  <2>2. PICK S : /\ Places(bucket.entries, S) /\ S[bucket.count] <= BUCKET_BYTES
                 /\ bucket.count <= MAX_ENTRIES_PER_BUCKET
    BY <2>1 DEF Fits
  <2>3. /\ bucket_bytes(bucket) \in Seq(Byte) /\ Len(bucket_bytes(bucket)) = BUCKET_BYTES
        /\ read_bucket_salt(bucket_bytes(bucket)) = bucket.salt
        /\ \A d : decode_bytes_matching(bucket_bytes(bucket), d) = Out(decode_bucket_matching(bucket, d))
    BY <2>1, <2>2, BucketDecodes, Zenon
  <2>4. PICK b \in Seq(Byte) : b = bucket_bytes(bucket) /\ Len(b) = BUCKET_BYTES
    BY <2>3, Zenon
  <2>5. PICK c : c = pack_bytes_into_coeffs(b)
    OBVIOUS
  <2>6. c \in Seq(Digit(COEFF_BITS)) /\ Len(c) = N
    BY <2>4, <2>5, Packed
  <2>7. unpack_coeffs_into_bytes(c) = b
    BY <2>4, <2>5, PackRoundTrip
  <2>8. \A i \in 1..N : c[i] \in 0..(2^COEFF_BITS - 1)
    <3>1. \A i \in 1..N : c[i] \in Digit(COEFF_BITS)
      BY <2>6
    <3> QED BY <3>1 DEF Digit
  <2>9. read_bucket_salt(b) = bucket.salt
    BY <2>3, <2>4, Zenon
  <2>10. ASSUME NEW d \in Discs
         PROVE  LET recs == decode_bucket_matching(bucket, d)
                IN  decode_bytes_matching(b, d) =
                      [i \in DOMAIN recs |-> [kind |-> recs[i].kind, rdata |-> Rdata(recs[i])]]
    <3>1. decode_bytes_matching(b, d) = Out(decode_bucket_matching(bucket, d))
      BY <2>3, <2>4, Zenon
    <3> QED BY <3>1, Zenon DEF Out, AsBytes
  <2>11. c = pack_bytes_into_coeffs(bucket_bytes(bucket))
    BY <2>4, <2>5
  <2> QED BY <2>1, <2>7, <2>8, <2>9, <2>10, <2>11, Zenon
<1> QED BY <1>1, Zenon DEF ServedBytesDecode

(* What a client decodes from the coefficients of a published bucket is    *)
(* what append_entry wrote there: its salt, and under every discriminator  *)
(* the records in their order, byte for byte, for every zone, every width  *)
(* of bytes, tags and coefficients that fit each other, and every size of  *)
(* a bucket.                                                               *)
THEOREM BytesAreServed == Spec => []ServedBytesDecode
<1> QED BY InitBytes, BytesInvStep, RoomDecodes, PTL DEF Spec

============================================================================
