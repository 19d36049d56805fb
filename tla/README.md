# TLA+ models of dnspir

dnspir is DNS over private information retrieval: a client resolves a name by
walking from server to server, and asks each server for a bucket of records
without revealing which one. This directory holds TLA+ models of that system,
TLC configurations that check them on small instances, and TLAPS proofs.
`PROJECT.json` lists every run, property, mutant, theorem and hazard, and maps
every definition to the lines it models.

To check a run: `tlc -workers 2 -config MC_Session.cfg MC_Session`. To check the
proofs: `for m in *Proofs.tla; do tlapm $m; done`.

## 1. Inventory

| component | source | state | operations | talks to |
|---|---|---|---|---|
| database shape | `pir_wrapper.rs`, `base_pir.rs`, `bucket.rs` | none, pure functions of `num_entries` | `get_database_shape`, `num_databases`, `slot`, `required_memory_general` | computed on both sides; only `num_entries` travels |
| server sizing, preprocessing | `server.rs` | candidate count, filled shards | `pick_num_entries`, `preprocess` | database shape, base-level PIR |
| server build | `server.rs`, `bucket.rs` | names per bucket, buckets, salts, attempt | `build_state`, `try_salts`, `build_buckets`, `find_bucket_salt`, `append_entry` | zone; produces the immutable `ServerState` of all workers |
| double PIR | `double_pir.rs`, `pir_wrapper.rs` | thread-local secondary buffer | `prepare_query`, `process_queries`, `perform_batched_double_pir`, `process_reply` | one server worker, one client query |
| base-level PIR engine | `base_pir.rs` | preprocessed entries, a-parts and digits of every intermediate ciphertext | `create`, `set_db`, `perform_pir_split`, `main_pir_loop` | BFV, SIMD arithmetic |
| BFV encryption | `bfv.rs` | none, keys belong to a query | `gen_sk`, `enc_sym`, `dec`, `gen_gk`, `mod_switch` | base-level PIR on both sides |
| SIMD modular arithmetic | `simd_zn.rs`, `avx.rs` | none, lazily reduced residues | ring operations on eight lanes | inner loops of the engine |
| bucket format | `bucket.rs` | the bytes of a bucket | `new_bucket`, `append_entry`, packing into coefficients, `decode_bucket_matching` | server build, client |
| wire protocol | `protocol.rs`, `pir_wrapper.rs` | none | `write_frame`, `read_frame`, `encode_info`, `decode_info`, `condense`, `uncondense` | sessions, transport, double PIR |
| server sessions | `server.rs`, `protocol.rs` | one worker thread per connection | `run`, `handle` | clients, over TCP |
| client transport | `client.rs`, `protocol.rs` | INFO of the connection, socket | `HybridFactory::connect`, `TcpDnsServer::query` | server sessions |
| iterative resolver | `client.rs` | candidate stack, hop count, walk | `run_inner`, `resolve_iteratively`, `one_hop` | client transport, zone cache |
| zone file and dump | `zone.rs`, `client.rs` | records, NS pool, zone suffix | `Zone::parse`, `serialize`, `load_dump`, `LocalZoneServer::query` | server build, dump over the wire |
| zone cache file | `client.rs` | one file shared by all clients of a user | `save_cache`, `load_cache` | resolver |
| permutation, aligned allocator | `permute.rs`, `align.rs` | marks of visited positions, during a call | `permute`, `permute_inv`, `allocate` | the engine |
| CLI, benchmarks | `main.rs` | none that outlives a call | I/O | |

What is hard to test in it:

* Client and server derive one layout independently from one number, with rules
  that flip at N^2/16, N^2/2 and N^2.
* The build hashes names twice, retries on two levels, and can fail in the middle
  of a bucket; what is served must match the salts that are advertised.
* A query is answered from a buffer that still holds an earlier query's data.
* Connections carry several requests; time-outs race late replies; a server may
  be restarted with another build at any moment.
* The resolver follows what servers it does not control tell it.
* One cache file is read and rewritten in place by all client processes of a user,
  any of which may die in the middle.
* The two halves of every ciphertext inside the server are computed at different
  times: one when the database is set, the other per query, from digits stored by
  the first.
* Residues are reduced as late as a machine word allows, and each operation relies
  on the bound the one before leaves.
* Queries and replies are bit streams without markers, frames are lengths and bytes:
  a section of the wrong length, or a read cut half-way, shifts all that follows.

The properties that make each part correct are listed with the runs in section 3,
the places where they could go wrong under `hazards` in `PROJECT.json`.

## 2. Modules

`DatabaseShape` holds the pure derivation: index groups as records `[l |-> order]`,
the assertions met on the way as separate predicates (a false one is a panic of
the program), and `slot`, where the name's hash is a number below `num_entries`.
`abs_log2_ceil` is the arithmetic library's and defined by what it returns.

`FleetSizing` extends it with server start-up: one action per candidate of
`pick_num_entries` and one per shard of `preprocess`. The predicted maximum load
is floating-point, so its verdict is an arbitrary Boolean input of the action.

`DoublePir` extends `DatabaseShape` with one batch of queries from slot to decoded
entry. A ciphertext is what it selects: seed set, exponent, conjugated or not. A
base-level database returns the row the exponent addresses, or `Garbage` if the
ciphertext does not address a row of its index group or the conjugate that the
group requires is missing or wrong. The variable `memory` is
`SECONDARY_DB_MEMORY`: it outlives a batch, is only grown, and `next_batch` may
bring a batch of another shape to the same thread. Assertions of both sides end
in the phases `client_panic` and `server_panic`.

`ServerBuild` is `build_state`: dump-only or PIR, then the attempts of `try_salts`,
and inside an attempt the buckets, the names of a bucket and the records of a name
one by one, because each `append_entry` can fail. Hashes are arbitrary functions
chosen in `Init`, and a property that holds for all of them holds for `mix64`.
The salt of attempt `a` is written `a`: `salt_for_attempt` multiplies by an odd
constant modulo 2^64, so distinct attempts have distinct salts. The names of a
bucket are written in arbitrary order, as a `HashMap` yields them.

`ZoneLookup` is what a server promises: it refuses to start, or serves for every
name exactly the zone's records from one moment on. `ServerBuild` implements it
under the mapping `Abs` (starting until the state is published; `answers` is what
`query`, the client's own computation, returns for each name).

`Resolver` is one run of the client. A name is its sequence of labels. Servers are
the environment: any address may refuse, any zone may be announced and any reply
given. A hop in the cached global zone goes through the same `one_hop` actions with
`cached` set; `LocalZoneServer::query` cannot fail, so `query_error` requires
`~cached`.

`Session` is the TCP layer: `req` and `rep` are the frames of each connection,
`worker` the server thread of each connection, `build` the running server process
and everything a client must agree on with it. `crash` kills the process at any
moment and `restart` brings up another build; `io_timeout` may strike at any wait.
A query's number stands for the secret key under which only its own reply decrypts.
A zone served as a dump above the client's cap is the mode `big_dump`.

`PirService` is what the transport promises a client: a session is told of one
build, an answer in it is that build's answer to the last question, and every
question is answered or fails. `Session` implements it (`ImplementsService`) with
the mapping `Service`: the frames under way disappear, and a client waits while it
is blocked in a read.

`FrameChannel` and `Protocol` are the layer below. `FrameChannel` is a queue of whole
frames that may fail; `Protocol` is `write_frame` and `read_frame` on the bytes of
the server's direction of one connection: the system writes and delivers pieces of
any size, the connection may break at any byte, and the read time-out may strike
with half a frame consumed. The payloads are INFO replies (`encode_info`,
`decode_info`), whole, cut short or carried on. Its specification is `StreamSpec`, so
that one proof module can extend it together with `Session`, which uses frames as
`FrameChannel` has them.

`ZoneCache` is the cache file under concurrent client processes. Each system call
of `std::fs::write` (open and truncate, writes at the process's own offset) and of
`std::fs::read` is a step, so a reader may see any mixture. A dump is the sequence of
pieces that single writes store; `load_dump` accepts what starts with a whole dump,
because the gzip checksum rejects the rest and the decoder stops behind the first
member. The client saves what it downloaded before it parses it, so a bad reply
reaches the file. `Resolver` starts from an arbitrary cache and so covers every
content `ZoneCache` can leave.

`Bfv` holds the encryption primitives over Z_n[X]/(X^N + 1) with exact integers;
ring arithmetic is the library's and given by what it computes. Seeds expand by an
arbitrary function, errors are a set of outcomes, and `gen_sk` is the set of keys its
draws can give. `WireStream` holds `condense`, `uncondense` and the sections of a
stream, as operators.

`PirTransform` extends `Bfv` with the operators of `base_pir.rs`: NTTs, Galois
automorphisms, the transformation of the entries and the gadget decomposition.
`BasePir` is one database with them: `set_db` transforms the entries level by
level and evaluates the a-parts, storing the digits of each; a query, rounded to the
wire's widths and packed into one byte stream by `WireStream`, is unpacked and the
b-parts are evaluated with these digits; the reply travels the same way and the
client decrypts. It is real arithmetic on a small ring, so a wrong sign, rotation,
stale digit or shifted byte shows as a wrong entry. `DoublePir` is the layer above,
with ciphertexts as what they select: `BasePir` shows that they select it.

`PirLoop` is `main_pir_loop` again in machine words: the two swapped buffers, the
unrolled body that loads ahead, the permuted stores, and the reduction of the sums
after as many iterations as `perform_pir_split` computes. The two moduli are
independent and chosen in `Init`, with the rest of the call (`Configurations`).
`ValuesFit` is what the loop takes for granted: residues within their bound,
generators that are units, loops of even length (`LoopLengthsEven` of the fleet), and
moduli for which the interval of reductions leaves room for the reduced value a sum
starts with. What the reply should be is stated without buffers, blocks and lookup
tables: iteration t adds `Term` to each point, and every later iteration moves all
points by the automorphism, so a point of the reply collects the terms of its
`Origin` before each number of them.

`Avx` is one lane of each vector operation in words of two halves (lanes never
meet). `SpecialZn` extends it with the rings modulo p = 2^K - alpha: registers hold
lazily reduced elements, every ring operation is an action on any of them, and a ghost
keeps the residue each register should stand for.

`Permute` is the two loops of `permute.rs`, one turn per step, on a vector of
distinct values.

`EngineKernels` instantiates `PirLoop`, `SpecialZn` and `Permute` side by side, with
the assumptions on their parameters, and `MC_Engine` adds `BasePir`. They share no
state: each behaviour of the model runs one of the four machines.

`BucketCodec` extends `ServerBuild` with the bytes of what it publishes: header, tags
and entries as `append_entry` writes them, their packing into coefficients, and
`decode_bucket_matching` back from these to records.

`ZoneFile` is the zone as text: `parse_line` is one turn of `Zone::parse`, and the
dump is written, then parsed again by the client with the same operator. Splitting
a line into fields is abstracted to the record of its fields, gzip is lossless and
left out, and `canonical` folds case through `Lower`. `dummy_ip` is a hash of the
host, and in the checked instance all hosts collide. `Data` and `Answers` say what a
sequence of lines means without the parser's bookkeeping; the properties compare with
them. Its specification is `ZoneSpec`.

Branches that are not modelled because no state of this program reaches them: the
"no candidates left to try" return behind the loop of `resolve_iteratively` (a
delegation is never empty), its own checks for an empty name or list (`run_inner`
returns before), unknown or empty frames in `handle` (this client sends none), and
an unknown kind in `decode_bucket_matching` (all four values of its two bits are
known).

## 3. Runs

| run | instance | shows |
|---|---|---|
| `fleet` | N = 2048, SIMD 8, the code's parameters; hash values at both ends of every half shard | every candidate is read back by `get_database_shape` as full shards and candidates grow (`CandidateFillsItsShards`), loop lengths are even (`LoopLengthsEven`), start-up completes without a failed assertion (`StartUpCompletes`), and in every chosen fleet each hash value has an address of its own inside an existing shard and secondary row (`EverySlotAddressable`) |
| `double_pir` | N = 16, SIMD 4, 13 entry counts around every boundary, two batches per thread | every client decodes what it asked for (`RepliesAreRequested`), no side panics (`NoPanic`), nothing is uploaded in vain (`QueryFullyRead`) |
| `double_pir_second_slot` | the same, second batch slot only | violation, see below |
| `server_build` | 3 names of 12, 42 and 42 bytes, 2 buckets of 60 bytes, 2 discriminators, 2 attempts, 2 bucket salts, all hash functions | each name gets its own records (`PresentNamesOwnRecords`), also from the bytes of its bucket (`ServedBytesDecode`), count headers match (`TypeOK`), a salt is given up only if it cannot work (`NoSaltSkipped`), the build ends (`BuildTerminates`) and implements `ZoneLookup` (`ServesTheZone`) |
| `absent_names` | the same with one name outside the zone | violation, see below |
| `resolver` | 3 addresses, 2 targets and the empty name, 4 zones, 3 hops | verdicts are justified (`NotFoundIsExhaustive`, `FoundForTarget`), the walk stays in the zone (`WalkStaysInZone`), servers are tried in order (`TriedInListedOrder`), the bootstrap server is a last resort (`BootstrapIsLastResort`), every run ends (`ResolutionEnds`) |
| `resolver_apex` | the same | violation, see below |
| `session` | 2 clients with 2 and 1 connections, 2 server builds, 2 queries per connection | no late or foreign reply is taken and what is advertised is served (`ReplyMatchesRequest`), workers exit (`WorkersExit`), and the exchange of frames implements `PirService`: every wait ends, without the time-out (`ImplementsService`) |
| `zone_cache` | 2 clients, 2 versions, 2 faults | once all saves since the last quiet moment were undisturbed, the file is the dump whose save ended last (`QuietFileIsLastSave`); whatever was left in the file, it becomes a usable zone again if clients keep running (`CacheHeals`) |
| `protocol` | bytes of 2 bits, numbers of 2 and 3 bytes, cap of 12 bytes, 2 frames | the reader gets whole frames in order or gives up, and never takes payload bytes for a length (`ImplementsChannel`); a cut INFO reply is an error and never another INFO, a whole one is accepted (`InfoOrError`) |
| `engine` | database: N = 8, t = 5, q = 353 * 113, gadget base 2^8, wire widths 15, 13, 12 and 8, both seed sets, every index, two contents in a row | the client decrypts the entry it asked for (`ReplyIsEntry`), the stored entries are the transform of the data (`EntriesAreFourierTransform`), the stored a-parts match the b-parts of each query (`HalvesStayInStep`), sections come back from exactly their own bytes (`StreamLengthExact`), rounding for the wire costs at most half a step, plus one, also where it wraps around (`RoundingIsBounded`) |
| | loop: N = 8, moduli 7 and 5, lengths 2, 4 and 8, generators 5, 3 and 9 | on the largest residues no sum overflows (`SumsFitAWord`), loads ahead stay in the array (`LoadsInBounds`), the caller finds the sum in the buffer it reads (`ReplyIsRotatedSum`) |
| | ring: words of 10 bits, K = 3, alpha = 1 | each register, also of a running sum, represents its value within the bound the next operation needs, and equality and lifts do not depend on the representative (`ResiduesRepresent`); both builds of the right shift agree on every word (the assumption `ShiftsAgree`) |
| | vector: all permutations of 5 positions | values end where the permutation says, in both directions (`PermuteCorrect`), and the loops end (`Terminates`) |
| `zone_file` | all files of up to 4 lines out of 10 | lookups match the file (`ParseIsFaithful`), the zone name is the longest common suffix (`ZoneNameIsCommonSuffix`), a loaded dump answers alike (`DumpAnswersAlike`) |

Every state machine but `DoublePir` defines a `TypeOK`. That of `ServerBuild` relates
headers and entries, is checked and proved; the others only bound the variables, and
those of `Session`, `Resolver`, `ZoneCache`, `FleetSizing` and `Permute` are proved.
`CHECK_DEADLOCK FALSE` is set where the program ends: start-up, a batch, a resolution,
a bounded session, a permutation. Clients of the cache go on for ever, and there
deadlock is checked.

Bounds. `MAX_HOPS`, `MAX_REHASH_RETRIES`, `MAX_BUCKET_SALT_ATTEMPTS` and
`BUCKET_BYTES` are constants of the code with smaller values: 2 or 3 is enough to
succeed at once, succeed late and run out. Of the names of 12, 42 and 42 bytes a
bucket of 60 bytes holds either of the large ones with the small one, filling up to
its last byte behind the header, and overflows with both. `MC_ServerBuild` fixes the
discriminator of one name (discriminators are only compared with each other) and its
slot under the first salt (under the second all slots are free). `MaxRounds = 2` lets
a smaller and a larger secondary database follow each other in one buffer. `MaxBuilds
= 2` is one restart, a second session of a client a reconnect after a failure,
`MaxQueries = 2` a query whose predecessor timed out. Four lines hold an NS record,
both kinds of glue and a name that moves the zone name. `MaxFaults = 2` allows a crash
or bad reply in each phase of a save, and a second one during the repair.

Words, bytes and rings are smaller so that TLC can exhaust them (its integers have
32 bits), and are chosen so that the boundaries remain. The widths 15, 13, 12 and 8
leave fragments of 4, 2 and 1 bits of a value, of 4 and 1, of 4, and
none. Frames lie below, at and above `MAX_FRAME` and above the largest length.
Words of 10 bits are the shortest `check_invariant` admits for K = 3, and a sum is
run with one twiddle only (`SumTwiddle`), as it does not use it. In the loop the word
holds the sums of the computed number of iterations and not those of one more.
q = 353 * 113 has 16th roots of unity modulo both factors and keeps the code's
proportions between t, N, the gadget base and the noise budget.

Fairness. `FleetSizing` and `ServerBuild` are one thread that only computes:
weak fairness of the next-state relation. A `Resolver` step waits for a connect or a
reply, both bounded by the code's time-outs, after which the step is `connect_failed`
or `query_error`: again weak fairness of the whole. In `Session` each worker is an
operating-system thread and each waiting client reads what arrives, so both are
weakly fair; time-outs, crashes, restarts and new requests are not. `WorkersExit`
holds because dropping the socket on the client side ends the server's blocking
read; a client that keeps an idle connection open keeps its worker, and the code
promises nothing else. The same fairness, mapped, gives `PirService` its own. In
`Protocol` the system keeps sending what was written and the reader keeps reading;
breaks and time-outs are not fair. In `ZoneCache` a run that has started goes on and
nobody has to start one: `CacheHeals` has the premise that some client starts again
and again. Crashes and errors stop because `MaxFaults` bounds them. `Permute` only
computes.

### Violations

* `absent_names`: `find_bucket_salt` (`server.rs:605`) separates the
  discriminators of the names that are present. A name that is not in the zone may
  share slot and discriminator with one that is, and its query returns that name's
  records. The documentation of `DnsServer::query` (`client.rs:55`) says the server
  rejects such collisions at build time.
* `resolver_apex`: `one_hop` (`client.rs:163`) returns a delegation for NS records
  of the zone apex itself, documented as delegating downward (`client.rs:80`). A
  zone with apex NS records sends the client to itself until the hop limit, and a
  missing name is reported as failed instead of not found.
* `double_pir_second_slot`: the assertion at `double_pir.rs:185` pairs the occupied
  slots with fleet lengths from the front, so leaving the first slot empty panics
  when the fleets differ in size, although `process_queries` documents each slot as
  optional (`pir_wrapper.rs:340`).

Smaller disagreements between comments and code that no run is about:

* `save_cache` (`client.rs:629`) truncates the file and then writes into it, so a
  usable cache is gone in between, and for good if the process dies; its comment
  (`client.rs:622`) says "Atomically (-ish)". `load_cache` treats what it finds then as
  a miss, and `CacheHeals` shows that the next download repairs it.
* `reduce_after_mul` (`simd_zn.rs:224`) leaves values up to 2p where its documentation
  (`simd_zn.rs:221`) promises at most p. No caller relies on the promise: all need 2p,
  which `ResiduesRepresent` shows.
* `gen_sk` (`bfv.rs:39`) draws positions with repetition and coefficients that may be
  zero, so the weight is at most `hwt`; the documentation of the module (`bfv.rs:7`)
  calls it fixed.
* The comment of `ServerState.dump` (`server.rs:66`) says it is always populated, a PIR
  server has none (`server.rs:279`).
* `set_db` (`base_pir.rs:612`) documents `group_order()` entries and asserts
  `SIMD_COUNT` times as many (`base_pir.rs:693`).
* `serialize` drops names all of whose data was bad, which changes no answer
  (`DumpAnswersAlike`).

## 4. Proofs

Eight modules hold the proofs: a theorem here is the property of a run for every value
of the constants, from assumptions that are named in the modules and that TLC
evaluates on the runs. Hardly any of the properties is inductive as it stands, so each
proof module defines the invariant it needs and proves it action by action. TLC
checked these invariants on the runs' instances before they were proved, except
where they quantify over unbounded sequences (`FrameInv`, `Received`, `ZoneInv`).

What a recursive function computes for data of any length is proved without the
library's induction theorems, which take an operator: `FiniteRecursion` shows that the
recursion has a solution, and an induction is the argument that the set of
counterexamples has no least element (`LeastNatural`).

| module | theorem | property |
|---|---|---|
| `ServerBuildProofs` | `TypeCorrect`, `LookupCorrect` | `TypeOK`, `PresentNamesOwnRecords` |
| | `SaltsAreNotSkipped`, `BuildRefinesZoneLookup` | `NoSaltSkipped`, `ServesTheZone` |
| | `BytesAreServed` | `ServedBytesDecode` |
| `SessionProofs` | `TypeCorrect`, `RepliesMatch` | `TypeOK`, `ReplyMatchesRequest` |
| | `RefinesService`, `RefinesChannel` | safety of `ImplementsService` and `ImplementsChannel` |
| | `InfosOrErrors` | `InfoOrError` |
| `ResolverProofs` | `TypeCorrect`, `WalkInZone`, `NotFoundExhaustive`, `FoundIsTarget`, `ListedOrder`, `BootstrapTried` | `TypeOK` and the five invariants of the run `resolver` |
| `ZoneCacheProofs` | `TypeCorrect`, `QuietFile` | `TypeOK`, `QuietFileIsLastSave` |
| | `ParsingIsFaithful`, `ZoneNameIsLongestSuffix`, `LoadedDumpAnswersAlike` | `ParseIsFaithful`, `ZoneNameIsCommonSuffix`, `DumpAnswersAlike` |
| `ShapeProofs` | lemmas on `DatabaseShape` | used by the next two |
| `FleetProofs` | `TypeCorrect`, `StartUpSound`, `CandidatesFill`, `SlotsAddressable`, `LoopsEven` | `TypeOK`, safety of `StartUpCompletes`, `CandidateFillsItsShards`, `EverySlotAddressable`, `LoopLengthsEven` |
| `DoublePirProofs` | `RepliesCorrect`, `NeverPanics`, `QueriesFullyRead` | `RepliesAreRequested`, `NoPanic`, `QueryFullyRead` |
| `EngineProofs` | `ResiduesCorrect` | `ResiduesRepresent` |
| | `LoadsStayInBounds`, `SumsStayInAWord`, `ReplyIsTheRotatedSum` | `LoadsInBounds`, `SumsFitAWord`, `ReplyIsRotatedSum` |
| | `TypeCorrect`, `PermuteIsCorrect` | `TypeOK` of `Permute`, `PermuteCorrect` |

### Server build

For every zone, all hash functions and all bounds: the count header of every bucket
equals the number of entries behind it, and the bucket a client retrieves for a zone
name from a PIR server holds, under the discriminator the client derives, exactly
the name's records as one contiguous run, and no other entry with that
discriminator.

Assumption: `BuildAssumption` (types of the constants, a finite zone, names of the
zone and outside it are disjoint, `None` is not a name). Nothing is assumed of the
hashes.

`PresentNamesOwnRecords` speaks of the published state only. `Inv` adds what holds
on the way:

* `Grouped`: pass 1 grouped the names by their slot under the current salt;
* `Idle`: no name is under way outside a bucket;
* `EarlierDone`: every bucket the cursor has left holds the run of each of its names;
* `LaterZero`: every bucket it has not reached is still zeroed, so a retry starts
  clean;
* `CurrentBucket`: in the bucket under way the salt separates its names; names still
  to be written left no trace, the name being written has exactly its first `done`
  records at the end of the bucket, and finished names own their run.

The step that carries the argument is `write_record`: the new entry extends the run
of the current name (`AppendExtendsTrailing`) and, because the salt separates the
names, disturbs neither finished names (`AppendKeepsRun`) nor those to come
(`AppendKeepsNoTrace`). `publish` then needs only `EarlierDone` for all slots and
that the advertised salt is the attempt's.

`SaltsAreNotSkipped` is about the other outcome: an attempt is given up only under a
salt that no order of writing could have used. `Accounted` adds the position and the
count: they are the bytes and the number of the entries written so far (`Written`), so
an entry that does not fit is one of a set that does not. Sizes of sets of entries
are cardinalities, and grow entry by entry.

`BuildRefinesZoneLookup` is the whole refinement of `ZoneLookup`. What remains for it is
that the decoder finds what `HoldsRun` describes: `decode_bucket_matching` collects
the entries with the wanted discriminator, and of a run without strangers these are
the name's records in order.

`BytesAreServed` takes the same records to the bytes and back. `BucketCodecAssumption`
ties the widths to each other as the constants of `bucket.rs` do: a tag of a
discriminator and two kind bits fills two bytes, a group of coefficients is a whole
number of bytes, the count and the salt fit their header fields.

* Numbers: a number is recovered from its digits and digits from their number
  (`NumberRoundTrip`, `DigitsRoundTrip`), so packing bytes into coefficients loses
  nothing (`PackRoundTrip`).
* Layout: `LaidOut` says of the bytes after `i` entries that the header has the salt
  and the count `i` and that every entry stands at its place; `AppendLaysOut` shows
  that `append_entry` writes behind the earlier entries and into no header field but
  the count.
* Reading: every turn of the decoder's loop reads the entry at its place and moves by
  its size, whether it matches or not (`DecodeTurn`).
* `Room`, an invariant of the build: entries end before the bucket does, because
  `append_entry` refuses the others and a retry starts from zeroed buckets.

### Sessions

For any number of clients, connections, restarts and queries
(`SessionAssumption`: types of the constants). `ReplyMatchesRequest` compares what
a client took with what it asked for; the invariant says why nothing else can be on
its connection:

* `Wired`, per connection: at most one frame is under way, in either direction or as a
  query being computed; only a live process has open connections, and a broken or
  unused one carries neither requests nor a worker;
* `Unused`: a session number not reached yet has no connection, so a reconnect starts
  on an empty one;
* `Linked`, per client with a session: what is under way on its current connection is
  its last request or the answer to it, and while the connection is open the running
  build is the one whose INFO it holds;
* `Matches`: the property, and that the advertised mode is never refused.

`RefinesService` shows, from the same invariant, that every step is a step of
`PirService` or a stutter under the mapping of `ImplementsService`; steps of workers
stutter, and a read that ends is the answer of the build or a failure.

`RefinesChannel` is about `Protocol`: for every byte and word size, any payloads and
any cut of the stream, `Protocol` implements `FrameChannel`
(`PayloadAssumption`: payloads are sequences of bytes, and `Infos` has every value
they can decode to). A length comes back from its bytes because a number below a power
of two is the sum of its digits (`NumberRoundTrip`). `FrameInv`: there is one stream, made of the accepted frames
behind each other with known starting positions; reader's buffer, bytes in transit
and bytes not yet written are the rest of it from the position where the current
`read_exact` began, or a beginning of that rest after a break; and what the reader
waits for is what the frame at that position has. `length_read` and `payload_read`
need exactly that: the bytes at a frame's start are its length, the bytes behind them
its payload.

`InfosOrErrors`: what is delivered is a payload of a length that fits its field
(`Received`). `Laid` describes where the six fields of an encoded reply lie;
`decode_info` reads them from there (`DecodeEncode`), and a payload that decodes to a
reply begins with the encoding of it (`EncodeDecode`).

### Resolver

For any addresses, names, zones and replies, any cache and any hop limit
(`ResolverAssumption`: types of the constants). The invariant is
`TypeOK /\ Control /\ WalkInv /\ PoolInv /\ Verdict`:

* `Control`: a verdict only at the end, no walk for the empty name, hops below the limit;
* `WalkInv`: during a hop the name being tried is a suffix of the target and the zone
  is one of it; every longer suffix was answered, and none of these answers delegated
  or held an address of the target. At the zone's apex this is `NotFoundIsExhaustive`;
* `PoolInv`: the addresses tried and those still on the stack are the list that was
  offered, and before the first connection that list contains the bootstrap server;
* `Verdict`: the three properties of the final states.

Names are sequences of labels; the lemmas on `Reverse`, `IsSuffix` and `Suffixes`
are proved by position.

### Zone cache

For any number of processes, versions, dump lengths and faults
(`ZoneCacheAssumption`). `SaveInv`: while no save is torn, those under way save one
version, the file is no longer than its dump, and either the file is whole or the
save that truncated it last is under way and nothing it wrote is lost. The last part
is what makes concurrent saves of one version harmless: a truncation by a second
process discards what the first wrote, but then the second writes all of it.

### Zone file

For every set of lines, any labels and files of any length (`ZoneFileAssumption`: the
lower-case form of a label is a label and its own lower-case form, an NS line holds a
host name, `Nil` and `Bad` are values of their own). `Represents(zone, lines)` is the
invariant of a parse: the entry of each name holds the addresses of its lines in order,
its NS indices point at the lower-case hosts of its NS lines in a pool that only grows,
names without an entry have no data, and the suffixes of the zone name are those that
all names with data share. `ParseStep` shows that one line keeps it, for kept and for
skipped lines, `LookupAnswers` that a lookup then answers what the lines say, and
`SuffixExtended` that narrowing the suffix name by name gives the longest common one.

`ZoneInv` follows the text through the phases: while the dump is read, the lines read
so far and those left are what `serialize` wrote from a zone that represents the file.
`Serialized` shows that the dump holds for each name what the zone stores for it, in
whatever order the names were written, so the zone parsed from it answers alike and has
the same suffix (`SuffixUnique`).

### Database shape, fleet, double PIR

For every ring dimension, vector width and number of digits with
`ParameterAssumption` and `ShiftAssumption` (the powers of two that the code's
shifts and `abs_log2_ceil` rely on), any hashes below the number of entries
(`HashAssumption`) and any verdicts of the load prediction. `ShapeProofs` bounds the
index groups for every number of entries up to N^2, in each of the three regimes;
the products are nonlinear, so the arithmetic is done in lemmas of their own.

The invariant of `FleetProofs` fixes which candidate is under trial and how many
shards are filled; the assertions on the way then follow from the shape.

`DoublePirProofs` adds `PackingAssumption` (at least two batch slots) and
`ClientAssumption`, and has one hypothesis: every batch has the documented form
(`HonestBatch`: no fleet is longer than the first, the occupied ones have its shape,
and the occupied slots come first, without which `double_pir_second_slot` shows a
panic). The run `double_pir` takes its batches from this set. `SlotInv` says for each
phase what the client's and the server's data are in terms of the hash asked for: the
uploaded ciphertexts, what the server unpacks (each exponent selects the row that the
slot addresses, and the conjugate is there exactly if the group needs one), the parts
after the primary databases, and the reply. The secondary buffer is left arbitrary in
the invariant: whatever an earlier batch left in it, the cells that a query reads were
written for it.

### Engine

`EngineProofs` extends `BasePir` and `EngineKernels`, whose `KernelAssumption` has what
each machine assumes.

* Ring: for every K, alpha and word width that `check_invariant` admits, and any
  inputs `Ints` (integers) and `U64s` (naturals). `RingInv` adds the types of registers
  and ghosts to the bounds; the lemmas show for each operation that its intermediate
  values fit into a word and that the result is congruent and within the bound the
  next operation takes as given.
* Loop: for every number of points, unrolled block, gadget length, modulus, generator
  and loop length of `PirLoopAssumption`. `LoopInv`: `index` counts the points of the
  iterations and blocks done, and nothing is preloaded beyond the last block of an
  iteration. Hence a load is always of a block of this iteration. `SumsInv` adds the
  values, under `ValuesFit`: in the middle of an interval a sum is at most a reduced
  value and the largest products of the iterations done, what is preloaded is what
  the next block needs, and the lookup table is a permutation, so each point of the
  other buffer is written once per iteration. `reduce_every_iterations` leaves out the
  reduced value that a sum starts with; the proof therefore rests on the last part of
  `ValuesFit`, that rounding the quotient down leaves room for it. For the code's
  moduli (2^26 - 4095 and 2^25 - 4095, `base_pir.rs:286`) the room is above 2^52.
  `ValueInv` adds what the buffers mean: after t whole iterations the buffer that is
  read holds modulo p the sum over them (`SumAfter`), each term at the point to which
  the automorphisms since have moved it; inside iteration t + 1 the points below j
  have it too, scattered to the other buffer by the lookup table, and which of the two
  buffers is read follows from the parity of the iterations done. That no sum wraps is
  `SumsInv`, that a point is written once per iteration is that the table is a
  permutation, and that the caller finds the sum in the buffer it reads is that loops
  have even length, which `LoopsEven` proves of the fleet.
* Permutation: for every permutation of every length. Between cycles (`Resting`) a
  cycle is marked as a whole or not at all, marked positions are final and the others
  untouched. Inside one, `Carrying` (for `permute`) and `CarryingInv` (for
  `permute_inv`) say which positions of it are marked and where the value that was
  lifted out lies.
* Stream: for every degree divisible by eight (`WireAssumption`) and natural widths
  (`WidthAssumption`), whatever the coefficients. `WireInv`: the stream is empty or the
  packed form of the sections last sent. The part of a section with fragments has one
  per binary digit of the width modulo eight (`TakenBits`), and concatenation adds
  lengths (`FlattenParts`, by the recursion that `FlattenSeq` is defined by).

### Only model-checked

* Everything temporal: `BuildTerminates`, `ResolutionEnds`, `WorkersExit`,
  `CacheHeals`, `Terminates`, and the fairness parts of `ImplementsService`,
  `ImplementsChannel` and `StartUpCompletes`. Liveness under fairness is outside the
  proof system's reach.
* `BasePir` but for `StreamLengthExact`: real arithmetic with roots of unity of one
  ring; its statements on noise hold for parameter sets with enough budget and not for
  all.

## 5. Not modelled

* The aligned allocator: it passes a larger alignment on to the global allocator and
  keeps no state. Allocation of huge pages is the operating system's.
* Command-line parsing, tracing, benchmarks, byte and timing counters: no property
  depends on them.
* `mix64` itself: hashes are arbitrary functions, which is more general.
* gzip: lossless with a checksum, modelled by what that accepts.
* The floating-point prediction of the maximum load: an arbitrary verdict.
* The distributions of errors and keys: sets of outcomes. Hence no statement on the
  probability of a decryption failure or on security.
* Frames no client of this program sends, see the end of section 2.
* Read time-outs on the server: it has none (`server.rs:751`), so a property that idle
  clients release their worker would be one the code does not claim.

## 6. Open

The models cover all components of section 1 but the last. Worth proving next:

1. `RoundingIsBounded`, for all widths.
