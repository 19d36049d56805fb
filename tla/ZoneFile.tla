------------------------------ MODULE ZoneFile ------------------------------
(***************************************************************************)
(* A zone's life as text: Zone::parse reads the zone file line by line,    *)
(* serialize writes the dump, and the client parses that dump again and    *)
(* answers lookups from it (zone.rs; LocalZoneServer of client.rs).        *)
(*                                                                         *)
(* A name is the sequence of its labels, a line its owner name, its type   *)
(* and its data: an address, the value Bad for data that does not parse,   *)
(* or a host name.  Compression is lossless and left out.                  *)
(***************************************************************************)
EXTENDS Integers, Sequences, SequencesExt

CONSTANTS
  Lines,      \* lines a zone file may hold
  Lower,      \* lower-case form of each label
  DummyHash(_), \* hash of a host name, one byte in the code
  MaxLines,   \* bound: lines of a zone file
  Bad, Nil

Names == Seq(DOMAIN Lower)

(* What a line may hold behind its type.                                   *)
Datas == {l.data : l \in Lines} \cup Names

ASSUME ZoneFileAssumption ==
  /\ MaxLines \in Nat /\ Nil \notin Datas /\ Bad \notin Names
  /\ \A x \in DOMAIN Lower : Lower[x] \in DOMAIN Lower /\ Lower[Lower[x]] = Lower[x]
  /\ \A l \in Lines : l.name \in Names /\ (l.type = "NS" => l.data \in Names)

VARIABLES
  phase,   \* "file", "parsed", "dump", "loaded"
  fed,     \* lines of the zone file read so far
  z,       \* the zone the running parse has built
  text,    \* lines of the dump still to be parsed
  origin   \* the zone the dump was written from, or Nil

zonevars == <<phase, fed, z, text, origin>>

----------------------------------------------------------------------------
canonical(raw) == [i \in DOMAIN raw |-> Lower[raw[i]]]

EmptyRecords == [a |-> <<>>, aaaa |-> <<>>, ns |-> <<>>]
EmptyZone == [records |-> [n \in {} |-> EmptyRecords], ns_pool |-> <<>>, suffix |-> Nil]

name_in_suffix(name, zone) == IsSuffix(zone, name)

\* mutant: the new name replaces a suffix it does not share
common_suffix_newest(a, b) == b

(* The longest run of labels two names share, from the right.              *)
common_suffix_str(a, b) ==
  Reverse(LongestCommonPrefix({Reverse(a), Reverse(b)}))

extend_suffix(current, name) ==
  IF current = Nil THEN name
  ELSE IF name_in_suffix(name, current) THEN current
  ELSE common_suffix_str(current, name)

(* records.insert of an empty entry for a name met for the first time.     *)
with_entry(records, name) ==
  [n \in DOMAIN records \cup {name} |->
     IF n \in DOMAIN records THEN records[n] ELSE EmptyRecords]

(* The index of an NS host in the pool, which grows on its first use.      *)
intern(pool, host) ==
  IF host \in ToSet(pool)
  THEN [pool |-> pool, idx |-> CHOOSE i \in DOMAIN pool : pool[i] = host]
  ELSE [pool |-> Append(pool, host), idx |-> Len(pool) + 1]

\* mutant: the name of a line with bad data narrows the zone name, too
parse_line_suffix_first(zone, line) ==
  LET name == canonical(line.name)
      records == with_entry(zone.records, name)
      suffix == extend_suffix(zone.suffix, name)
      ns == intern(zone.ns_pool, canonical(line.data))
  IN  CASE line.type \notin {"A", "AAAA", "NS"} -> zone
        [] line.type \in {"A", "AAAA"} /\ line.data = Bad ->
             [zone EXCEPT !.records = records, !.suffix = suffix]
        [] line.type = "A" /\ line.data # Bad ->
             [zone EXCEPT !.records = [records EXCEPT ![name].a = Append(@, line.data)],
                          !.suffix = suffix]
        [] line.type = "AAAA" /\ line.data # Bad ->
             [zone EXCEPT !.records = [records EXCEPT ![name].aaaa = Append(@, line.data)],
                          !.suffix = suffix]
        [] line.type = "NS" ->
             [records |-> [records EXCEPT ![name].ns = Append(@, ns.idx)],
              ns_pool |-> ns.pool, suffix |-> suffix]

(* One turn of Zone::parse.  A line of another type changes nothing; one   *)
(* with bad data leaves an empty entry and skips the suffix update.        *)
parse_line(zone, line) ==
  LET name == canonical(line.name)
      records == with_entry(zone.records, name)
      suffix == extend_suffix(zone.suffix, name)
      ns == intern(zone.ns_pool, canonical(line.data))
  IN  CASE line.type \notin {"A", "AAAA", "NS"} -> zone
        [] line.type \in {"A", "AAAA"} /\ line.data = Bad ->
             [zone EXCEPT !.records = records]
        [] line.type = "A" /\ line.data # Bad ->
             [zone EXCEPT !.records = [records EXCEPT ![name].a = Append(@, line.data)],
                          !.suffix = suffix]
        [] line.type = "AAAA" /\ line.data # Bad ->
             [zone EXCEPT !.records = [records EXCEPT ![name].aaaa = Append(@, line.data)],
                          !.suffix = suffix]
        [] line.type = "NS" ->
             [records |-> [records EXCEPT ![name].ns = Append(@, ns.idx)],
              ns_pool |-> ns.pool, suffix |-> suffix]

zone_name(zone) == IF zone.suffix = Nil THEN <<>> ELSE zone.suffix

ns_hostname(zone, idx) == zone.ns_pool[idx]

\* mutant: IPv6 glue is preferred
glue_for_v6_first(zone, host) ==
  IF host \notin DOMAIN zone.records THEN Nil
  ELSE IF zone.records[host].aaaa # <<>> THEN Head(zone.records[host].aaaa)
  ELSE IF zone.records[host].a # <<>> THEN Head(zone.records[host].a)
  ELSE Nil

(* First A, else first AAAA of a host with an entry in the zone.           *)
glue_for(zone, host) ==
  IF host \notin DOMAIN zone.records THEN Nil
  ELSE IF zone.records[host].a # <<>> THEN Head(zone.records[host].a)
  ELSE IF zone.records[host].aaaa # <<>> THEN Head(zone.records[host].aaaa)
  ELSE Nil

(* The placeholder for a host without glue: an address of 192.0.2.0/24     *)
(* picked by a hash of the host name, so hosts may share one.              *)
dummy_ip(host) == <<"192.0.2", DummyHash(host)>>

ns_address(zone, idx) ==
  LET host == ns_hostname(zone, idx)
  IN  IF glue_for(zone, host) = Nil THEN dummy_ip(host) ELSE glue_for(zone, host)

(* The records a lookup returns, as build_buckets writes them into a       *)
(* bucket and as LocalZoneServer::query returns them from a loaded dump.   *)
lookup(zone, name) ==
  IF name \notin DOMAIN zone.records THEN <<>>
  ELSE LET rec == zone.records[name]
       IN  [i \in DOMAIN rec.a |-> <<"A", rec.a[i]>>]
             \o [i \in DOMAIN rec.aaaa |-> <<"AAAA", rec.aaaa[i]>>]
             \o [i \in DOMAIN rec.ns |-> <<"NS", ns_address(zone, rec.ns[i])>>]

(* Lines of one name in the dump, and of all names in a given order.       *)
serialize_name(zone, n) ==
  LET rec == zone.records[n]
  IN  [i \in DOMAIN rec.a |-> [name |-> n, type |-> "A", data |-> rec.a[i]]]
        \o [i \in DOMAIN rec.aaaa |-> [name |-> n, type |-> "AAAA", data |-> rec.aaaa[i]]]
        \o [i \in DOMAIN rec.ns |->
              [name |-> n, type |-> "NS", data |-> ns_hostname(zone, rec.ns[i])]]

serialize(zone, order) ==
  LET out[k \in 0..Len(order)] ==
        IF k = 0 THEN <<>> ELSE out[k - 1] \o serialize_name(zone, order[k])
  IN  out[Len(order)]

----------------------------------------------------------------------------
ZoneInit ==
  /\ phase = "file" /\ fed = <<>> /\ z = EmptyZone /\ text = <<>> /\ origin = Nil

parse(line) ==
  /\ phase = "file" /\ Len(fed) < MaxLines
  /\ fed' = Append(fed, line)
  /\ z' = parse_line(z, line)
  /\ UNCHANGED <<phase, text, origin>>

end_of_file ==
  /\ phase = "file"
  /\ phase' = "parsed"
  /\ UNCHANGED <<fed, z, text, origin>>

(* The server writes the dump, names in sorted order (the order chosen     *)
(* here is arbitrary), and a client starts to parse it.                    *)
dump(order) ==
  /\ phase = "parsed"
  /\ origin' = z
  /\ text' = serialize(z, order)
  /\ z' = EmptyZone
  /\ phase' = "dump"
  /\ UNCHANGED fed

parse_dump ==
  /\ phase = "dump" /\ text # <<>>
  /\ z' = parse_line(z, Head(text))
  /\ text' = Tail(text)
  /\ UNCHANGED <<phase, fed, origin>>

loaded ==
  /\ phase = "dump" /\ text = <<>>
  /\ phase' = "loaded"
  /\ UNCHANGED <<fed, z, text, origin>>

ZoneNext ==
  \/ \E line \in Lines : parse(line)
  \/ end_of_file
  \/ \E order \in SetToSeqs(DOMAIN z.records) : dump(order)
  \/ parse_dump
  \/ loaded

ZoneSpec == ZoneInit /\ [][ZoneNext]_zonevars

----------------------------------------------------------------------------
(* NS entries are valid indices into a pool without duplicates, and the    *)
(* zone has a suffix only when some line was kept.                         *)
ZoneTypeOK ==
  /\ phase \in {"file", "parsed", "dump", "loaded"}
  /\ fed \in Seq(Lines)
  /\ \A n \in DOMAIN z.records : \A i \in DOMAIN z.records[n].ns :
       z.records[n].ns[i] \in DOMAIN z.ns_pool
  /\ \A i, j \in DOMAIN z.ns_pool : z.ns_pool[i] = z.ns_pool[j] => i = j
  /\ z.suffix # Nil => DOMAIN z.records # {}

AllNames == {canonical(l.name) : l \in Lines}

(* What lines say, without the parser's bookkeeping.                       *)
Kept(line, name, type) == line.type = type /\ line.data # Bad /\ canonical(line.name) = name
Data(lines, name, type) ==
  LET hits[k \in 0..Len(lines)] ==
        IF k = 0 THEN <<>>
        ELSE IF Kept(lines[k], name, type) THEN Append(hits[k - 1], lines[k].data)
        ELSE hits[k - 1]
  IN  hits[Len(lines)]

GlueIn(lines, host) ==
  IF Data(lines, host, "A") # <<>> THEN Head(Data(lines, host, "A"))
  ELSE IF Data(lines, host, "AAAA") # <<>> THEN Head(Data(lines, host, "AAAA"))
  ELSE dummy_ip(host)

Answers(lines, name) ==
  [i \in DOMAIN Data(lines, name, "A") |-> <<"A", Data(lines, name, "A")[i]>>]
    \o [i \in DOMAIN Data(lines, name, "AAAA") |-> <<"AAAA", Data(lines, name, "AAAA")[i]>>]
    \o [i \in DOMAIN Data(lines, name, "NS") |->
           <<"NS", GlueIn(lines, canonical(Data(lines, name, "NS")[i]))>>]

(* Parsing with interned NS hosts answers every lookup with the lines of   *)
(* the file for that name, in file order, glue resolved against the whole  *)
(* file, also against lines behind the NS line.                            *)
ParseIsFaithful ==
  phase = "parsed" => \A n \in AllNames : lookup(z, n) = Answers(fed, n)

(* The zone name computed line by line is the longest suffix all names     *)
(* with a record share, whatever the order of the lines.                   *)
ZoneNameIsCommonSuffix ==
  phase = "parsed" =>
    LET held == {n \in AllNames : lookup(z, n) # <<>>}
    IN  /\ \A n \in held : name_in_suffix(n, zone_name(z))
        /\ held # {} => \E n \in held : \A s \in Suffixes(n) :
             (\A m \in held : name_in_suffix(m, s)) => Len(s) <= Len(zone_name(z))

(* A client that loads the dump answers every lookup as the server's own   *)
(* zone does, and for the same zone name.                                  *)
DumpAnswersAlike ==
  phase = "loaded" =>
    /\ zone_name(z) = zone_name(origin)
    /\ \A n \in AllNames : lookup(z, n) = lookup(origin, n)

=============================================================================
