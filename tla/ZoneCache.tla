------------------------------ MODULE ZoneCache ------------------------------
(***************************************************************************)
(* The cache file of the global zone (client.rs: load_cache, save_cache),  *)
(* shared by every client process of a user.  A run of the client reads    *)
(* the file, follows the cached delegation if it can, and otherwise asks   *)
(* the bootstrap server, whose dump it saves before it parses it.          *)
(*                                                                         *)
(* std::fs::write opens the file, truncating it, and then writes at its    *)
(* own offset; std::fs::read reads at its own offset up to the end it      *)
(* finds.  Each of these system calls is a step, so processes interleave   *)
(* between them and a crash may fall between any two.  A dump is the       *)
(* sequence of the pieces that one write call stores.                      *)
(***************************************************************************)
EXTENDS Integers, Sequences, FiniteSets, SequencesExt

CONSTANTS
  Clients,     \* client processes
  MaxVersion,  \* bound: versions of the global zone the server publishes
  Pieces,      \* pieces of the dump of each version; version 0 is not a dump
  MaxFaults,   \* bound: crashes, I/O errors and replies that are not a dump
  None, Hole

Versions == 1..MaxVersion
Unparsable == 0

(* What one write call stores: a piece of a dump, or the gap before it.    *)
Piece == {Hole} \cup ((0..MaxVersion) \X Nat)

ASSUME ZoneCacheAssumption ==
  /\ MaxVersion \in Nat \ {0} /\ MaxFaults \in Nat
  /\ Pieces \in [0..MaxVersion -> Nat \ {0}]
  /\ None \notin 0..MaxVersion /\ None \notin Seq(Piece)

VARIABLES
  file,     \* pieces in the cache file, None when there is no file
  version,  \* version of the global zone the bootstrap server publishes
  live,     \* versions whose delegated name servers answer
  pc,       \* per client, where its run stands
  buf,      \* per client, the pieces fs::read has returned
  gz,       \* per client, the dump it fetched
  off,      \* per client, pieces fs::write has written
  faults,   \* crashes, I/O errors and bad replies so far
  saved,    \* ghost: the dump whose save ended last, None before the first
  torn      \* ghost: a save since the last quiet moment failed or met another

vars == <<file, version, live, pc, buf, gz, off, faults, saved, torn>>

----------------------------------------------------------------------------
bytes(d) == [i \in 1..Pieces[d] |-> <<d, i>>]

(* The gzip trailer rejects anything but a whole dump; GzDecoder stops     *)
(* behind the first member, so what follows one is ignored.                *)
load_dump(contents) ==
  LET whole == {d \in Versions : IsPrefix(bytes(d), contents)}
  IN  IF whole = {} THEN None ELSE CHOOSE d \in whole : TRUE

Contents == IF file = None THEN <<>> ELSE file

(* write(2) at an offset, which may lie behind the end of a file another   *)
(* process has truncated.                                                  *)
pwrite(contents, at, piece) ==
  [i \in 1..(IF at > Len(contents) THEN at ELSE Len(contents)) |->
     IF i = at THEN piece ELSE IF i <= Len(contents) THEN contents[i] ELSE Hole]

(* The run is over: its buffers are gone.                                  *)
leave(c) ==
  /\ pc' = [pc EXCEPT ![c] = "idle"]
  /\ buf' = [buf EXCEPT ![c] = <<>>]
  /\ gz' = [gz EXCEPT ![c] = None]
  /\ off' = [off EXCEPT ![c] = 0]

Savers == {c \in Clients : pc[c] = "write"}
Fault == faults < MaxFaults /\ faults' = faults + 1

Init ==
  /\ file = None /\ version = 1 /\ live = {1}
  /\ pc = [c \in Clients |-> "idle"]
  /\ buf = [c \in Clients |-> <<>>]
  /\ gz = [c \in Clients |-> None]
  /\ off = [c \in Clients |-> 0]
  /\ faults = 0 /\ saved = None /\ torn = FALSE

(* The server publishes a new version; name servers of old versions may be *)
(* switched off with it.                                                   *)
Publish(alive) ==
  /\ version < MaxVersion
  /\ version' = version + 1
  /\ live' = alive \cup {version + 1}
  /\ UNCHANGED <<file, pc, buf, gz, off, faults, saved, torn>>

run_inner(c) ==
  /\ pc[c] = "idle"
  /\ pc' = [pc EXCEPT ![c] = "load"]
  /\ UNCHANGED <<file, version, live, buf, gz, off, faults, saved, torn>>

(* load_cache: opening fails without a file, which is a miss.              *)
load_cache(c) ==
  /\ pc[c] = "load"
  /\ pc' = [pc EXCEPT ![c] = IF file = None THEN "bootstrap" ELSE "read"]
  /\ UNCHANGED <<file, version, live, buf, gz, off, faults, saved, torn>>

read_piece(c) ==
  /\ pc[c] = "read" /\ Len(buf[c]) < Len(Contents)
  /\ buf' = [buf EXCEPT ![c] = Append(@, Contents[Len(@) + 1])]
  /\ UNCHANGED <<file, version, live, pc, gz, off, faults, saved, torn>>

\* mutant: a cached zone is final even when its name servers are gone
read_end_no_fallback(c) ==
  /\ pc[c] = "read" /\ Len(buf[c]) >= Len(Contents)
  /\ pc' = [pc EXCEPT ![c] = IF load_dump(buf[c]) # None THEN "idle" ELSE "bootstrap"]
  /\ buf' = [buf EXCEPT ![c] = <<>>]
  /\ UNCHANGED <<file, version, live, gz, off, faults, saved, torn>>

(* At the end of the file the zone is parsed.  A zone whose delegation     *)
(* still answers ends the run; any other outcome leaves the bootstrap.     *)
read_end(c) ==
  /\ pc[c] = "read" /\ Len(buf[c]) >= Len(Contents)
  /\ pc' = [pc EXCEPT ![c] = IF load_dump(buf[c]) \in live THEN "idle" ELSE "bootstrap"]
  /\ buf' = [buf EXCEPT ![c] = <<>>]
  /\ UNCHANGED <<file, version, live, gz, off, faults, saved, torn>>

(* HybridFactory::connect to a server of the global zone that offers a     *)
(* dump: the frame it answers with is cached before it is parsed.          *)
connect(c, d) ==
  /\ pc[c] = "bootstrap"
  /\ \/ d = version /\ UNCHANGED faults
     \/ d = Unparsable /\ Fault
  /\ gz' = [gz EXCEPT ![c] = d]
  /\ pc' = [pc EXCEPT ![c] = "open"]
  /\ UNCHANGED <<file, version, live, buf, off, saved, torn>>

(* No connection, no dump, or the server hosts another zone: nothing is    *)
(* cached.                                                                 *)
connect_without_cache(c) ==
  /\ pc[c] = "bootstrap" /\ Fault
  /\ pc' = [pc EXCEPT ![c] = "idle"]
  /\ UNCHANGED <<file, version, live, buf, gz, off, saved, torn>>

(* save_cache: create_dir_all, then fs::write opens and truncates.         *)
save_cache_open(c) ==
  /\ pc[c] = "open"
  /\ file' = <<>>
  /\ off' = [off EXCEPT ![c] = 0]
  /\ torn' = \E o \in Savers : (gz[o] # gz[c] \/ torn)
  /\ pc' = [pc EXCEPT ![c] = "write"]
  /\ UNCHANGED <<version, live, buf, gz, faults, saved>>

\* mutant: the file is opened for appending
save_cache_write_append(c) ==
  /\ pc[c] = "write" /\ off[c] < Pieces[gz[c]]
  /\ file' = Append(Contents, bytes(gz[c])[off[c] + 1])
  /\ off' = [off EXCEPT ![c] = @ + 1]
  /\ UNCHANGED <<version, live, pc, buf, gz, faults, saved, torn>>

save_cache_write(c) ==
  /\ pc[c] = "write" /\ off[c] < Pieces[gz[c]]
  /\ file' = pwrite(Contents, off[c] + 1, bytes(gz[c])[off[c] + 1])
  /\ off' = [off EXCEPT ![c] = @ + 1]
  /\ UNCHANGED <<version, live, pc, buf, gz, faults, saved, torn>>

(* The save is complete and the client goes on with the dump in memory,    *)
(* whether it parses or not.                                               *)
save_cache_end(c) ==
  /\ pc[c] = "write" /\ off[c] = Pieces[gz[c]]
  /\ saved' = gz[c]
  /\ leave(c)
  /\ UNCHANGED <<file, version, live, faults, torn>>

(* An I/O error of a save is only a warning: the file keeps what it has.   *)
save_cache_error(c) ==
  /\ pc[c] \in {"open", "write"} /\ Fault
  /\ torn' = (torn \/ pc[c] = "write")
  /\ leave(c)
  /\ UNCHANGED <<file, version, live, saved>>

Crash(c) ==
  /\ pc[c] # "idle" /\ Fault
  /\ torn' = (torn \/ pc[c] = "write")
  /\ leave(c)
  /\ UNCHANGED <<file, version, live, saved>>

Step(c) ==
  \/ load_cache(c) \/ read_piece(c) \/ read_end(c)
  \/ \E d \in 0..MaxVersion : connect(c, d)
  \/ save_cache_open(c) \/ save_cache_write(c) \/ save_cache_end(c)

Next ==
  \/ \E alive \in SUBSET live : Publish(alive)
  \/ \E c \in Clients :
       run_inner(c) \/ Step(c) \/ connect_without_cache(c) \/ save_cache_error(c) \/ Crash(c)

(* A run under way goes on; nothing obliges anyone to start one.           *)
Spec == Init /\ [][Next]_vars /\ \A c \in Clients : WF_vars(Step(c))

----------------------------------------------------------------------------
(* Types: the file is made of pieces of dumps and holes, a client that     *)
(* saves holds a dump and is never further in it than it is long.          *)
TypeOK ==
  /\ file \in {None} \cup Seq(Piece)
  /\ version \in Versions /\ live \subseteq Versions
  /\ pc \in [Clients -> {"idle", "load", "read", "bootstrap", "open", "write"}]
  /\ buf \in [Clients -> Seq(Piece)]
  /\ gz \in [Clients -> (0..MaxVersion) \cup {None}]
  /\ off \in [Clients -> Nat]
  /\ \A c \in Clients :
       /\ pc[c] \in {"open", "write"} => gz[c] # None
       /\ pc[c] = "write" => off[c] <= Pieces[gz[c]]
  /\ faults \in 0..MaxFaults /\ torn \in BOOLEAN /\ saved \in (0..MaxVersion) \cup {None}

(* When no save runs and none since the last quiet moment failed or met a  *)
(* save of another version, the file holds the dump saved last: clients    *)
(* that save the same version at once cannot damage it (client.rs,         *)
(* save_cache and load_cache).                                             *)
QuietFileIsLastSave ==
  Savers = {} /\ ~torn /\ saved # None /\ saved # Unparsable => load_dump(Contents) = saved

Usable == load_dump(Contents) \in live

(* If clients keep running, a cache that is missing, torn, no dump or      *)
(* stale with dead name servers becomes usable again: the fallback to the  *)
(* bootstrap server in run_inner saves a fresh dump.                       *)
CacheHeals ==
  ([]<>(\E c \in Clients : pc[c] = "load")) => (~Usable ~> Usable)

=============================================================================
