------------------------------ MODULE Resolver ------------------------------
(***************************************************************************)
(* One run of the client: an optional first hop in the cached global zone, *)
(* then the iterative walk from server to server (client.rs: run_inner,    *)
(* resolve_iteratively, one_hop).                                          *)
(*                                                                         *)
(* A canonical name is the sequence of its labels, leftmost first; the     *)
(* root is the empty sequence.  Servers are the environment: any address   *)
(* may refuse a connection, serve any zone and give any reply, including   *)
(* an error.  A reply is whether it holds address records, and the         *)
(* addresses of its NS records in order.                                   *)
(***************************************************************************)
EXTENDS Integers, Sequences, SequencesExt

CONSTANTS
  Labels,     \* labels of domain names
  Addrs,      \* server addresses
  Targets,    \* names the user may ask for
  Zones,      \* zone names a server may announce
  NsLists,    \* lists of NS addresses a reply may hold
  MAX_HOPS,   \* 16 in the code
  None, Err

Results == {"Found", "NotFound", "Failed", "TooManyHops", "Unreachable", "NoServer"}

ASSUME ResolverAssumption ==
  /\ None \notin Addrs \cup Results
  /\ NsLists \subseteq Seq(Addrs) /\ <<>> \in NsLists
  /\ MAX_HOPS \in Nat \ {0}
  /\ Targets \subseteq Seq(Labels) /\ Zones \subseteq Seq(Labels) /\ <<>> \in Zones
  /\ Err \notin [a : BOOLEAN, ns : NsLists]

Records == [a : BOOLEAN, ns : NsLists]

VARIABLES
  target,      \* the canonical name asked for
  bootstrap,   \* --server, or None
  phase,       \* "start", "bootstrap", "outer", "pop", "hop", "done"
  cached,      \* the hop under way runs in the cached global zone
  offered,     \* the address list the candidates came from
  popped,      \* addresses of that list tried so far
  candidates,  \* the stack still to be popped, from the back
  hops,
  zone,        \* zone of the server of the current hop
  try_name,    \* the name the current hop asks for next
  seen,        \* replies of the current hop, by name
  result

walk == <<zone, try_name, seen>>
pool == <<offered, popped, candidates>>
vars == <<target, bootstrap, phase, cached, pool, hops, walk, result>>

----------------------------------------------------------------------------
strip_leftmost(name) == Tail(name)

target_belongs_to_zone(name, z) == IsSuffix(z, name)

NoReplies == [n \in {} |-> Err]

finish(r) == phase' = "done" /\ result' = r

\* mutant: the list is pushed in its own order
push_unreversed(list) == list

(* The caller's list becomes a stack whose top is the first listed.        *)
push_candidates(list) == Reverse(list)

set_pool(list) ==
  /\ offered' = list
  /\ popped' = <<>>
  /\ candidates' = push_candidates(list)

start_hop(z) ==
  /\ zone' = z
  /\ try_name' = target
  /\ seen' = NoReplies
  /\ phase' = "hop"

----------------------------------------------------------------------------
Init ==
  /\ target \in Targets
  /\ bootstrap \in Addrs \cup {None}
  /\ phase = "start" /\ cached = FALSE /\ hops = 0
  /\ offered = <<>> /\ popped = <<>> /\ candidates = <<>>
  /\ zone = <<>> /\ try_name = <<>> /\ seen = NoReplies
  /\ result = None

empty_domain_name ==
  /\ phase = "start" /\ target = <<>>
  /\ finish("Failed")
  /\ UNCHANGED <<target, bootstrap, cached, pool, hops, walk>>

(* load_cache: only a cached zone named "" is used.                        *)
load_cache(usable) ==
  /\ phase = "start" /\ target # <<>>
  /\ cached' = usable
  /\ IF usable
     THEN start_hop(<<>>)
     ELSE phase' = "bootstrap" /\ UNCHANGED walk
  /\ UNCHANGED <<target, bootstrap, pool, hops, result>>

\* mutant: the bootstrap server is used only when there is nothing else
bootstrap_if_empty(list) ==
  IF bootstrap = None \/ list # <<>> THEN list ELSE Append(list, bootstrap)

with_bootstrap(list) ==
  IF bootstrap = None \/ bootstrap \in ToSet(list) THEN list ELSE Append(list, bootstrap)

(* The rest of run_inner: the bootstrap address goes to the back of the    *)
(* list, and resolve_iteratively starts unless the list is empty.          *)
begin_resolve ==
  LET list == with_bootstrap(offered)
  IN  /\ phase = "bootstrap"
      /\ IF list = <<>>
         THEN finish("NoServer") /\ UNCHANGED pool
         ELSE set_pool(list) /\ phase' = "outer" /\ UNCHANGED result
      /\ UNCHANGED <<target, bootstrap, cached, hops, walk>>

----------------------------------------------------------------------------
(* resolve_iteratively                                                     *)

hop_limit ==
  /\ phase = "outer" /\ candidates # <<>> /\ hops >= MAX_HOPS
  /\ finish("TooManyHops")
  /\ UNCHANGED <<target, bootstrap, cached, pool, hops, walk>>

next_hop ==
  /\ phase = "outer" /\ candidates # <<>> /\ hops < MAX_HOPS
  /\ phase' = "pop"
  /\ UNCHANGED <<target, bootstrap, cached, pool, hops, walk, result>>

pop ==
  /\ candidates # <<>>
  /\ popped' = Append(popped, Last(candidates))
  /\ candidates' = Front(candidates)
  /\ UNCHANGED offered

connect_failed ==
  /\ phase = "pop" /\ pop
  /\ UNCHANGED <<target, bootstrap, phase, cached, hops, walk, result>>

\* mutant: a hop is not counted
connected_uncounted(z) ==
  /\ phase = "pop" /\ pop
  /\ IF target_belongs_to_zone(target, z)
     THEN start_hop(z) /\ UNCHANGED result
     ELSE finish("Failed") /\ UNCHANGED walk
  /\ UNCHANGED <<target, bootstrap, cached, hops>>

(* A connection, and the zone check at the head of one_hop.                *)
connected(z) ==
  /\ phase = "pop" /\ pop
  /\ hops' = hops + 1
  /\ IF target_belongs_to_zone(target, z)
     THEN start_hop(z) /\ UNCHANGED result
     ELSE finish("Failed") /\ UNCHANGED walk
  /\ UNCHANGED <<target, bootstrap, cached>>

none_reachable ==
  /\ phase = "pop" /\ candidates = <<>>
  /\ finish("Unreachable")
  /\ UNCHANGED <<target, bootstrap, cached, pool, hops, walk>>

----------------------------------------------------------------------------
(* one_hop: one query and what its reply leads to.                         *)

\* mutant: address records of a suffix count as an answer
answers_any_name(r) == r.a

is_answer(r) == try_name = target /\ r.a

\* mutant: the walk does not stop at the zone apex
at_top_label == Len(try_name) <= 1

\* mutant: the walk ends before the apex is asked for
at_end_early == Len(try_name) <= 1 \/ strip_leftmost(try_name) = zone

(* The apex is reached, or there is no label left to strip.                *)
at_end_of_walk == try_name = zone \/ Len(try_name) <= 1

query_reply(r) ==
  /\ phase = "hop"
  /\ seen' = [n \in DOMAIN seen \cup {try_name} |-> IF n = try_name THEN r ELSE seen[n]]
  /\ UNCHANGED <<target, bootstrap, hops, zone>>

query_error ==
  /\ query_reply(Err) /\ ~cached
  /\ finish("Failed")
  /\ UNCHANGED <<cached, pool, try_name>>

answer(r) ==
  /\ query_reply(r) /\ is_answer(r)
  /\ finish("Found")
  /\ UNCHANGED <<cached, pool, try_name>>

(* A delegation replaces the pool; from the cache it is the list the       *)
(* bootstrap address is then added to.                                     *)
delegation(r) ==
  /\ query_reply(r) /\ ~is_answer(r) /\ r.ns # <<>>
  /\ set_pool(r.ns)
  /\ phase' = IF cached THEN "bootstrap" ELSE "outer"
  /\ cached' = FALSE
  /\ UNCHANGED <<try_name, result>>

walk_on(r) ==
  /\ query_reply(r) /\ ~is_answer(r) /\ r.ns = <<>> /\ ~at_end_of_walk
  /\ try_name' = strip_leftmost(try_name)
  /\ UNCHANGED <<phase, cached, pool, result>>

not_found(r) ==
  /\ query_reply(r) /\ ~is_answer(r) /\ r.ns = <<>> /\ at_end_of_walk
  /\ IF cached
     THEN phase' = "bootstrap" /\ UNCHANGED result
     ELSE finish("NotFound")
  /\ cached' = FALSE
  /\ UNCHANGED <<pool, try_name>>

Next ==
  \/ empty_domain_name
  \/ \E u \in BOOLEAN : load_cache(u)
  \/ begin_resolve
  \/ hop_limit \/ next_hop
  \/ connect_failed \/ none_reachable
  \/ \E z \in Zones : connected(z)
  \/ query_error
  \/ \E r \in Records : answer(r) \/ delegation(r) \/ walk_on(r) \/ not_found(r)

(* The client is one thread; connects and replies are bounded by time-outs. *)
Spec == Init /\ [][Next]_vars /\ WF_vars(Next)

----------------------------------------------------------------------------
(* The state of a run has its type: the loop of resolve_iteratively never  *)
(* makes more than MAX_HOPS hops, and only suffixes of the target are ever *)
(* asked for.                                                              *)
TypeOK ==
  /\ target \in Targets
  /\ bootstrap \in Addrs \cup {None}
  /\ phase \in {"start", "bootstrap", "outer", "pop", "hop", "done"}
  /\ cached \in BOOLEAN
  /\ offered \in Seq(Addrs) /\ popped \in Seq(Addrs) /\ candidates \in Seq(Addrs)
  /\ hops \in 0..MAX_HOPS
  /\ zone \in Zones
  /\ try_name \in Suffixes(target)
  /\ seen \in UNION {[D -> Records \cup {Err}] : D \in SUBSET Suffixes(target)}
  /\ result \in Results \cup {None}

(* The walk of one hop never leaves the server's zone: it asks only for    *)
(* the target and for suffixes of it down to the apex.                     *)
WalkStaysInZone ==
  phase = "hop" =>
    /\ IsSuffix(try_name, target)
    /\ target_belongs_to_zone(try_name, zone)

(* NotFound is reported only by a server responsible for the target that   *)
(* was asked for every suffix between the target and its apex and had no   *)
(* address for the target and no delegation for any of them.               *)
NotFoundIsExhaustive ==
  result = "NotFound" =>
    /\ target_belongs_to_zone(target, zone)
    /\ \A s \in Suffixes(target) \ {<<>>} :
         target_belongs_to_zone(s, zone) => s \in DOMAIN seen /\ seen[s].ns = <<>>
    /\ ~seen[target].a

(* Found means that a server responsible for the target returned address   *)
(* records for the target itself, not for a suffix met on the way.         *)
FoundForTarget ==
  result = "Found" =>
    /\ target_belongs_to_zone(target, zone)
    /\ target \in DOMAIN seen /\ seen[target].a

(* Candidates are tried in the order they were listed, none is skipped,    *)
(* and "unreachable" is reported only when each of them was tried.         *)
TriedInListedOrder ==
  /\ phase \in {"outer", "pop", "hop"} /\ ~cached => popped \o Reverse(candidates) = offered
  /\ result = "Unreachable" => popped = offered

(* The explicit bootstrap server is tried before the first hop is given up *)
(* as unreachable, whatever a stale cache listed before it.                *)
BootstrapIsLastResort ==
  result = "Unreachable" /\ hops = 0 /\ bootstrap # None => bootstrap \in ToSet(popped)

(* Every run ends, whatever delegations the servers return: cyclic         *)
(* delegations end at the hop limit.                                       *)
ResolutionEnds == <>(phase = "done")

(* What HopOutcome::Delegation is documented to be: a server delegates     *)
(* downward, to a name below the apex of its own zone.                     *)
DelegatesDownward ==
  [][phase = "hop" /\ ~cached /\ phase' = "outer" => Len(try_name) > Len(zone)]_vars

=============================================================================
