---------------------------- MODULE MC_DoublePir ----------------------------
(* Small instance of DoublePir: N = 16, SIMD_COUNT = 4, so fleets have one  *)
(* half-size shard or one to four full-size shards, and all three regimes   *)
(* of get_database_shape occur.                                             *)
EXTENDS DoublePir, TLC

\* Entry counts around every boundary of the derivation.
Counts == {1, 15, 16, 17, 63, 64, 65, 128, 129, 192, 193, 255, 256}

\* process_query: both batch slots are given the same fleet, the second no query.
SingleQueries == {[fleets |-> [b \in BatchSlots |-> n], asked |-> {0}] : n \in Counts}

\* process_queries with both slots occupied, on one fleet or on two fleets of
\* the same secondary group.
DoubleQueries ==
  {[fleets |-> [b \in BatchSlots |-> n], asked |-> {0, 1}] : n \in {16, 65, 256}}
  \cup {[fleets |-> (0 :> 256 @@ 1 :> 192), asked |-> {0, 1}]}

\* All of these have the documented form.
HonestBatches == {bt \in SingleQueries \cup DoubleQueries : HonestBatch(bt)}

\* The second slot alone is occupied, and its fleet is the shorter one.
SecondSlotOnly ==
  {[fleets |-> (0 :> 256 @@ 1 :> n), asked |-> {1}] : n \in {192, 256}}

\* First and last slots, and the slots on either side of a lane, row and
\* shard boundary.
BoundarySlots(n) ==
  {s \in {0, 1, 3, 4, 31, 32, 63, 64, 127, 128, n - 2, n - 1} : s >= 0 /\ s < n}

=============================================================================
