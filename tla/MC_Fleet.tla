------------------------------ MODULE MC_Fleet ------------------------------
(***************************************************************************)
(* Start-up with the parameters of the code.  Hash values are tried at     *)
(* both ends of every full and every half shard.                           *)
(***************************************************************************)
EXTENDS FleetSizing

MC_Hashes(n) ==
  UNION {{k * half_shard, k * half_shard + 1, k * half_shard + half_shard - 1} :
           k \in 0..((n \div half_shard) - 1)}

=============================================================================
