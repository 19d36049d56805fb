---------------------------- MODULE MC_ZoneCache ----------------------------
(***************************************************************************)
(* Two versions, the older one with the longer dump, and a reply that is   *)
(* no dump.                                                                *)
(***************************************************************************)
EXTENDS ZoneCache, TLC

MC_Pieces == (0 :> 1) @@ (1 :> 3) @@ (2 :> 2)

=============================================================================
