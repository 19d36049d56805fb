----------------------------- MODULE MC_Resolver -----------------------------
(***************************************************************************)
(* Targets of two and three labels and the empty name; zones at every      *)
(* depth of the targets, the root and one zone that holds none of them;    *)
(* lists of one, two and three addresses in different orders.              *)
(***************************************************************************)
EXTENDS Resolver

CONSTANTS a1, a2, a3

MC_Labels == {"www", "site", "org", "com"}
MC_Targets == {<<>>, <<"www", "site", "org">>, <<"site", "org">>}
MC_Zones == {<<>>, <<"org">>, <<"site", "org">>, <<"com">>}
MC_NsLists == {<<>>, <<a1>>, <<a2, a1>>, <<a3, a1, a2>>}

=============================================================================
