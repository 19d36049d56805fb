----------------------------- MODULE MC_ZoneFile -----------------------------
(***************************************************************************)
(* Names in two top-level domains, one of them also in upper case; glue    *)
(* for one NS host and none for the other; bad data and a type that is     *)
(* skipped; and an NS record of the root itself.                           *)
(***************************************************************************)
EXTENDS ZoneFile

Line(name, type, data) == [name |-> name, type |-> type, data |-> data]

MC_Lines ==
  {Line(<<"x", "org">>, "A", <<"ip1">>), Line(<<"X", "org">>, "NS", <<"ns", "org">>),
   Line(<<"x", "org">>, "NS", <<"NS", "org">>), Line(<<"ns", "org">>, "A", <<"ip2">>),
   Line(<<"ns", "org">>, "AAAA", <<"ip6">>), Line(<<"y", "x", "org">>, "NS", <<"far">>),
   Line(<<"ns", "com">>, "A", Bad), Line(<<"z", "com">>, "A", <<"ip1">>),
   Line(<<"x", "org">>, "TXT", <<"far">>), Line(<<>>, "NS", <<"ns", "org">>)}

MC_Lower ==
  [l \in {"x", "X", "y", "z", "org", "com", "ns", "NS", "far", "ip1", "ip2", "ip6"} |->
     CASE l = "X" -> "x" [] l = "NS" -> "ns" [] OTHER -> l]

(* The two NS hosts collide.                                               *)
MC_DummyHash(host) == 7

=============================================================================
