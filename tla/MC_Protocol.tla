----------------------------- MODULE MC_Protocol -----------------------------
(***************************************************************************)
(* Bytes of two bits and numbers of two and three of them.  INFO replies   *)
(* with no zone name, with one up to the cap of 12 bytes, with one above   *)
(* it and with one that is not UTF-8; one of them cut at several places,   *)
(* one carried on, and a payload of 16 bytes, which has no length field.   *)
(***************************************************************************)
EXTENDS Protocol

Info(f, n, z, d, s) ==
  [flags |-> f, num_entries |-> n, zone_name |-> z, dump_size |-> d, hash_salt |-> s]
Unnamed == Info(0, 9, <<>>, 0, 27)
Named == Info(1, 0, <<2, 0>>, 13, 63)

MC_Infos == {Unnamed, Named, Info(2, 15, <<1, 3>>, 1, 6), Info(0, 4, <<0, 1, 2>>, 2, 1)}
MC_Payloads ==
  { encode_info(r) : r \in Infos }
    \cup { SubSeq(encode_info(Named), 1, n) : n \in {0, 4, 8, 11} }
    \cup { encode_info(Unnamed) \o <<3>>, [i \in 1..16 |-> 0] }

=============================================================================
