------------------------------ MODULE Protocol ------------------------------
(***************************************************************************)
(* protocol.rs over the server's direction of one TCP connection: frames   *)
(* (a big-endian length, then the payload) and the INFO reply inside them. *)
(* The stream carries bytes, in pieces of any size; it may break at any    *)
(* byte and lose what was under way, and the reader's time-out may strike  *)
(* in mid-frame.  The client takes whatever frame it reads behind its INFO *)
(* request for an INFO reply, so payloads may also be cut or carry on.     *)
(***************************************************************************)
EXTENDS Integers, Sequences, SequencesExt

CONSTANTS
  BYTE_BITS,  \* 8 in the code
  U32, U64,   \* bytes of the two kinds of numbers: 4 and 8
  MAX_FRAME,  \* 64 MiB: the largest frame read_frame accepts
  Infos,      \* bound: InfoResponse values
  Payloads,   \* bound: payloads written, encoded or not
  MaxFrames   \* bound: calls of write_frame

ASSUME ProtocolAssumption ==
  /\ {BYTE_BITS, U32, U64} \subseteq Nat \ {0} /\ MaxFrames \in Nat
  /\ MAX_FRAME \in 0..(2^(BYTE_BITS * U32) - 1)

VARIABLES
  calls,     \* calls of write_frame so far
  offered,   \* payloads write_frame accepted
  pending,   \* bytes of the current frame still to be written
  transit,   \* bytes under way
  connected, \* the stream still carries bytes
  need,      \* bytes the current read_exact waits for
  header,    \* that read_exact is for the length, not for the payload
  buf,       \* bytes it has
  delivered, \* payloads read_frame returned
  failed     \* read_frame returned an error, its caller gave up

Bytes == 0..(2^BYTE_BITS - 1)

writer == <<calls, offered, pending>>
reader == <<need, header, buf, delivered, failed>>
streamvars == <<writer, transit, connected, reader>>

to_be_bytes(v, n) == [i \in 1..n |-> (v \div 2^(BYTE_BITS * (n - i))) % 2^BYTE_BITS]

from_be_bytes(bytes) ==
  LET value[i \in 0..Len(bytes)] ==
        IF i = 0 THEN 0 ELSE value[i - 1] * 2^BYTE_BITS + bytes[i]
  IN  value[Len(bytes)]

----------------------------------------------------------------------------
(* The INFO reply.                                                         *)

slice(b, from, n) == SubSeq(b, from + 1, from + n)

(* No encoded character contains the byte 0xFF.                            *)
utf8(bytes) == \A i \in DOMAIN bytes : bytes[i] # 2^BYTE_BITS - 1

encode_info(r) ==
  <<r.flags>> \o to_be_bytes(r.num_entries, U32)
    \o to_be_bytes(Len(r.zone_name), U32) \o r.zone_name
    \o to_be_bytes(r.dump_size, U32) \o to_be_bytes(r.hash_salt, U64)

\* mutant: a reply that ends with the salt counts as short
short_by_one(p) ==
  \/ Len(p) < 1 + U32 + U32
  \/ Len(p) <= 1 + U32 + U32 + from_be_bytes(slice(p, 1 + U32, U32)) + U32 + U64

(* The two length checks; the second one is for the claimed name length.   *)
short(p) ==
  \/ Len(p) < 1 + U32 + U32
  \/ Len(p) < 1 + U32 + U32 + from_be_bytes(slice(p, 1 + U32, U32)) + U32 + U64

fields(p) ==
  LET name == 1 + U32 + U32
      zl == from_be_bytes(slice(p, 1 + U32, U32))
  IN  [flags |-> p[1], num_entries |-> from_be_bytes(slice(p, 1, U32)),
       zone_name |-> slice(p, name, zl),
       dump_size |-> from_be_bytes(slice(p, name + zl, U32)),
       hash_salt |-> from_be_bytes(slice(p, name + zl + U32, U64))]

(* At most one InfoResponse: none is the error InvalidData.                *)
decode_info(p) ==
  {r \in (IF short(p) THEN {} ELSE {fields(p)}) : utf8(r.zone_name)}

InfoResponses ==
  [flags : Bytes, num_entries : 0..(2^(BYTE_BITS * U32) - 1), zone_name : Seq(Bytes),
   dump_size : 0..(2^(BYTE_BITS * U32) - 1), hash_salt : 0..(2^(BYTE_BITS * U64) - 1)]

(* Payloads are bytes, and Infos has every value they may decode to.       *)
ASSUME PayloadAssumption ==
  /\ Payloads \subseteq Seq(Bytes) /\ Infos \subseteq InfoResponses
  /\ \A p \in Payloads : Len(p) < 2^(BYTE_BITS * U32) => decode_info(p) \subseteq Infos

----------------------------------------------------------------------------
StreamInit ==
  /\ calls = 0 /\ offered = <<>> /\ pending = <<>> /\ transit = <<>> /\ connected = TRUE
  /\ need = U32 /\ header = TRUE /\ buf = <<>> /\ delivered = <<>> /\ failed = FALSE

(* A payload whose length is no u32 is an error before any byte is sent.   *)
write_frame(p) ==
  /\ pending = <<>> /\ connected /\ calls < MaxFrames
  /\ calls' = calls + 1
  /\ IF Len(p) < 2^(BYTE_BITS * U32)
     THEN pending' = to_be_bytes(Len(p), U32) \o p /\ offered' = Append(offered, p)
     ELSE UNCHANGED <<pending, offered>>
  /\ UNCHANGED <<transit, connected, reader>>

(* One write of write_all takes a piece of any size.  Once the stream has  *)
(* ended the call returns an error, which leaves nothing to be done here.  *)
write_piece ==
  /\ connected /\ pending # <<>>
  /\ \E n \in 1..Len(pending) :
       /\ transit' = transit \o SubSeq(pending, 1, n)
       /\ pending' = SubSeq(pending, n + 1, Len(pending))
  /\ UNCHANGED <<calls, offered, connected, reader>>

(* The stream ends; of the bytes in transit only the first ones arrive.    *)
disconnect ==
  /\ connected
  /\ connected' = FALSE
  /\ \E n \in 0..Len(transit) : transit' = SubSeq(transit, 1, n)
  /\ UNCHANGED <<writer, reader>>

(* One read of read_exact, again a piece of any size.                      *)
read_piece ==
  /\ ~failed /\ Len(buf) < need
  /\ \E n \in 1..(need - Len(buf)) :
       /\ n <= Len(transit)
       /\ buf' = buf \o SubSeq(transit, 1, n)
       /\ transit' = SubSeq(transit, n + 1, Len(transit))
  /\ UNCHANGED <<writer, connected, need, header, delivered, failed>>

(* The length is complete: too large a frame is refused.                   *)
length_read ==
  /\ ~failed /\ header /\ Len(buf) = need
  /\ IF from_be_bytes(buf) > MAX_FRAME
     THEN failed' = TRUE /\ UNCHANGED <<need, header, buf>>
     ELSE need' = from_be_bytes(buf) /\ header' = FALSE /\ buf' = <<>> /\ UNCHANGED failed
  /\ UNCHANGED <<writer, transit, connected, delivered>>

(* read_frame returns the payload; its caller reads the next frame later.  *)
payload_read ==
  /\ ~failed /\ ~header /\ Len(buf) = need
  /\ delivered' = Append(delivered, buf)
  /\ need' = U32 /\ header' = TRUE /\ buf' = <<>>
  /\ UNCHANGED <<writer, transit, connected, failed>>

\* mutant: the end of the stream ends the frame
unexpected_eof_partial ==
  /\ ~failed /\ Len(buf) < need /\ transit = <<>> /\ ~connected
  /\ failed' = TRUE
  /\ delivered' = IF header THEN delivered ELSE Append(delivered, buf)
  /\ UNCHANGED <<writer, transit, connected, need, header, buf>>

unexpected_eof ==
  /\ ~failed /\ Len(buf) < need /\ transit = <<>> /\ ~connected
  /\ failed' = TRUE
  /\ UNCHANGED <<writer, transit, connected, need, header, buf, delivered>>

(* The client's IO_TIMEOUT: what was read of a frame is dropped with it.   *)
read_timeout ==
  /\ ~failed /\ Len(buf) < need
  /\ failed' = TRUE
  /\ UNCHANGED <<writer, transit, connected, need, header, buf, delivered>>

----------------------------------------------------------------------------
FrameReader == read_piece \/ length_read \/ payload_read \/ unexpected_eof

StreamNext ==
  \/ write_piece \/ disconnect \/ FrameReader \/ read_timeout
  \/ \E p \in Payloads : write_frame(p)

(* A stream that is up takes and hands over bytes, a thread that can go on *)
(* does.  Nothing is assumed of disconnections and time-outs.              *)
StreamSpec ==
  /\ StreamInit /\ [][StreamNext]_streamvars
  /\ WF_streamvars(write_piece) /\ WF_streamvars(FrameReader)

----------------------------------------------------------------------------
(* The reader never holds more than the frame it was promised, and never   *)
(* waits for more than the cap.                                            *)
StreamTypeOK ==
  /\ calls \in 0..MaxFrames /\ connected \in BOOLEAN /\ failed \in BOOLEAN /\ header \in BOOLEAN
  /\ need \in 0..(IF header THEN U32 ELSE MAX_FRAME) /\ Len(buf) <= need

Channel == INSTANCE FrameChannel

(* Whole frames, in order, none twice and none made up, whatever the       *)
(* pieces; a frame that was offered arrives unless the reader fails.       *)
ImplementsChannel == Channel!Spec

(* The client works with the salt, sizes and zone the server announced or  *)
(* with none: no cut of a reply decodes to something else, bytes behind it *)
(* change nothing, and a whole reply is refused for its name only.         *)
InfoOrError ==
  \A i \in DOMAIN delivered :
    decode_info(delivered[i]) =
      {r \in Infos : IsPrefix(encode_info(r), delivered[i]) /\ utf8(r.zone_name)}

=============================================================================
