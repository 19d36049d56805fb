------------------------------ MODULE WireStream ------------------------------
(***************************************************************************)
(* The bytes of a PIR query or reply (pir_wrapper.rs): sections of         *)
(* coefficients of different widths are packed one behind the other        *)
(* (condense) and read back by position (uncondense).  There is no length  *)
(* or marker on the wire, so each section must be exactly as long as the   *)
(* reader of the next one takes it to be.                                  *)
(***************************************************************************)
EXTENDS Integers, Sequences, SequencesExt

bits_of(x, from, width) == (x \div 2^from) % 2^width

\* mutant: the last fragment of a width is left out
has_fragment_strict(bits, w) == bits % (2 * w) > w

(* After the whole bytes a width leaves a fragment of 4 bits, one of 2 and *)
(* one of 1, as the binary digits of bits % 8 say.                         *)
has_fragment(bits, w) == bits % (2 * w) >= w

fragment_offset(bits, w) == (bits \div (2 * w)) * (2 * w)

(* One byte per value and whole byte of the width, least significant       *)
(* plane first.                                                            *)
planes(bits, data) ==
  FlattenSeq([i \in 1..(bits \div 8) |->
    [k \in 1..Len(data) |-> bits_of(data[k], 8 * (i - 1), 8)]])

(* Fragments of w bits, 8 / w values to a byte, the last one at the bottom. *)
packed(bits, w, data) ==
  LET per == 8 \div w
      part(c, i) == bits_of(data[per * c - i], fragment_offset(bits, w), w)
  IN  [c \in 1..(Len(data) \div per) |->
         SumFunction([i \in 0..(per - 1) |-> part(c, i) * 2^(w * i)])]

fragments(bits, w, data) == IF has_fragment(bits, w) THEN packed(bits, w, data) ELSE <<>>

condense(bits, data) ==
  planes(bits, data) \o fragments(bits, 4, data)
    \o fragments(bits, 2, data) \o fragments(bits, 1, data)

(* Bytes of the fragments of w bits of count values, and of all that       *)
(* uncondense takes.                                                       *)
fragment_bytes(bits, w, count) ==
  IF has_fragment(bits, w) THEN count \div (8 \div w) ELSE 0

taken(bits, count) ==
  (bits \div 8) * count
    + fragment_bytes(bits, 4, count) + fragment_bytes(bits, 2, count) + fragment_bytes(bits, 1, count)

(* A byte of a plane holds bits of one value, a byte of fragments those of *)
(* 8 / w values.                                                           *)
read_fragment(bits, w, k, start, data) ==
  LET per == 8 \div w
      byte == data[start + ((k - 1) \div per) + 1]
      place == (per - 1) - ((k - 1) % per)
  IN  IF has_fragment(bits, w)
      THEN bits_of(byte, w * place, w) * 2^fragment_offset(bits, w) ELSE 0

uncondense(bits, count, data) ==
  LET start4 == (bits \div 8) * count
      start2 == start4 + fragment_bytes(bits, 4, count)
      start1 == start2 + fragment_bytes(bits, 2, count)
  IN  [k \in 1..count |->
         SumFunction([i \in 0..((bits \div 8) - 1) |-> data[i * count + k] * 2^(8 * i)])
           + read_fragment(bits, 4, k, start4, data)
           + read_fragment(bits, 2, k, start2, data)
           + read_fragment(bits, 1, k, start1, data)]

----------------------------------------------------------------------------
(* A stream of sections, each a width and its values, and where the k-th   *)
(* section starts for a reader that knows the widths and the count.        *)
packed_stream(sections) ==
  FlattenSeq([k \in DOMAIN sections |-> condense(sections[k].bits, sections[k].data)])

section_start(widths, count, k) ==
  SumFunction([j \in 1..(k - 1) |-> taken(widths[j], count)])

section(widths, count, k, stream) ==
  LET start == section_start(widths, count, k)
  IN  uncondense(widths[k], count, SubSeq(stream, start + 1, start + taken(widths[k], count)))

=============================================================================
