---------------------------- MODULE FrameChannel ----------------------------
(***************************************************************************)
(* What write_frame and read_frame promise together: the reader gets the   *)
(* frames that were written, whole and in order, until the channel fails.  *)
(***************************************************************************)
EXTENDS Integers, Sequences

CONSTANTS Payloads

VARIABLES
  offered,   \* frames handed to write_frame and accepted
  delivered, \* frames read_frame returned
  failed     \* the reader has given up

vars == <<offered, delivered, failed>>

Init == offered = <<>> /\ delivered = <<>> /\ failed = FALSE

offer(p) ==
  /\ offered' = Append(offered, p)
  /\ UNCHANGED <<delivered, failed>>

deliver ==
  /\ ~failed /\ Len(delivered) < Len(offered)
  /\ delivered' = Append(delivered, offered[Len(delivered) + 1])
  /\ UNCHANGED <<offered, failed>>

fail ==
  /\ ~failed
  /\ failed' = TRUE
  /\ UNCHANGED <<offered, delivered>>

Next == deliver \/ fail \/ \E p \in Payloads : offer(p)

(* A frame that is waiting is delivered unless the channel fails.          *)
Spec ==
  /\ Init /\ [][Next]_vars
  /\ WF_vars(Len(delivered) < Len(offered) /\ (deliver \/ fail))

=============================================================================
