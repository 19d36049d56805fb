----------------------------- MODULE ZoneLookup -----------------------------
(***************************************************************************)
(* What a DNS-over-PIR server promises: it either refuses to start, or it  *)
(* serves, for every name of its zone, exactly the records the zone holds  *)
(* for that name, and keeps serving them unchanged.                        *)
(***************************************************************************)
CONSTANTS
  Zone,          \* the names of the zone
  RecordsOf,     \* the records of each name, in the order they are served
  NoAnswers

VARIABLES
  status,        \* "starting", "serving" or "failed"
  answers        \* NoAnswers, or what a lookup of each name returns

Init == status = "starting" /\ answers = NoAnswers

Serve ==
  /\ status = "starting"
  /\ status' = "serving"
  /\ answers' = [n \in Zone |-> RecordsOf[n]]

Refuse ==
  /\ status = "starting"
  /\ status' = "failed"
  /\ UNCHANGED answers

Next == Serve \/ Refuse

Spec == Init /\ [][Next]_<<status, answers>>

=============================================================================
