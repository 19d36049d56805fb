----------------------------- MODULE MC_Session -----------------------------
(***************************************************************************)
(* One client opens a second session after the first ended or failed; the  *)
(* other one has a single session at any time beside it.                   *)
(***************************************************************************)
EXTENDS Session

CONSTANTS c1, c2

MC_MaxSessions == [c \in {c1, c2} |-> IF c = c1 THEN 2 ELSE 1]

=============================================================================
