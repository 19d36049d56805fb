----------------------------- MODULE PirService -----------------------------
(***************************************************************************)
(* What a client may expect of a name server, restarts and networks aside: *)
(* a session is told of one build, every answer in it is the answer to the *)
(* last question, from that build, and a question is answered or fails.    *)
(***************************************************************************)
EXTENDS Integers

CONSTANTS Clients, MaxBuilds, MaxQueries, None

VARIABLES
  build, \* the newest build
  phase, \* each client: "out", "waiting" for the server, "holding" a session
  told,  \* the build its session was told of
  asked, \* its questions in the session
  got    \* the last answer in the session

vars == <<build, phase, told, asked, got>>

Init ==
  /\ build = 1
  /\ phase = [c \in Clients |-> "out"] /\ told = [c \in Clients |-> None]
  /\ asked = [c \in Clients |-> 0] /\ got = [c \in Clients |-> None]

Rebuild ==
  /\ build < MaxBuilds /\ build' = build + 1
  /\ UNCHANGED <<phase, told, asked, got>>

Open(c) ==
  /\ phase[c] = "out" /\ phase' = [phase EXCEPT ![c] = "waiting"]
  /\ told' = [told EXCEPT ![c] = None]
  /\ asked' = [asked EXCEPT ![c] = 0] /\ got' = [got EXCEPT ![c] = None]
  /\ UNCHANGED build

(* The session's build is announced: its data is to follow, or questions   *)
(* may be asked, or it offers nothing this client takes.                   *)
Tell(c) ==
  /\ phase[c] = "waiting" /\ told[c] = None
  /\ \E b \in 1..build : told' = [told EXCEPT ![c] = b]
  /\ \E p \in {"waiting", "holding", "out"} : phase' = [phase EXCEPT ![c] = p]
  /\ UNCHANGED <<build, asked, got>>

Ask(c) ==
  /\ phase[c] = "holding" /\ asked[c] < MaxQueries
  /\ phase' = [phase EXCEPT ![c] = "waiting"]
  /\ asked' = [asked EXCEPT ![c] = @ + 1]
  /\ UNCHANGED <<build, told, got>>

Answer(c) ==
  /\ phase[c] = "waiting" /\ told[c] # None
  /\ got' = [got EXCEPT ![c] = [id |-> asked[c], build |-> told[c]]]
  /\ phase' = [phase EXCEPT ![c] = IF asked[c] = 0 THEN "out" ELSE "holding"]
  /\ UNCHANGED <<build, told, asked>>

Fail(c) ==
  /\ phase[c] = "waiting" /\ phase' = [phase EXCEPT ![c] = "out"]
  /\ UNCHANGED <<build, told, asked, got>>

Leave(c) ==
  /\ phase[c] = "holding" /\ phase' = [phase EXCEPT ![c] = "out"]
  /\ UNCHANGED <<build, told, asked, got>>

Next ==
  \/ Rebuild
  \/ \E c \in Clients : Open(c) \/ Tell(c) \/ Ask(c) \/ Answer(c) \/ Fail(c) \/ Leave(c)

Spec ==
  /\ Init /\ [][Next]_vars
  /\ \A c \in Clients : WF_vars(Tell(c) \/ Answer(c) \/ Fail(c))

=============================================================================
