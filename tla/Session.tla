------------------------------- MODULE Session -------------------------------
(***************************************************************************)
(* Clients talking to one server over TCP: INFO, then DUMP or any number   *)
(* of QUERY frames on the same connection (protocol.rs; HybridFactory      *)
(* ::connect and TcpDnsServer::query of client.rs; run and handle of       *)
(* server.rs).  The server may be killed and restarted with another zone   *)
(* build at any time, and a client's read may time out while the reply is  *)
(* still being computed.                                                   *)
(*                                                                         *)
(* A build stands for all the client must agree on with the server: salt,  *)
(* number of entries and contents.  A frame is its kind and the build it   *)
(* was made from or for; a query and its reply carry the query's number,   *)
(* which stands for the secret key only that query's reply decrypts under. *)
(***************************************************************************)
EXTENDS Integers, Sequences

CONSTANTS
  Clients,
  MaxBuilds,    \* bound: how often the server is started
  MaxSessions,  \* bound: connections of each client
  MaxQueries,   \* bound: queries per connection
  None

(* Dump-only zones are within or above the client's DUMP_FETCH_CAP_BYTES.  *)
Modes == {"pir", "dump", "big_dump"}

ASSUME SessionAssumption ==
  /\ MaxBuilds \in Nat \ {0} /\ MaxSessions \in [Clients -> Nat] /\ MaxQueries \in Nat \ {0}
  /\ None \notin Nat /\ None # "refused" /\ None \notin [build : Nat, mode : Modes]

Conns == UNION {{c} \X (1..MaxSessions[c]) : c \in Clients}

(* What a worker does: nothing, reading the next frame, or computing the   *)
(* reply to the query of that number.                                      *)
NoWorker == -1
Reading == 0

VARIABLES
  build,      \* number of the server process, its ServerState is fixed
  mode,       \* what that state offers
  up,         \* the process is listening
  conn,       \* each connection: "none", "open", "closed" by the client, "broken"
  req, rep,   \* frames in flight to the worker and to the client
  worker,     \* the worker thread of each connection
  pc,         \* where each client is
  info,       \* build and mode of the INFO reply the client holds
  asked,      \* queries sent on this connection
  sessions,   \* connections made
  got,        \* what the last completed query or dump returned
  cause       \* why the client failed, or None

server == <<build, mode, up>>
wire == <<conn, req, rep, worker>>
client == <<pc, info, asked, sessions, got, cause>>
vars == <<server, wire, client>>

Waiting == {"info", "dump", "query"}

has_dump(m) == m \in {"dump", "big_dump"}
has_pir(m) == m = "pir"
fetchable(m) == m = "dump"

Init ==
  /\ build = 1 /\ mode \in Modes /\ up = TRUE
  /\ conn = [k \in Conns |-> "none"]
  /\ req = [k \in Conns |-> <<>>]
  /\ rep = [k \in Conns |-> <<>>]
  /\ worker = [k \in Conns |-> NoWorker]
  /\ pc = [c \in Clients |-> "idle"]
  /\ info = [c \in Clients |-> None]
  /\ asked = [c \in Clients |-> 0]
  /\ sessions = [c \in Clients |-> 0]
  /\ got = [c \in Clients |-> None]
  /\ cause = [c \in Clients |-> None]

----------------------------------------------------------------------------
(* The server.                                                             *)

(* The process dies: every connection breaks and every worker is gone.     *)
(* What already travelled to a client may still be read.                   *)
crash ==
  /\ up
  /\ up' = FALSE
  /\ conn' = [k \in Conns |-> IF conn[k] = "open" THEN "broken" ELSE conn[k]]
  /\ req' = [k \in Conns |-> <<>>]
  /\ worker' = [k \in Conns |-> NoWorker]
  /\ UNCHANGED <<build, mode, rep, client>>

restart(m) ==
  /\ ~up /\ build < MaxBuilds
  /\ build' = build + 1 /\ mode' = m /\ up' = TRUE
  /\ UNCHANGED <<wire, client>>

reply(k, frame) == rep' = [rep EXCEPT ![k] = Append(@, frame)]

UNAVAILABLE == [kind |-> "unavailable", build |-> build, id |-> 0]

(* One frame of handle's loop.  A PIR query takes time to compute.         *)
handle(k) ==
  /\ worker[k] = Reading /\ req[k] # <<>>
  /\ req' = [req EXCEPT ![k] = Tail(@)]
  /\ LET r == Head(req[k])
     IN  \/ /\ r.cmd = "INFO"
            /\ reply(k, [kind |-> "INFO", build |-> build, mode |-> mode, id |-> 0])
            /\ UNCHANGED worker
         \/ /\ r.cmd = "DUMP"
            /\ reply(k, IF has_dump(mode) THEN [kind |-> "DUMP", build |-> build, id |-> 0]
                                          ELSE UNAVAILABLE)
            /\ UNCHANGED worker
         \/ /\ r.cmd = "QUERY"
            /\ IF has_pir(mode)
               THEN worker' = [worker EXCEPT ![k] = r.id] /\ UNCHANGED rep
               ELSE reply(k, UNAVAILABLE) /\ UNCHANGED worker
  /\ UNCHANGED <<server, conn, client>>

(* process_query returns and the reply is written.  Writing to a socket    *)
(* the client has closed fails and ends the worker.                        *)
process_query(k) ==
  /\ worker[k] > Reading
  /\ IF conn[k] = "open"
     THEN /\ reply(k, [kind |-> "QUERY", build |-> build, id |-> worker[k]])
          /\ worker' = [worker EXCEPT ![k] = Reading]
     ELSE /\ worker' = [worker EXCEPT ![k] = NoWorker]
          /\ UNCHANGED rep
  /\ UNCHANGED <<server, conn, req, client>>

\* mutant: the end of the stream is taken for a frame that is still to come
end_of_stream_ignored(k) ==
  /\ worker[k] = Reading /\ conn[k] = "closed" /\ req[k] = <<>>
  /\ UNCHANGED vars

(* The peer has closed: read_frame's UnexpectedEof ends the worker.        *)
end_of_stream(k) ==
  /\ worker[k] = Reading /\ conn[k] = "closed" /\ req[k] = <<>>
  /\ worker' = [worker EXCEPT ![k] = NoWorker]
  /\ UNCHANGED <<server, conn, req, rep, client>>

----------------------------------------------------------------------------
(* A client.                                                               *)

(* The connection of the client's current session.                         *)
at(c) == <<c, sessions[c]>>

send(c, frame) == req' = [req EXCEPT ![at(c)] = Append(@, frame)]

fail(c, why) ==
  /\ pc' = [pc EXCEPT ![c] = "failed"]
  /\ cause' = [cause EXCEPT ![c] = why]

close(c) == conn' = [conn EXCEPT ![at(c)] = "closed"]

(* A new connection; the socket of an earlier session is never used again. *)
connect(c) ==
  LET k == <<c, sessions[c] + 1>>
  IN  /\ pc[c] \in {"idle", "done", "failed"} /\ sessions[c] < MaxSessions[c]
      /\ up
      /\ sessions' = [sessions EXCEPT ![c] = @ + 1]
      /\ conn' = [conn EXCEPT ![k] = "open"]
      /\ req' = [req EXCEPT ![k] = <<[cmd |-> "INFO"]>>]
      /\ worker' = [worker EXCEPT ![k] = Reading]
      /\ pc' = [pc EXCEPT ![c] = "info"]
      /\ asked' = [asked EXCEPT ![c] = 0]
      /\ info' = [info EXCEPT ![c] = None]
      /\ got' = [got EXCEPT ![c] = None]
      /\ cause' = [cause EXCEPT ![c] = None]
      /\ UNCHANGED <<server, rep>>

connect_refused(c) ==
  /\ pc[c] \in {"idle", "done", "failed"} /\ sessions[c] < MaxSessions[c]
  /\ ~up
  /\ sessions' = [sessions EXCEPT ![c] = @ + 1]
  /\ fail(c, "unreachable")
  /\ UNCHANGED <<server, wire, info, asked, got>>

read(c) == rep[at(c)] # <<>> /\ rep' = [rep EXCEPT ![at(c)] = Tail(@)]

(* The rest of HybridFactory::connect: dump if offered and small, else     *)
(* PIR, else give up.                                                      *)
got_info(c) ==
  LET m == Head(rep[at(c)]).mode
  IN  /\ pc[c] = "info" /\ read(c)
      /\ info' = [info EXCEPT ![c] = [build |-> Head(rep[at(c)]).build, mode |-> m]]
      /\ \/ /\ has_dump(m) /\ fetchable(m)
            /\ pc' = [pc EXCEPT ![c] = "dump"]
            /\ IF conn[at(c)] = "open" THEN send(c, [cmd |-> "DUMP"]) ELSE UNCHANGED req
            /\ UNCHANGED <<conn, cause>>
         \/ /\ ~(has_dump(m) /\ fetchable(m)) /\ has_pir(m)
            /\ pc' = [pc EXCEPT ![c] = "ready"]
            /\ UNCHANGED <<conn, req, cause>>
         \/ /\ ~(has_dump(m) /\ fetchable(m)) /\ ~has_pir(m)
            /\ fail(c, "no_service")
            /\ close(c)
            /\ UNCHANGED req
      /\ UNCHANGED <<server, worker, asked, sessions, got>>

got_dump(c) ==
  LET f == Head(rep[at(c)])
  IN  /\ pc[c] = "dump" /\ read(c)
      /\ close(c)
      /\ IF f.kind = "unavailable"
         THEN fail(c, "refused") /\ UNCHANGED got
         ELSE /\ got' = [got EXCEPT ![c] = [id |-> f.id, build |-> f.build]]
              /\ pc' = [pc EXCEPT ![c] = "done"]
              /\ UNCHANGED cause
      /\ UNCHANGED <<server, req, worker, info, asked, sessions>>

(* TcpDnsServer::query: the query is prepared from the INFO of this        *)
(* connection and sent on it.                                              *)
query(c) ==
  /\ pc[c] = "ready" /\ asked[c] < MaxQueries
  /\ asked' = [asked EXCEPT ![c] = @ + 1]
  /\ pc' = [pc EXCEPT ![c] = "query"]
  /\ IF conn[at(c)] = "open"
     THEN send(c, [cmd |-> "QUERY", id |-> asked[c] + 1]) ELSE UNCHANGED req
  /\ UNCHANGED <<server, conn, rep, worker, info, sessions, got, cause>>

got_reply(c) ==
  LET f == Head(rep[at(c)])
  IN  /\ pc[c] = "query" /\ read(c)
      /\ IF f.kind = "unavailable"
         THEN fail(c, "refused") /\ close(c) /\ UNCHANGED got
         ELSE /\ got' = [got EXCEPT ![c] = [id |-> f.id, build |-> f.build]]
              /\ pc' = [pc EXCEPT ![c] = "ready"]
              /\ UNCHANGED <<conn, cause>>
      /\ UNCHANGED <<server, req, worker, info, asked, sessions>>

\* mutant: after a time-out the next query is sent on the same connection
io_timeout_keep_stream(c) ==
  /\ pc[c] \in Waiting
  /\ pc' = [pc EXCEPT ![c] = IF @ = "query" THEN "ready" ELSE @]
  /\ UNCHANGED <<server, wire, info, asked, sessions, got, cause>>

(* A read or write that exceeds IO_TIMEOUT is an error of the whole hop.   *)
io_timeout(c) ==
  /\ pc[c] \in Waiting
  /\ fail(c, "timeout")
  /\ close(c)
  /\ UNCHANGED <<server, req, rep, worker, info, asked, sessions, got>>

connection_lost(c) ==
  /\ pc[c] \in Waiting /\ conn[at(c)] = "broken"
  /\ fail(c, "lost")
  /\ close(c)
  /\ UNCHANGED <<server, req, rep, worker, info, asked, sessions, got>>

(* The hop is over: the server object and its socket are dropped.          *)
drop(c) ==
  /\ pc[c] = "ready"
  /\ pc' = [pc EXCEPT ![c] = "done"]
  /\ close(c)
  /\ UNCHANGED <<server, req, rep, worker, info, asked, sessions, got, cause>>

----------------------------------------------------------------------------
Worker(k) == handle(k) \/ process_query(k) \/ end_of_stream(k)

Reader(c) == got_info(c) \/ got_dump(c) \/ got_reply(c) \/ connection_lost(c)

Next ==
  \/ crash
  \/ \E m \in Modes : restart(m)
  \/ \E k \in Conns : Worker(k)
  \/ \E c \in Clients :
       Reader(c) \/ connect(c) \/ connect_refused(c) \/ query(c)
         \/ io_timeout(c) \/ drop(c)

(* Each worker is a thread of its own, and a client that waits reads what  *)
(* arrives.  Nothing is assumed of time-outs, crashes or new connections.  *)
Spec == /\ Init /\ [][Next]_vars
        /\ \A k \in Conns : WF_vars(Worker(k))
        /\ \A c \in Clients : WF_vars(Reader(c))

----------------------------------------------------------------------------
Requests == [cmd : {"INFO", "DUMP"}] \cup [cmd : {"QUERY"}, id : 1..MaxQueries]
Replies ==
  [kind : {"INFO"}, build : 1..MaxBuilds, mode : Modes, id : {0}]
    \cup [kind : {"DUMP", "QUERY", "unavailable"}, build : 1..MaxBuilds, id : 0..MaxQueries]

(* The state has its type, and request and reply strictly alternate on a   *)
(* connection: never more than one frame is under way in a direction.      *)
TypeOK ==
  /\ build \in 1..MaxBuilds /\ mode \in Modes /\ up \in BOOLEAN
  /\ conn \in [Conns -> {"none", "open", "closed", "broken"}]
  /\ req \in [Conns -> Seq(Requests)] /\ rep \in [Conns -> Seq(Replies)]
  /\ \A k \in Conns : Len(req[k]) <= 1 /\ Len(rep[k]) <= 1
  /\ worker \in [Conns -> NoWorker..MaxQueries]
  /\ pc \in [Clients -> {"idle", "ready", "done", "failed"} \cup Waiting]
  /\ info \in [Clients -> {None} \cup [build : 1..build, mode : Modes]]
  /\ asked \in [Clients -> 0..MaxQueries]
  /\ sessions \in [Clients -> Nat] /\ \A c \in Clients : sessions[c] <= MaxSessions[c]
  /\ got \in [Clients -> {None} \cup [id : 0..MaxQueries, build : 1..build]]
  /\ cause \in [Clients -> {None, "unreachable", "no_service", "refused", "timeout", "lost"}]

(* A completed query holds the reply to itself, never a late reply to an   *)
(* earlier query, and a reply or dump comes from the very build whose salt *)
(* and size the client was told: no restart lies between INFO and answer.  *)
(* What INFO advertised is served: RESP_UNAVAILABLE is never met.          *)
ReplyMatchesRequest ==
  \A c \in Clients :
    /\ got[c] # None /\ pc[c] \in {"ready", "done"} =>
         got[c].build = info[c].build /\ got[c].id = asked[c]
    /\ cause[c] # "refused"

(* The abstract service: connections, frames, workers and the ways to fail *)
(* are hidden.                                                             *)
Service == INSTANCE PirService WITH
  phase <- [c \in Clients |-> IF pc[c] \in Waiting THEN "waiting"
                              ELSE IF pc[c] = "ready" THEN "holding" ELSE "out"],
  told <- [c \in Clients |-> IF info[c] = None THEN None ELSE info[c].build]

(* Sessions implement the service: one build per session, an answer only   *)
(* to the last question and from that build, and every wait ends, all      *)
(* across time-outs, lost connections and restarts with another build.     *)
ImplementsService == Service!Spec

(* A worker thread ends once its client has closed the connection, also    *)
(* when it was computing a reply at that moment.                           *)
WorkersExit ==
  \A k \in Conns : conn[k] = "closed" /\ worker[k] # NoWorker ~> worker[k] = NoWorker

=============================================================================
