---------------------------- MODULE SessionProofs ----------------------------
(***************************************************************************)
(* Proofs about Session, for any number of clients, server builds,         *)
(* connections and queries: whatever the order of replies, time-outs,      *)
(* crashes and restarts, a client takes only the reply to its own last     *)
(* request, from the build it was told of, and the exchange of frames      *)
(* implements the safety part of PirService.                               *)
(*                                                                         *)
(* And about Protocol, the layer below: the bytes of a connection, in      *)
(* pieces of any size and cut anywhere, implement the safety part of       *)
(* FrameChannel, the queue of whole frames that Session builds on.         *)
(* An INFO reply on such a stream decodes to what was encoded or is an     *)
(* error, for every width of its numbers.                                  *)
(***************************************************************************)
EXTENDS Session, Protocol, FiniteSetTheorems, SequenceTheorems, NaturalsInduction,
        WellFoundedInduction, TLAPS

----------------------------------------------------------------------------
(* The inductive invariant.  Link relates the two ends of the connection   *)
(* of one client: b and m are the server's build and mode, cn, rq, rp and  *)
(* w the connection, p, i and a the client.  It is stated for the values,  *)
(* not for the variables: a step elsewhere leaves them alone.              *)

Active == Waiting \cup {"ready"}

Request(p, a) ==
  IF p = "info" THEN [cmd |-> "INFO"]
  ELSE IF p = "dump" THEN [cmd |-> "DUMP"]
  ELSE [cmd |-> "QUERY", id |-> a]

(* f answers the request the client waits for.                             *)
Expected(b, m, cn, p, i, a, f) ==
  /\ p = "info" => /\ f.kind = "INFO" /\ f.build <= b
                   /\ cn = "open" => f.build = b /\ f.mode = m
  /\ p = "dump" => f.kind = "DUMP" /\ f.build = i.build /\ f.id = a
  /\ p = "query" => f.kind = "QUERY" /\ f.build = i.build /\ f.id = a

Link(b, m, cn, rq, rp, w, p, i, a) ==
  /\ cn \in {"open", "broken"}
  /\ p = "info" <=> i = None
  /\ p \in {"info", "dump"} => a = 0
  /\ p = "query" => a > 0
  /\ p = "dump" => has_dump(i.mode)
  /\ p \in {"ready", "query"} => has_pir(i.mode)
  /\ cn = "open" /\ i # None => i.build = b /\ i.mode = m
  /\ rq # <<>> => p \in Waiting /\ rq = <<Request(p, a)>>
  /\ rp # <<>> => p \in Waiting /\ Expected(b, m, cn, p, i, a, rp[1])
  /\ w > Reading => p = "query" /\ w = a

(* The exchange of a client that has a session.                            *)
Linked(c) ==
  pc[c] \in Active =>
    /\ sessions[c] > 0
    /\ Link(build, mode, conn[at(c)], req[at(c)], rep[at(c)], worker[at(c)],
            pc[c], info[c], asked[c])

(* Of a connection: at most one frame is under way, in either direction or *)
(* as a query being computed, and only a live process has open ones.       *)
Wired(u, cn, rq, rp, w) ==
  /\ Len(rq) <= 1 /\ Len(rp) <= 1
  /\ rq # <<>> => rp = <<>> /\ w <= Reading
  /\ rp # <<>> => w <= Reading
  /\ cn = "open" => u
  /\ cn = "broken" => rq = <<>> /\ w = NoWorker
  /\ cn = "none" => rq = <<>> /\ rp = <<>> /\ w = NoWorker

(* Connections not made yet.                                               *)
Unused == \A c \in Clients : \A s \in 1..MaxSessions[c] : s > sessions[c] => conn[<<c, s>>] = "none"

Matches(c) ==
  /\ pc[c] = "info" => got[c] = None
  /\ got[c] # None /\ pc[c] \in {"ready", "done"} =>
       got[c].build = info[c].build /\ got[c].id = asked[c]
  /\ cause[c] # "refused"

Inv ==
  /\ TypeOK
  /\ \A k \in Conns : Wired(up, conn[k], req[k], rep[k], worker[k])
  /\ Unused
  /\ \A c \in Clients : Linked(c)
  /\ \A c \in Clients : Matches(c)

----------------------------------------------------------------------------
(* Connections are named by their client and its session number.           *)
LEMMA ConnsArePairs ==
  /\ \A c \in Clients : \A s \in 1..MaxSessions[c] : <<c, s>> \in Conns
  /\ \A k \in Conns : \E c \in Clients : \E s \in 1..MaxSessions[c] : k = <<c, s>>
  BY DEF Conns

(* The connection of a client's session exists.                            *)
LEMMA AtIsConn ==
  ASSUME TypeOK, NEW c \in Clients, sessions[c] > 0
  PROVE  at(c) \in Conns
<1>1. sessions[c] \in 1..MaxSessions[c]
  BY SessionAssumption DEF TypeOK
<1> QED BY <1>1, ConnsArePairs DEF at

(* Sequences of at most one frame.                                         *)
LEMMA ShortSeq ==
  ASSUME NEW S, NEW s \in Seq(S), Len(s) <= 1, s # <<>>
  PROVE  s = <<s[1]>> /\ s[1] \in S /\ Head(s) = s[1] /\ Tail(s) = <<>>
<1>1. Len(s) = 1
  <2>1. Len(s) \in Nat \ {0}
    BY EmptySeq, Zenon
  <2> QED BY <2>1, SMTT(30)
<1>2. s[1] \in S /\ Head(s) = s[1]
  BY <1>1
<1>3. s = <<s[1]>>
  BY <1>1, <1>2
<1>4. Tail(s) = <<>>
  <2>1. Tail(s) \in Seq(S) /\ Len(Tail(s)) = Len(s) - 1
    BY HeadTailProperties, Zenon
  <2>2. Tail(s) # <<>> => Len(Tail(s)) \in Nat \ {0}
    BY <2>1, EmptySeq, Zenon
  <2> QED BY <1>1, <2>1, <2>2
<1> QED BY <1>2, <1>3, <1>4

(* A queue of one frame.                                                   *)
LEMMA SingleFrame ==
  ASSUME NEW S, NEW f \in S
  PROVE  /\ Append(<<>>, f) = <<f>> /\ <<f>> \in Seq(S) /\ <<>> \in Seq(S)
         /\ <<f>>[1] = f /\ Len(<<f>>) = 1 /\ <<f>> # <<>> /\ Len(<<>>) = 0
  OBVIOUS

(* The command of a frame tells what its client waits for.                 *)
LEMMA RequestOf ==
  ASSUME NEW p \in Waiting, NEW a
  PROVE  /\ Request(p, a).cmd = "INFO" => p = "info"
         /\ Request(p, a).cmd = "DUMP" => p = "dump"
         /\ Request(p, a).cmd = "QUERY" => p = "query" /\ Request(p, a).id = a
<1>1. CASE p = "info"
  BY <1>1 DEF Request
<1>2. CASE p = "dump"
  BY <1>2 DEF Request
<1>3. CASE p = "query"
  BY <1>3 DEF Request
<1> QED BY <1>1, <1>2, <1>3 DEF Waiting

(* The property the runs check is the part Matches of the invariant.       *)
LEMMA InvImpliesProperty == Inv => ReplyMatchesRequest
  BY DEF Inv, Matches, ReplyMatchesRequest

(* The invariant holds before any connection.                              *)
LEMMA InitInv == Init => Inv
<1> SUFFICES ASSUME Init PROVE Inv
  OBVIOUS
<1>1. TypeOK
  BY SessionAssumption DEF Init, TypeOK, NoWorker
<1>2. \A k \in Conns : Wired(up, conn[k], req[k], rep[k], worker[k])
  BY DEF Init, Wired, NoWorker, Reading
<1>3. Unused
  BY ConnsArePairs DEF Init, Unused
<1>4. \A c \in Clients : Linked(c) /\ Matches(c)
  BY SessionAssumption DEF Init, Linked, Matches, Active, Waiting
<1> QED BY <1>1, <1>2, <1>3, <1>4 DEF Inv

----------------------------------------------------------------------------
(* A step of the worker of connection k concerns k and the client at its   *)
(* other end only.                                                         *)
LEMMA WorkerStep ==
  ASSUME Inv, NEW k \in Conns, UNCHANGED <<server, conn, client>>,
         req' \in [Conns -> Seq(Requests)], rep' \in [Conns -> Seq(Replies)],
         worker' \in [Conns -> NoWorker..MaxQueries],
         \A j \in Conns : j # k =>
           req'[j] = req[j] /\ rep'[j] = rep[j] /\ worker'[j] = worker[j],
         Wired(up, conn[k], req'[k], rep'[k], worker'[k]),
         \A c \in Clients : pc[c] \in Active /\ at(c) = k =>
           Link(build, mode, conn[k], req'[k], rep'[k], worker'[k], pc[c], info[c], asked[c])
  PROVE  Inv'
<1>0. TypeOK
  BY DEF Inv
<1>1. \A j \in Conns : Wired(up', conn'[j], req'[j], rep'[j], worker'[j])
  BY DEF Inv, server, client
<1>2. TypeOK'
  BY <1>0, <1>1 DEF TypeOK, Wired, server, client
<1>3. Unused'
  BY DEF Inv, Unused, client
<1>4. ASSUME NEW c \in Clients PROVE Linked(c)'
  <2> SUFFICES ASSUME pc[c] \in Active
               PROVE  /\ sessions[c] > 0
                      /\ Link(build, mode, conn[at(c)], req'[at(c)], rep'[at(c)],
                              worker'[at(c)], pc[c], info[c], asked[c])
    BY DEF Linked, at, server, client
  <2>1. Linked(c)
    BY DEF Inv
  <2>2. sessions[c] > 0 /\ at(c) \in Conns
    BY <1>0, <2>1, AtIsConn DEF Linked
  <2> QED BY <2>1, <2>2 DEF Linked
<1>5. \A c \in Clients : Matches(c)'
  BY DEF Inv, Matches, client
<1> QED BY <1>1, <1>2, <1>3, <1>4, <1>5 DEF Inv

(* A step of client c concerns that client and the connection of its       *)
(* session, which may be a new one.                                        *)
LEMMA ClientStep ==
  ASSUME Inv, NEW c \in Clients, UNCHANGED server, TypeOK',
         \A d \in Clients : d # c =>
           /\ pc'[d] = pc[d] /\ info'[d] = info[d] /\ asked'[d] = asked[d]
           /\ sessions'[d] = sessions[d] /\ got'[d] = got[d] /\ cause'[d] = cause[d],
         \A j \in Conns : j # <<c, sessions'[c]>> =>
           conn'[j] = conn[j] /\ req'[j] = req[j] /\ rep'[j] = rep[j] /\ worker'[j] = worker[j],
         sessions'[c] >= sessions[c],
         LET k == <<c, sessions'[c]>>
         IN  k \in Conns => Wired(up, conn'[k], req'[k], rep'[k], worker'[k]),
         Linked(c)', Matches(c)'
  PROVE  Inv'
<1>0. TypeOK
  BY DEF Inv
<1>1. \A j \in Conns : Wired(up', conn'[j], req'[j], rep'[j], worker'[j])
  BY DEF Inv, server
<1>2. Unused'
  <2> SUFFICES ASSUME NEW d \in Clients, NEW s \in 1..MaxSessions[d], s > sessions'[d]
               PROVE  conn'[<<d, s>>] = "none"
    BY DEF Unused
  <2>1. <<d, s>> \in Conns /\ <<d, s>> # <<c, sessions'[c]>>
    BY ConnsArePairs
  <2>2. s > sessions[d]
    <3>1. sessions[d] \in Nat /\ sessions'[d] \in Nat /\ MaxSessions[d] \in Nat
      BY <1>0, SessionAssumption DEF TypeOK
    <3>2. sessions'[d] >= sessions[d]
      BY <3>1
    <3> QED BY <3>1, <3>2
  <2>3. conn[<<d, s>>] = "none"
    BY <2>2 DEF Inv, Unused
  <2> QED BY <2>1, <2>3
<1>3. ASSUME NEW d \in Clients PROVE Linked(d)'
  <2>1. CASE d = c
    BY <2>1
  <2>2. CASE d # c
    <3> SUFFICES ASSUME pc[d] \in Active
                 PROVE  /\ sessions[d] > 0
                        /\ Link(build, mode, conn'[at(d)], req'[at(d)], rep'[at(d)],
                                worker'[at(d)], pc[d], info[d], asked[d])
      BY <2>2 DEF Linked, at, server
    <3>1. Linked(d)
      BY DEF Inv
    <3>2. sessions[d] > 0 /\ at(d) \in Conns
      BY <1>0, <3>1, AtIsConn DEF Linked
    <3>3. at(d) # <<c, sessions'[c]>>
      BY <2>2 DEF at
    <3> QED BY <3>1, <3>2, <3>3 DEF Linked
  <2> QED BY <2>1, <2>2
<1>4. \A d \in Clients : Matches(d)'
  BY DEF Inv, Matches
<1> QED BY <1>1, <1>2, <1>3, <1>4 DEF Inv

(* handle reads one request and answers it or starts the query.            *)
LEMMA HandleInv == ASSUME Inv, NEW k \in Conns, handle(k) PROVE Inv'
<1> USE DEF Reading, NoWorker
<1>0. TypeOK /\ Wired(up, conn[k], req[k], rep[k], worker[k])
  BY DEF Inv
<1> DEFINE r == Head(req[k])
<1>1. req[k] = <<r>> /\ r \in Requests /\ Tail(req[k]) = <<>> /\ req[k] \in Seq(Requests)
  <2>1. req[k] \in Seq(Requests) /\ Len(req[k]) <= 1 /\ req[k] # <<>>
    BY <1>0 DEF TypeOK, handle
  <2> QED BY <2>1, ShortSeq
<1>2. rep[k] = <<>> /\ conn[k] \notin {"broken", "none"}
  BY <1>0, <1>1 DEF Wired, handle
<1>3. /\ req' = [req EXCEPT ![k] = <<>>] /\ req'[k] = <<>>
      /\ req' \in [Conns -> Seq(Requests)]
  <2>1. req \in [Conns -> Seq(Requests)] /\ <<>> \in Seq(Requests)
    BY <1>0, EmptySeq DEF TypeOK
  <2>2. req' = [req EXCEPT ![k] = <<>>]
    BY <1>1 DEF handle
  <2> QED BY <2>1, <2>2
<1>4. \A c \in Clients : pc[c] \in Active /\ at(c) = k =>
        /\ pc[c] \in Waiting /\ r = Request(pc[c], asked[c]) /\ conn[k] = "open"
        /\ Link(build, mode, conn[k], req[k], rep[k], worker[k], pc[c], info[c], asked[c])
  BY <1>1, <1>2 DEF Inv, Linked, Link
<1>5. CASE \E f \in Replies :
             /\ reply(k, f) /\ UNCHANGED worker
             /\ \A c \in Clients : pc[c] \in Active /\ at(c) = k =>
                  Expected(build, mode, conn[k], pc[c], info[c], asked[c], f)
  <2>1. PICK f \in Replies :
             /\ reply(k, f) /\ UNCHANGED worker
             /\ \A c \in Clients : pc[c] \in Active /\ at(c) = k =>
                  Expected(build, mode, conn[k], pc[c], info[c], asked[c], f)
    BY <1>5
  <2>2. rep' = [rep EXCEPT ![k] = <<f>>] /\ rep' \in [Conns -> Seq(Replies)] /\ rep'[k] = <<f>>
    BY <1>0, <1>2, <2>1, SingleFrame DEF reply, TypeOK
  <2>3. Wired(up, conn[k], req'[k], rep'[k], worker'[k])
    BY <1>0, <1>2, <1>3, <2>1, <2>2, SingleFrame DEF Wired, handle
  <2>4. ASSUME NEW c \in Clients, pc[c] \in Active, at(c) = k
        PROVE Link(build, mode, conn[k], req'[k], rep'[k], worker'[k], pc[c], info[c], asked[c])
    BY <1>3, <1>4, <2>1, <2>2, <2>4 DEF Link, handle
  <2> QED BY <1>0, <1>3, <2>1, <2>2, <2>3, <2>4, WorkerStep DEF handle, TypeOK
<1>6. CASE r.cmd = "INFO" /\ reply(k, [kind |-> "INFO", build |-> build, mode |-> mode, id |-> 0])
             /\ UNCHANGED worker
  <2> DEFINE f == [kind |-> "INFO", build |-> build, mode |-> mode, id |-> 0]
  <2>1. f \in Replies
    BY <1>0 DEF Replies, TypeOK
  <2>2. ASSUME NEW c \in Clients, pc[c] \in Active, at(c) = k
        PROVE  Expected(build, mode, conn[k], pc[c], info[c], asked[c], f)
    BY <1>0, <1>4, <1>6, <2>2, RequestOf DEF Expected, TypeOK
  <2> QED BY <1>5, <1>6, <2>1, <2>2
<1>7. CASE r.cmd = "DUMP" /\ UNCHANGED worker
             /\ reply(k, IF has_dump(mode) THEN [kind |-> "DUMP", build |-> build, id |-> 0]
                                            ELSE UNAVAILABLE)
  <2> DEFINE f == IF has_dump(mode) THEN [kind |-> "DUMP", build |-> build, id |-> 0]
                                    ELSE UNAVAILABLE
  <2>1. f \in Replies
    BY <1>0, SessionAssumption DEF Replies, TypeOK, UNAVAILABLE
  <2>2. ASSUME NEW c \in Clients, pc[c] \in Active, at(c) = k
        PROVE  Expected(build, mode, conn[k], pc[c], info[c], asked[c], f)
    <3>1. pc[c] = "dump"
      BY <1>4, <1>7, <2>2, RequestOf
    <3>2. info[c].build = build /\ has_dump(mode) /\ asked[c] = 0
      BY <1>4, <2>2, <3>1 DEF Link
    <3> QED BY <3>1, <3>2 DEF Expected
  <2> QED BY <1>5, <1>7, <2>1, <2>2
<1>8. CASE r.cmd = "QUERY" /\ ~has_pir(mode) /\ reply(k, UNAVAILABLE) /\ UNCHANGED worker
  <2>1. UNAVAILABLE \in Replies
    BY <1>0, SessionAssumption DEF Replies, TypeOK, UNAVAILABLE
  <2>2. ASSUME NEW c \in Clients, pc[c] \in Active, at(c) = k
        PROVE  Expected(build, mode, conn[k], pc[c], info[c], asked[c], UNAVAILABLE)
    <3>1. pc[c] = "query"
      BY <1>4, <1>8, <2>2, RequestOf
    <3> QED BY <1>4, <1>8, <2>2, <3>1 DEF Link
  <2> QED BY <1>5, <1>8, <2>1, <2>2
<1>9. CASE r.cmd = "QUERY" /\ worker' = [worker EXCEPT ![k] = r.id] /\ UNCHANGED rep
  <2>1. r.id \in 1..MaxQueries
    BY <1>1, <1>9 DEF Requests
  <2>2. worker' \in [Conns -> NoWorker..MaxQueries] /\ worker'[k] = r.id
    BY <1>0, <1>9, <2>1 DEF TypeOK
  <2>3. Wired(up, conn[k], req'[k], rep'[k], worker'[k])
    BY <1>0, <1>2, <1>3, <1>9, <2>2, SingleFrame DEF Wired, handle
  <2>4. ASSUME NEW c \in Clients, pc[c] \in Active, at(c) = k
        PROVE Link(build, mode, conn[k], req'[k], rep'[k], worker'[k], pc[c], info[c], asked[c])
    <3>1. pc[c] = "query" /\ r.id = asked[c]
      BY <1>4, <1>9, <2>4, RequestOf
    <3> QED BY <1>2, <1>3, <1>4, <1>9, <2>2, <2>4, <3>1 DEF Link
  <2> QED BY <1>0, <1>3, <1>9, <2>2, <2>3, <2>4, WorkerStep DEF handle, TypeOK
<1> QED BY <1>6, <1>7, <1>8, <1>9 DEF handle

(* The worker answers with the build it was started by.                    *)
LEMMA ProcessQueryInv == ASSUME Inv, NEW k \in Conns, process_query(k) PROVE Inv'
<1> USE DEF Reading, NoWorker
<1>0. TypeOK /\ Wired(up, conn[k], req[k], rep[k], worker[k])
  BY DEF Inv
<1>1. rep[k] = <<>> /\ req[k] = <<>> /\ worker[k] \in 1..MaxQueries
  BY <1>0 DEF Wired, process_query, TypeOK
<1>2. \A c \in Clients : pc[c] \in Active /\ at(c) = k =>
        /\ pc[c] = "query" /\ worker[k] = asked[c]
        /\ Link(build, mode, conn[k], req[k], rep[k], worker[k], pc[c], info[c], asked[c])
  BY DEF Inv, Linked, Link, process_query
<1>3. CASE conn[k] = "open"
  <2> DEFINE f == [kind |-> "QUERY", build |-> build, id |-> worker[k]]
  <2>1. f \in Replies
    BY <1>0, <1>1 DEF Replies, TypeOK
  <2>2. /\ rep' = [rep EXCEPT ![k] = <<f>>] /\ rep' \in [Conns -> Seq(Replies)]
        /\ rep'[k] = <<f>>
    <3>1. rep \in [Conns -> Seq(Replies)] /\ <<f>> \in Seq(Replies)
      BY <1>0, <2>1, SingleFrame DEF TypeOK
    <3>2. rep' = [rep EXCEPT ![k] = Append(rep[k], f)]
      BY <1>3 DEF reply, process_query
    <3>3. Append(rep[k], f) = <<f>>
      BY <1>1, <2>1, SingleFrame
    <3> QED BY <3>1, <3>2, <3>3
  <2>3. worker' \in [Conns -> NoWorker..MaxQueries] /\ worker'[k] = Reading
    <3>1. worker \in [Conns -> NoWorker..MaxQueries] /\ Reading \in NoWorker..MaxQueries
      BY <1>0, SessionAssumption DEF TypeOK
    <3>2. worker' = [worker EXCEPT ![k] = Reading]
      BY <1>3 DEF process_query
    <3> QED BY <3>1, <3>2
  <2>4. Wired(up, conn[k], req'[k], rep'[k], worker'[k])
    BY <1>0, <1>1, <1>3, <2>2, <2>3, SingleFrame DEF Wired, process_query
  <2>5. ASSUME NEW c \in Clients, pc[c] \in Active, at(c) = k
        PROVE Link(build, mode, conn[k], req'[k], rep'[k], worker'[k], pc[c], info[c], asked[c])
    <3>1. info[c] # None /\ info[c].build = build
      BY <1>2, <1>3, <2>5 DEF Link
    <3>2. Expected(build, mode, conn[k], pc[c], info[c], asked[c], f)
      BY <1>2, <2>5, <3>1 DEF Expected
    <3> QED BY <1>1, <1>2, <2>2, <2>3, <2>5, <3>2 DEF Link, Waiting, process_query
  <2> QED BY <1>0, <1>3, <2>2, <2>3, <2>4, <2>5, WorkerStep DEF process_query, TypeOK
<1>4. CASE conn[k] # "open"
  <2>1. worker' \in [Conns -> NoWorker..MaxQueries] /\ worker'[k] = NoWorker
    <3>1. worker' = [worker EXCEPT ![k] = NoWorker]
      BY <1>4 DEF process_query
    <3>2. worker \in [Conns -> NoWorker..MaxQueries] /\ NoWorker \in NoWorker..MaxQueries
      BY <1>0, SessionAssumption DEF TypeOK, NoWorker
    <3> QED BY <3>1, <3>2
  <2>2. Wired(up, conn[k], req'[k], rep'[k], worker'[k])
    BY <1>0, <1>1, <1>4, <2>1 DEF Wired, process_query
  <2>3. ASSUME NEW c \in Clients, pc[c] \in Active, at(c) = k
        PROVE Link(build, mode, conn[k], req'[k], rep'[k], worker'[k], pc[c], info[c], asked[c])
    BY <1>0, <1>1, <1>2, <1>4, <2>1, <2>3 DEF Link, Wired, process_query
  <2> QED BY <1>0, <1>4, <2>1, <2>2, <2>3, WorkerStep DEF process_query, TypeOK
<1> QED BY <1>3, <1>4

(* The worker of a dropped socket ends; its frames are nobody's.           *)
LEMMA EndOfStreamInv == ASSUME Inv, NEW k \in Conns, end_of_stream(k) PROVE Inv'
<1> USE DEF Reading, NoWorker
<1>0. TypeOK /\ Wired(up, conn[k], req[k], rep[k], worker[k])
  BY DEF Inv
<1>1. worker' \in [Conns -> NoWorker..MaxQueries] /\ worker'[k] = NoWorker
  BY <1>0, SessionAssumption DEF TypeOK, end_of_stream
<1>2. Wired(up, conn[k], req'[k], rep'[k], worker'[k])
  BY <1>0, <1>1 DEF Wired, end_of_stream
<1>3. \A c \in Clients : ~(pc[c] \in Active /\ at(c) = k)
  BY DEF Inv, Linked, Link, end_of_stream
<1> QED BY <1>0, <1>1, <1>2, <1>3, WorkerStep DEF end_of_stream, TypeOK

----------------------------------------------------------------------------
(* What the invariant says of a client with a session.                     *)
LEMMA Exchange ==
  ASSUME Inv, NEW c \in Clients, pc[c] \in Active
  PROVE  /\ TypeOK /\ sessions[c] > 0 /\ at(c) \in Conns
         /\ Link(build, mode, conn[at(c)], req[at(c)], rep[at(c)], worker[at(c)],
                 pc[c], info[c], asked[c])
         /\ Wired(up, conn[at(c)], req[at(c)], rep[at(c)], worker[at(c)])
<1>1. TypeOK /\ Linked(c)
  BY DEF Inv
<1>2. at(c) \in Conns
  BY <1>1, AtIsConn DEF Linked
<1> QED BY <1>1, <1>2 DEF Inv, Linked

(* What it says of the frame that client reads: it answers its request,    *)
(* and nothing else is under way.                                          *)
LEMMA Arrival ==
  ASSUME Inv, NEW c \in Clients, pc[c] \in Active, read(c)
  PROVE  /\ pc[c] \in Waiting
         /\ Head(rep[at(c)]) \in Replies
         /\ Expected(build, mode, conn[at(c)], pc[c], info[c], asked[c], Head(rep[at(c)]))
         /\ rep' = [rep EXCEPT ![at(c)] = <<>>]
         /\ rep'[at(c)] = <<>>
         /\ rep' \in [Conns -> Seq(Replies)]
         /\ \A k \in Conns : Len(rep'[k]) <= 1
         /\ req[at(c)] = <<>> /\ worker[at(c)] <= Reading
<1> DEFINE s == rep[at(c)]
<1>1. TypeOK /\ at(c) \in Conns /\ s # <<>>
  BY Exchange DEF read
<1>2. s \in Seq(Replies) /\ Len(s) <= 1 /\ rep \in [Conns -> Seq(Replies)]
  BY <1>1 DEF TypeOK
<1>3. Head(s) = s[1] /\ Head(s) \in Replies /\ Tail(s) = <<>>
  BY <1>1, <1>2, ShortSeq
<1>4. rep' = [rep EXCEPT ![at(c)] = <<>>]
  BY <1>3 DEF read
<1>5. rep' \in [Conns -> Seq(Replies)] /\ rep'[at(c)] = <<>>
  <2>1. <<>> \in Seq(Replies)
    BY EmptySeq
  <2> QED BY <1>1, <1>2, <1>4, <2>1
<1>6. \A k \in Conns : Len(rep'[k]) <= 1
  <2>1. Len(<<>>) = 0
    OBVIOUS
  <2>2. \A k \in Conns : rep'[k] = rep[k] \/ rep'[k] = <<>>
    BY <1>2, <1>4
  <2> QED BY <1>1, <2>1, <2>2 DEF TypeOK
<1>7. /\ pc[c] \in Waiting
      /\ Expected(build, mode, conn[at(c)], pc[c], info[c], asked[c], s[1])
  BY <1>1, Exchange DEF Link
<1>8. req[at(c)] = <<>> /\ worker[at(c)] <= Reading
  BY <1>1, Exchange DEF Wired
<1> QED BY <1>3, <1>4, <1>5, <1>6, <1>7, <1>8

(* A client that leaves its session closes the connection and keeps what   *)
(* it holds.                                                               *)
LEMMA LeaveStep ==
  ASSUME Inv, NEW c \in Clients, pc[c] \in Active, close(c),
         NEW p \in {"done", "failed"}, pc' = [pc EXCEPT ![c] = p],
         NEW e \in {None, "unreachable", "no_service", "timeout", "lost"},
         cause' = [cause EXCEPT ![c] = e],
         UNCHANGED <<server, req, rep, worker, info, asked, sessions, got>>,
         p = "done" => pc[c] = "ready"
  PROVE  Inv'
<1>0. TypeOK /\ sessions[c] > 0 /\ at(c) \in Conns
      /\ Wired(up, conn[at(c)], req[at(c)], rep[at(c)], worker[at(c)])
  BY Exchange
<1>1. conn' \in [Conns -> {"none", "open", "closed", "broken"}] /\ conn'[at(c)] = "closed"
  BY <1>0 DEF TypeOK, close
<1>2. TypeOK'
  BY <1>0, <1>1 DEF TypeOK, server
<1>3. \A d \in Clients : d # c => pc'[d] = pc[d] /\ cause'[d] = cause[d]
  BY <1>0 DEF TypeOK
<1>4. \A j \in Conns : j # at(c) => conn'[j] = conn[j]
  BY <1>0 DEF TypeOK, close
<1>5. at(c) = <<c, sessions'[c]>>
  BY DEF at
<1>6. Wired(up, conn'[at(c)], req'[at(c)], rep'[at(c)], worker'[at(c)])
  BY <1>0, <1>1 DEF Wired
<1>7. Linked(c)'
  BY <1>0 DEF Linked, Active, Waiting, TypeOK
<1>8. Matches(c)'
  <2>1. Matches(c)
    BY DEF Inv
  <2>2. cause'[c] = e /\ e # "refused" /\ pc'[c] = p
    BY <1>0, SessionAssumption DEF TypeOK
  <2> QED BY <2>1, <2>2 DEF Matches
<1>9. sessions'[c] >= sessions[c]
  BY <1>0 DEF TypeOK
<1> QED BY <1>2, <1>3, <1>4, <1>5, <1>6, <1>7, <1>8, <1>9, ClientStep

(* A time-out drops the socket, and a late reply with it.                  *)
LEMMA IoTimeoutInv == ASSUME Inv, NEW c \in Clients, io_timeout(c) PROVE Inv'
<1>1. pc[c] \in Active
  BY DEF io_timeout, Active
<1> QED BY <1>1, LeaveStep DEF io_timeout, fail

(* So does a connection that the server lost.                              *)
LEMMA ConnectionLostInv == ASSUME Inv, NEW c \in Clients, connection_lost(c) PROVE Inv'
<1>1. pc[c] \in Active
  BY DEF connection_lost, Active
<1> QED BY <1>1, LeaveStep DEF connection_lost, fail

(* A client that is done drops its socket.                                 *)
LEMMA DropInv == ASSUME Inv, NEW c \in Clients, drop(c) PROVE Inv'
<1>1. pc[c] \in Active
  BY DEF drop, Active
<1>2. TypeOK /\ Matches(c)
  BY DEF Inv
<1>3. /\ cause' = [cause EXCEPT ![c] = cause[c]]
      /\ cause[c] \in {None, "unreachable", "no_service", "timeout", "lost"}
  BY <1>2 DEF TypeOK, Matches, drop
<1> QED BY <1>1, <1>3, LeaveStep DEF drop

(* A query is the only request under way on its connection.                *)
LEMMA QueryInv == ASSUME Inv, NEW c \in Clients, query(c) PROVE Inv'
<1> USE DEF Reading, NoWorker
<1>0. pc[c] \in Active /\ pc[c] = "ready"
  BY DEF query, Active
<1>1. /\ TypeOK /\ sessions[c] > 0 /\ at(c) \in Conns
      /\ Link(build, mode, conn[at(c)], req[at(c)], rep[at(c)], worker[at(c)],
              pc[c], info[c], asked[c])
      /\ Wired(up, conn[at(c)], req[at(c)], rep[at(c)], worker[at(c)])
  BY <1>0, Exchange
<1>2. req[at(c)] = <<>> /\ rep[at(c)] = <<>> /\ worker[at(c)] <= Reading
  <2>1. worker[at(c)] \in Int
    BY <1>1 DEF TypeOK
  <2> QED BY <1>0, <1>1, <2>1 DEF Link, Waiting
<1> DEFINE f == [cmd |-> "QUERY", id |-> asked[c] + 1]
<1>3. asked[c] + 1 \in 1..MaxQueries /\ f \in Requests
  BY <1>1, SessionAssumption DEF query, TypeOK, Requests
<1>4. /\ asked'[c] = asked[c] + 1 /\ pc'[c] = "query"
      /\ asked' \in [Clients -> 0..MaxQueries]
      /\ pc' \in [Clients -> {"idle", "ready", "done", "failed"} \cup Waiting]
      /\ \A d \in Clients : d # c => pc'[d] = pc[d] /\ asked'[d] = asked[d]
  BY <1>1, <1>3 DEF query, TypeOK, Waiting
<1>5. /\ req' \in [Conns -> Seq(Requests)]
      /\ \A j \in Conns : j # at(c) => req'[j] = req[j]
      /\ IF conn[at(c)] = "open" THEN req'[at(c)] = <<f>> ELSE req'[at(c)] = <<>>
  <2>1. req \in [Conns -> Seq(Requests)] /\ <<f>> \in Seq(Requests) /\ Append(<<>>, f) = <<f>>
    BY <1>1, <1>3, SingleFrame DEF TypeOK
  <2>2. CASE conn[at(c)] = "open"
    <3>1. req' = [req EXCEPT ![at(c)] = <<f>>]
      BY <1>2, <2>1, <2>2 DEF query, send
    <3> QED BY <1>1, <2>1, <2>2, <3>1
  <2>3. CASE conn[at(c)] # "open"
    BY <1>2, <2>1, <2>3 DEF query
  <2> QED BY <2>2, <2>3
<1>6. Wired(up, conn[at(c)], req'[at(c)], rep[at(c)], worker[at(c)])
  <2>1. Len(<<f>>) = 1 /\ Len(<<>>) = 0
    OBVIOUS
  <2>2. CASE conn[at(c)] = "open"
    <3>1. req'[at(c)] = <<f>>
      BY <1>5, <2>2
    <3> QED BY <1>1, <1>2, <2>1, <2>2, <3>1 DEF Wired
  <2>3. CASE conn[at(c)] # "open"
    <3>1. req'[at(c)] = <<>>
      BY <1>5, <2>3
    <3> QED BY <1>1, <1>2, <2>1, <2>3, <3>1 DEF Wired
  <2> QED BY <2>2, <2>3
<1>7. TypeOK'
  <2>1. \A k \in Conns : Len(req'[k]) <= 1
    BY <1>1, <1>5, <1>6 DEF TypeOK, Wired
  <2> QED BY <1>1, <1>4, <1>5, <2>1 DEF TypeOK, query, server
<1>8. Linked(c)'
  <2>1. has_pir(info[c].mode) /\ info[c] # None
    BY <1>0, <1>1 DEF Link
  <2>2. req'[at(c)] # <<>> => req'[at(c)] = <<Request("query", asked[c] + 1)>>
    BY <1>5 DEF Request
  <2>3. Link(build, mode, conn[at(c)], req'[at(c)], rep[at(c)], worker[at(c)],
             "query", info[c], asked[c] + 1)
    BY <1>1, <1>2, <1>3, <2>1, <2>2 DEF Link, Waiting, TypeOK
  <2> QED BY <1>1, <1>4, <2>3 DEF Linked, at, query, server
<1>9. Matches(c)'
  <2>1. Matches(c)
    BY DEF Inv
  <2> QED BY <1>4, <2>1 DEF Matches, query
<1> QED
  <2>1. at(c) = <<c, sessions'[c]>> /\ sessions'[c] >= sessions[c]
    BY <1>1 DEF at, query, TypeOK
  <2> QED BY <1>4, <1>5, <1>6, <1>7, <1>8, <1>9, <2>1, ClientStep DEF query

(* A dump answers the request for it.                                      *)
LEMMA GotDumpInv == ASSUME Inv, NEW c \in Clients, got_dump(c) PROVE Inv'
<1> USE DEF Reading, NoWorker
<1> DEFINE f == Head(rep[at(c)])
<1>0. pc[c] \in Active /\ pc[c] = "dump" /\ read(c)
  BY DEF got_dump, Active, Waiting
<1>1. /\ TypeOK /\ sessions[c] > 0 /\ at(c) \in Conns
      /\ Link(build, mode, conn[at(c)], req[at(c)], rep[at(c)], worker[at(c)],
              pc[c], info[c], asked[c])
      /\ Wired(up, conn[at(c)], req[at(c)], rep[at(c)], worker[at(c)])
  BY <1>0, Exchange
<1>2. /\ f.kind = "DUMP" /\ f.build = info[c].build /\ f.id = asked[c] /\ f \in Replies
      /\ asked[c] = 0 /\ info[c] # None
  BY <1>0, <1>1, Arrival DEF Expected, Link
<1>3. /\ rep' = [rep EXCEPT ![at(c)] = <<>>] /\ rep'[at(c)] = <<>>
      /\ rep' \in [Conns -> Seq(Replies)] /\ \A k \in Conns : Len(rep'[k]) <= 1
  BY <1>0, Arrival
<1>4. got' = [got EXCEPT ![c] = [id |-> f.id, build |-> f.build]] /\ UNCHANGED cause
      /\ pc' = [pc EXCEPT ![c] = "done"]
  BY <1>2 DEF got_dump
<1>5. conn' \in [Conns -> {"none", "open", "closed", "broken"}] /\ conn'[at(c)] = "closed"
      /\ \A j \in Conns : j # at(c) => conn'[j] = conn[j] /\ rep'[j] = rep[j]
  BY <1>1, <1>3 DEF TypeOK, close, got_dump
<1>6. TypeOK'
  <2>1. [id |-> f.id, build |-> f.build] \in [id : 0..MaxQueries, build : 1..build]
    BY <1>1, <1>2 DEF TypeOK
  <2>2. got' \in [Clients -> {None} \cup [id : 0..MaxQueries, build : 1..build]]
    BY <1>1, <1>4, <2>1 DEF TypeOK
  <2> QED BY <1>1, <1>3, <1>4, <1>5, <2>2 DEF TypeOK, got_dump, server
<1>7. Wired(up, conn'[at(c)], req'[at(c)], rep'[at(c)], worker'[at(c)])
  BY <1>1, <1>3, <1>5, SingleFrame DEF Wired, got_dump
<1>8. \A d \in Clients : d # c => pc'[d] = pc[d] /\ got'[d] = got[d]
  BY <1>1, <1>4 DEF TypeOK
<1>9. pc'[c] = "done" /\ Linked(c)'
  BY <1>1, <1>4 DEF Linked, Active, Waiting, TypeOK
<1>10. Matches(c)'
  <2>1. Matches(c) /\ got'[c] = [id |-> f.id, build |-> f.build]
    BY <1>1, <1>4 DEF Inv, TypeOK
  <2> QED BY <1>2, <1>4, <2>1 DEF Matches, got_dump
<1> QED
  <2>1. at(c) = <<c, sessions'[c]>> /\ sessions'[c] >= sessions[c]
    BY <1>1 DEF at, got_dump, TypeOK
  <2> QED BY <1>4, <1>5, <1>6, <1>7, <1>8, <1>9, <1>10, <2>1, ClientStep DEF got_dump

(* A reply answers the last query of its connection.                       *)
LEMMA GotReplyInv == ASSUME Inv, NEW c \in Clients, got_reply(c) PROVE Inv'
<1> USE DEF Reading, NoWorker
<1> DEFINE f == Head(rep[at(c)])
<1>0. pc[c] \in Active /\ pc[c] = "query" /\ read(c)
  BY DEF got_reply, Active, Waiting
<1>1. /\ TypeOK /\ sessions[c] > 0 /\ at(c) \in Conns
      /\ Link(build, mode, conn[at(c)], req[at(c)], rep[at(c)], worker[at(c)],
              pc[c], info[c], asked[c])
      /\ Wired(up, conn[at(c)], req[at(c)], rep[at(c)], worker[at(c)])
  BY <1>0, Exchange
<1>2. /\ f.kind = "QUERY" /\ f.build = info[c].build /\ f.id = asked[c] /\ f \in Replies
      /\ info[c] # None /\ req[at(c)] = <<>> /\ worker[at(c)] <= Reading
  BY <1>0, <1>1, Arrival DEF Expected, Link
<1>3. /\ rep' = [rep EXCEPT ![at(c)] = <<>>] /\ rep'[at(c)] = <<>>
      /\ rep' \in [Conns -> Seq(Replies)] /\ \A k \in Conns : Len(rep'[k]) <= 1
  BY <1>0, Arrival
<1>4. got' = [got EXCEPT ![c] = [id |-> f.id, build |-> f.build]] /\ UNCHANGED <<conn, cause>>
      /\ pc' = [pc EXCEPT ![c] = "ready"]
  BY <1>2 DEF got_reply
<1>5. \A j \in Conns : j # at(c) => rep'[j] = rep[j]
  BY <1>1, <1>3 DEF TypeOK
<1>6. TypeOK'
  <2>1. [id |-> f.id, build |-> f.build] \in [id : 0..MaxQueries, build : 1..build]
    BY <1>1, <1>2 DEF TypeOK
  <2>2. got' \in [Clients -> {None} \cup [id : 0..MaxQueries, build : 1..build]]
    BY <1>1, <1>4, <2>1 DEF TypeOK
  <2> QED BY <1>1, <1>3, <1>4, <2>2 DEF TypeOK, got_reply, server
<1>7. Wired(up, conn'[at(c)], req'[at(c)], rep'[at(c)], worker'[at(c)])
  BY <1>1, <1>3, <1>4, SingleFrame DEF Wired, got_reply
<1>8. \A d \in Clients : d # c => pc'[d] = pc[d] /\ got'[d] = got[d]
  BY <1>1, <1>4 DEF TypeOK
<1>9. pc'[c] = "ready" /\ Linked(c)'
  <2>1. pc'[c] = "ready"
    BY <1>1, <1>4 DEF TypeOK
  <2>2. worker[at(c)] \in Int
    BY <1>1 DEF TypeOK
  <2>3. Link(build, mode, conn[at(c)], <<>>, <<>>, worker[at(c)], "ready", info[c], asked[c])
    BY <1>0, <1>1, <1>2, <2>2 DEF Link
  <2> QED BY <1>1, <1>2, <1>3, <1>4, <2>1, <2>3 DEF Linked, at, got_reply, server
<1>10. Matches(c)'
  <2>1. Matches(c) /\ got'[c] = [id |-> f.id, build |-> f.build]
    BY <1>1, <1>4 DEF Inv, TypeOK
  <2> QED BY <1>2, <1>4, <2>1 DEF Matches, got_reply
<1> QED
  <2>1. at(c) = <<c, sessions'[c]>> /\ sessions'[c] >= sessions[c]
    BY <1>1 DEF at, got_reply, TypeOK
  <2> QED BY <1>4, <1>5, <1>6, <1>7, <1>8, <1>9, <1>10, <2>1, ClientStep DEF got_reply

(* INFO is of the build that answers on this connection.                   *)
LEMMA GotInfoInv == ASSUME Inv, NEW c \in Clients, got_info(c) PROVE Inv'
<1> USE DEF Reading, NoWorker
<1> DEFINE f == Head(rep[at(c)])
           i == [build |-> f.build, mode |-> f.mode]
<1>0. pc[c] \in Active /\ pc[c] = "info" /\ read(c)
  BY DEF got_info, Active, Waiting
<1>1. /\ TypeOK /\ sessions[c] > 0 /\ at(c) \in Conns
      /\ Link(build, mode, conn[at(c)], req[at(c)], rep[at(c)], worker[at(c)],
              pc[c], info[c], asked[c])
      /\ Wired(up, conn[at(c)], req[at(c)], rep[at(c)], worker[at(c)])
  BY <1>0, Exchange
<1>2. /\ f.kind = "INFO" /\ f \in Replies /\ f.build <= build
      /\ conn[at(c)] = "open" => f.build = build /\ f.mode = mode
      /\ req[at(c)] = <<>> /\ worker[at(c)] \in {NoWorker, Reading}
  BY <1>0, <1>1, Arrival DEF Expected, TypeOK
<1>3. /\ rep' = [rep EXCEPT ![at(c)] = <<>>] /\ rep'[at(c)] = <<>>
      /\ rep' \in [Conns -> Seq(Replies)] /\ \A k \in Conns : Len(rep'[k]) <= 1
  BY <1>0, Arrival
<1>4. i \in [build : 1..build, mode : Modes] /\ i # None
  <2>1. f.build \in 1..MaxBuilds /\ f.mode \in Modes /\ build \in Nat /\ MaxBuilds \in Nat
    BY <1>1, <1>2, SessionAssumption DEF Replies, TypeOK
  <2>2. i \in [build : 1..build, mode : Modes] /\ i \in [build : Nat, mode : Modes]
    BY <1>2, <2>1
  <2> QED BY <2>2, SessionAssumption
<1>5. info' = [info EXCEPT ![c] = i]
      /\ info' \in [Clients -> {None} \cup [build : 1..build, mode : Modes]] /\ info'[c] = i
  BY <1>1, <1>4 DEF TypeOK, got_info
<1>6. /\ at(c) = <<c, sessions'[c]>> /\ sessions'[c] >= sessions[c] /\ asked[c] = 0
      /\ \A d \in Clients : d # c => info'[d] = info[d]
      /\ \A j \in Conns : j # at(c) => rep'[j] = rep[j]
  BY <1>0, <1>1, <1>3, <1>5 DEF at, got_info, TypeOK, Link
<1>7. Matches(c) /\ got[c] = None
  BY <1>0 DEF Inv, Matches
<1>8. CASE /\ has_dump(f.mode) /\ pc' = [pc EXCEPT ![c] = "dump"] /\ UNCHANGED <<conn, cause>>
           /\ IF conn[at(c)] = "open" THEN send(c, [cmd |-> "DUMP"]) ELSE UNCHANGED req
  <2> DEFINE r == [cmd |-> "DUMP"]
  <2>1. /\ req' \in [Conns -> Seq(Requests)]
        /\ \A j \in Conns : j # at(c) => req'[j] = req[j]
        /\ IF conn[at(c)] = "open" THEN req'[at(c)] = <<r>> ELSE req'[at(c)] = <<>>
    <3>0. r \in Requests
      BY DEF Requests
    <3>1. req \in [Conns -> Seq(Requests)] /\ <<r>> \in Seq(Requests) /\ Append(<<>>, r) = <<r>>
      BY <1>1, <3>0, SingleFrame DEF TypeOK
    <3>2. CASE conn[at(c)] = "open"
      <4>1. req' = [req EXCEPT ![at(c)] = <<r>>]
        BY <1>2, <1>8, <3>1, <3>2 DEF send
      <4> QED BY <1>1, <3>1, <3>2, <4>1
    <3>3. CASE conn[at(c)] # "open"
      BY <1>2, <1>8, <3>1, <3>3
    <3> QED BY <3>2, <3>3
  <2>2. Wired(up, conn[at(c)], req'[at(c)], rep'[at(c)], worker[at(c)])
    <3>1. Len(<<r>>) = 1 /\ Len(<<>>) = 0
      OBVIOUS
    <3>2. CASE conn[at(c)] = "open"
      <4>1. req'[at(c)] = <<r>>
        BY <2>1, <3>2
      <4> QED BY <1>1, <1>2, <1>3, <3>1, <3>2, <4>1 DEF Wired
    <3>3. CASE conn[at(c)] # "open"
      BY <1>1, <1>2, <1>3, <2>1, <3>1, <3>3 DEF Wired
    <3> QED BY <3>2, <3>3
  <2>3. /\ pc' \in [Clients -> {"idle", "ready", "done", "failed"} \cup Waiting]
        /\ pc'[c] = "dump" /\ \A d \in Clients : d # c => pc'[d] = pc[d]
    BY <1>1, <1>8 DEF TypeOK, Waiting
  <2>4. TypeOK'
    <3>1. \A k \in Conns : Len(req'[k]) <= 1
      BY <1>1, <2>1, <2>2 DEF TypeOK, Wired
    <3> QED BY <1>1, <1>3, <1>5, <1>8, <2>1, <2>3, <3>1 DEF TypeOK, got_info, server
  <2>5. Linked(c)'
    <3>1. req'[at(c)] # <<>> => req'[at(c)] = <<Request("dump", asked[c])>>
      BY <2>1 DEF Request
    <3>2. Link(build, mode, conn[at(c)], req'[at(c)], <<>>, worker[at(c)], "dump", i, asked[c])
      BY <1>1, <1>2, <1>4, <1>6, <1>8, <3>1 DEF Link, Waiting
    <3> QED BY <1>1, <1>3, <1>5, <1>8, <2>3, <3>2 DEF Linked, at, got_info, server
  <2>6. Matches(c)'
    BY <1>7, <1>8, <2>3 DEF Matches, got_info
  <2> QED BY <1>6, <1>8, <2>1, <2>2, <2>3, <2>4, <2>5, <2>6, ClientStep DEF got_info
<1>9. CASE /\ has_pir(f.mode) /\ pc' = [pc EXCEPT ![c] = "ready"] /\ UNCHANGED <<conn, req, cause>>
  <2>1. /\ pc' \in [Clients -> {"idle", "ready", "done", "failed"} \cup Waiting]
        /\ pc'[c] = "ready" /\ \A d \in Clients : d # c => pc'[d] = pc[d]
    BY <1>1, <1>9 DEF TypeOK, Waiting
  <2>2. TypeOK'
    BY <1>1, <1>3, <1>5, <1>9, <2>1 DEF TypeOK, got_info, server
  <2>3. Wired(up, conn[at(c)], req[at(c)], rep'[at(c)], worker[at(c)])
    BY <1>1, <1>3, SingleFrame DEF Wired
  <2>4. Linked(c)'
    <3>1. Link(build, mode, conn[at(c)], req[at(c)], <<>>, worker[at(c)], "ready", i, asked[c])
      BY <1>1, <1>2, <1>4, <1>9 DEF Link
    <3> QED BY <1>1, <1>3, <1>5, <1>9, <2>1, <3>1 DEF Linked, at, got_info, server
  <2>5. Matches(c)'
    BY <1>7, <1>9, <2>1 DEF Matches, got_info
  <2> QED BY <1>6, <1>9, <2>1, <2>2, <2>3, <2>4, <2>5, ClientStep DEF got_info
<1>10. CASE fail(c, "no_service") /\ close(c) /\ UNCHANGED req
  <2>1. /\ pc' \in [Clients -> {"idle", "ready", "done", "failed"} \cup Waiting]
        /\ pc'[c] = "failed" /\ cause'[c] = "no_service"
        /\ \A d \in Clients : d # c => pc'[d] = pc[d] /\ cause'[d] = cause[d]
    BY <1>1, <1>10 DEF TypeOK, fail
  <2>2. /\ conn' \in [Conns -> {"none", "open", "closed", "broken"}] /\ conn'[at(c)] = "closed"
        /\ \A j \in Conns : j # at(c) => conn'[j] = conn[j]
    BY <1>1, <1>10 DEF TypeOK, close
  <2>3. TypeOK'
    BY <1>1, <1>3, <1>5, <1>10, <2>1, <2>2 DEF TypeOK, got_info, server, fail
  <2>4. Wired(up, conn'[at(c)], req[at(c)], rep'[at(c)], worker[at(c)])
    BY <1>1, <1>3, <2>2, SingleFrame DEF Wired
  <2>5. Linked(c)' /\ Matches(c)'
    BY <1>7, <2>1 DEF Linked, Matches, Active, Waiting
  <2> QED BY <1>6, <1>10, <2>1, <2>2, <2>3, <2>4, <2>5, ClientStep DEF got_info
<1> QED BY <1>8, <1>9, <1>10 DEF got_info

(* A new connection uses sockets no other holds.                           *)
LEMMA ConnectInv == ASSUME Inv, NEW c \in Clients, connect(c) PROVE Inv'
<1> USE DEF Reading, NoWorker
<1> DEFINE k == <<c, sessions[c] + 1>>
           r == [cmd |-> "INFO"]
<1>1. TypeOK
  BY DEF Inv
<1>2. /\ k \in Conns /\ conn[k] = "none" /\ rep[k] = <<>>
      /\ sessions[c] \in Nat /\ MaxSessions[c] \in Nat
  <2>1. sessions[c] \in Nat /\ MaxSessions[c] \in Nat /\ sessions[c] < MaxSessions[c]
    BY <1>1, SessionAssumption DEF connect, TypeOK
  <2>2. k \in Conns /\ conn[k] = "none"
    BY <2>1, ConnsArePairs DEF Inv, Unused
  <2> QED BY <2>1, <2>2 DEF Inv, Wired
<1>3. /\ sessions'[c] = sessions[c] + 1 /\ pc'[c] = "info" /\ asked'[c] = 0
      /\ info'[c] = None /\ got'[c] = None /\ cause'[c] = None
      /\ \A d \in Clients : d # c =>
           /\ pc'[d] = pc[d] /\ info'[d] = info[d] /\ asked'[d] = asked[d]
           /\ sessions'[d] = sessions[d] /\ got'[d] = got[d] /\ cause'[d] = cause[d]
  BY <1>1 DEF connect, TypeOK
<1>4. /\ conn'[k] = "open" /\ req'[k] = <<r>> /\ rep'[k] = <<>> /\ worker'[k] = Reading
      /\ \A j \in Conns : j # k =>
           conn'[j] = conn[j] /\ req'[j] = req[j] /\ rep'[j] = rep[j] /\ worker'[j] = worker[j]
  BY <1>1, <1>2 DEF connect, TypeOK
<1>5. Len(<<r>>) = 1 /\ Len(<<>>) = 0 /\ <<r>> \in Seq(Requests)
  BY SingleFrame DEF Requests
<1>6. TypeOK'
  <2>1. /\ req' \in [Conns -> Seq(Requests)] /\ rep' \in [Conns -> Seq(Replies)]
        /\ worker' \in [Conns -> NoWorker..MaxQueries]
        /\ conn' \in [Conns -> {"none", "open", "closed", "broken"}]
    <3>1. /\ req' = [req EXCEPT ![k] = <<r>>] /\ rep' = rep
          /\ worker' = [worker EXCEPT ![k] = Reading] /\ conn' = [conn EXCEPT ![k] = "open"]
      BY DEF connect
    <3>2. Reading \in NoWorker..MaxQueries
      BY SessionAssumption
    <3> QED BY <1>1, <1>5, <3>1, <3>2 DEF TypeOK
  <2>2. /\ pc' \in [Clients -> {"idle", "ready", "done", "failed"} \cup Waiting]
        /\ info' \in [Clients -> {None} \cup [build : 1..build, mode : Modes]]
        /\ asked' \in [Clients -> 0..MaxQueries]
        /\ got' \in [Clients -> {None} \cup [id : 0..MaxQueries, build : 1..build]]
        /\ cause' \in [Clients -> {None, "unreachable", "no_service", "refused", "timeout", "lost"}]
    BY <1>1, SessionAssumption DEF TypeOK, connect, Waiting
  <2>3. sessions' \in [Clients -> Nat] /\ \A d \in Clients : sessions'[d] <= MaxSessions[d]
    BY <1>1, <1>2, <1>3 DEF TypeOK, connect
  <2>4. \A j \in Conns : Len(req'[j]) <= 1 /\ Len(rep'[j]) <= 1
    <3> SUFFICES ASSUME NEW j \in Conns PROVE Len(req'[j]) <= 1 /\ Len(rep'[j]) <= 1
      OBVIOUS
    <3>1. CASE j = k
      <4>1. req'[j] = <<r>> /\ rep'[j] = <<>>
        BY <1>4, <3>1
      <4> QED BY <1>5, <4>1
    <3>2. CASE j # k
      BY <1>1, <1>4, <3>2 DEF TypeOK
    <3> QED BY <3>1, <3>2
  <2> QED BY <1>1, <2>1, <2>2, <2>3, <2>4 DEF TypeOK, connect, server
<1>7. Wired(up, conn'[k], req'[k], rep'[k], worker'[k])
  <2>1. up
    BY DEF connect
  <2>2. Wired(up, "open", <<r>>, <<>>, Reading)
    BY <1>5, <2>1 DEF Wired
  <2> QED BY <1>4, <2>2
<1>8. Linked(c)'
  <2>1. Link(build, mode, "open", <<r>>, <<>>, Reading, "info", None, 0)
    BY DEF Link, Waiting, Request
  <2> QED BY <1>2, <1>3, <1>4, <2>1 DEF Linked, at, connect, server
<1>9. Matches(c)'
  BY <1>3, SessionAssumption DEF Matches
<1> QED
  <2>1. k = <<c, sessions'[c]>> /\ sessions'[c] >= sessions[c]
    BY <1>2, <1>3
  <2>2. UNCHANGED server
    BY DEF connect
  <2> HIDE DEF k, r
  <2> QED BY <1>3, <1>4, <1>6, <1>7, <1>8, <1>9, <2>1, <2>2, ClientStep

(* A refused connection leaves no session.                                 *)
LEMMA ConnectRefusedInv == ASSUME Inv, NEW c \in Clients, connect_refused(c) PROVE Inv'
<1> DEFINE k == <<c, sessions[c] + 1>>
<1>1. TypeOK
  BY DEF Inv
<1>2. /\ sessions[c] \in Nat /\ MaxSessions[c] \in Nat /\ sessions[c] < MaxSessions[c]
      /\ sessions'[c] = sessions[c] + 1 /\ pc'[c] = "failed" /\ cause'[c] = "unreachable"
      /\ \A d \in Clients : d # c =>
           pc'[d] = pc[d] /\ sessions'[d] = sessions[d] /\ cause'[d] = cause[d]
  BY <1>1, SessionAssumption DEF connect_refused, fail, TypeOK
<1>3. TypeOK'
  <2>1. sessions' \in [Clients -> Nat] /\ \A d \in Clients : sessions'[d] <= MaxSessions[d]
    BY <1>1, <1>2 DEF TypeOK, connect_refused
  <2> QED BY <1>1, <2>1 DEF TypeOK, connect_refused, server, wire, fail
<1>4. k \in Conns => Wired(up, conn[k], req[k], rep[k], worker[k])
  BY DEF Inv
<1>5. Linked(c)' /\ Matches(c)'
  BY <1>2 DEF Linked, Matches, Active, Waiting
<1> QED BY <1>2, <1>3, <1>4, <1>5, ClientStep DEF connect_refused, wire

----------------------------------------------------------------------------
(* The process dies with all its workers.                                  *)
LEMMA CrashInv == ASSUME Inv, crash PROVE Inv'
<1> USE DEF Reading, NoWorker
<1>1. TypeOK
  BY DEF Inv
<1>2. /\ conn' \in [Conns -> {"none", "open", "closed", "broken"}]
      /\ req' \in [Conns -> Seq(Requests)] /\ worker' \in [Conns -> NoWorker..MaxQueries]
      /\ \A k \in Conns : /\ req'[k] = <<>> /\ worker'[k] = NoWorker
                          /\ conn'[k] = IF conn[k] = "open" THEN "broken" ELSE conn[k]
  <2>1. <<>> \in Seq(Requests) /\ NoWorker \in NoWorker..MaxQueries
    BY EmptySeq, SessionAssumption
  <2> QED BY <1>1, <2>1 DEF crash, TypeOK
<1>3. Len(<<>>) = 0
  OBVIOUS
<1>4. TypeOK'
  <2>1. \A k \in Conns : Len(req'[k]) <= 1
    BY <1>2, <1>3
  <2>2. up' \in BOOLEAN /\ UNCHANGED <<build, mode, rep, pc, info, asked, sessions, got, cause>>
    BY DEF crash, client
  <2> QED BY <1>1, <1>2, <2>1, <2>2 DEF TypeOK
<1>5. ASSUME NEW k \in Conns PROVE Wired(up', conn'[k], req'[k], rep'[k], worker'[k])
  BY <1>2, <1>3 DEF Inv, Wired, crash
<1>6. Unused'
  BY <1>2, ConnsArePairs DEF Inv, Unused, crash, client
<1>7. ASSUME NEW c \in Clients PROVE Linked(c)'
  <2> SUFFICES ASSUME pc[c] \in Active
               PROVE  /\ sessions[c] > 0
                      /\ Link(build, mode, conn'[at(c)], req'[at(c)], rep[at(c)],
                              worker'[at(c)], pc[c], info[c], asked[c])
    BY DEF Linked, at, crash, client
  <2>1. /\ sessions[c] > 0 /\ at(c) \in Conns
        /\ Link(build, mode, conn[at(c)], req[at(c)], rep[at(c)], worker[at(c)],
                pc[c], info[c], asked[c])
    BY Exchange
  <2>2. conn'[at(c)] = "broken" /\ req'[at(c)] = <<>> /\ worker'[at(c)] = NoWorker
    BY <1>2, <2>1 DEF Link
  <2>3. rep[at(c)] # <<>> =>
          Expected(build, mode, "broken", pc[c], info[c], asked[c], rep[at(c)][1])
    BY <2>1 DEF Link, Expected
  <2> QED BY <2>1, <2>2, <2>3 DEF Link
<1>8. \A c \in Clients : Matches(c)'
  BY DEF Inv, Matches, crash, client
<1> QED BY <1>4, <1>5, <1>6, <1>7, <1>8 DEF Inv

(* Another build serves; no old worker is left to answer for it.           *)
LEMMA RestartInv == ASSUME Inv, NEW m \in Modes, restart(m) PROVE Inv'
<1> USE DEF Reading, NoWorker
<1>1. TypeOK
  BY DEF Inv
<1>2. build' \in 1..MaxBuilds /\ build' = build + 1 /\ build \in Nat
  BY <1>1, SessionAssumption DEF TypeOK, restart
<1>3. TypeOK'
  <2>1. 1..build \subseteq 1..build'
    BY <1>2
  <2>2. /\ info \in [Clients -> {None} \cup [build : 1..build', mode : Modes]]
        /\ got \in [Clients -> {None} \cup [id : 0..MaxQueries, build : 1..build']]
    BY <1>1, <2>1 DEF TypeOK
  <2> QED BY <1>1, <1>2, <2>2 DEF TypeOK, restart, wire, client
<1>4. \A k \in Conns : conn[k] # "open" /\ Wired(up, conn[k], req[k], rep[k], worker[k])
  BY DEF Inv, Wired, restart
<1>5. \A k \in Conns : Wired(up', conn'[k], req'[k], rep'[k], worker'[k])
  BY <1>4 DEF Wired, restart, wire
<1>6. Unused'
  BY DEF Inv, Unused, restart, wire, client
<1>7. ASSUME NEW c \in Clients PROVE Linked(c)'
  <2> SUFFICES ASSUME pc[c] \in Active
               PROVE  /\ sessions[c] > 0
                      /\ Link(build', mode', conn[at(c)], req[at(c)], rep[at(c)],
                              worker[at(c)], pc[c], info[c], asked[c])
    BY DEF Linked, at, restart, wire, client
  <2>1. /\ sessions[c] > 0 /\ at(c) \in Conns
        /\ Link(build, mode, conn[at(c)], req[at(c)], rep[at(c)], worker[at(c)],
                pc[c], info[c], asked[c])
    BY Exchange
  <2>2. conn[at(c)] = "broken"
    BY <1>4, <2>1 DEF Link
  <2>3. rep[at(c)] # <<>> =>
          Expected(build', mode', conn[at(c)], pc[c], info[c], asked[c], rep[at(c)][1])
    <3>1. CASE rep[at(c)] # <<>>
      <4>1. rep[at(c)][1] \in Replies
        BY <1>1, <2>1, <3>1, ShortSeq DEF TypeOK
      <4>2. rep[at(c)][1].build \in Nat
        BY <4>1, SessionAssumption DEF Replies
      <4> QED BY <1>2, <2>1, <2>2, <3>1, <4>2 DEF Link, Expected
    <3> QED BY <3>1
  <2> QED BY <2>1, <2>2, <2>3 DEF Link
<1>8. \A c \in Clients : Matches(c)'
  BY DEF Inv, Matches, restart, client
<1> QED BY <1>3, <1>5, <1>6, <1>7, <1>8 DEF Inv

----------------------------------------------------------------------------
(* Every step keeps the invariant.                                         *)
LEMMA NextInv == Inv /\ [Next]_vars => Inv'
<1> SUFFICES ASSUME Inv, [Next]_vars PROVE Inv'
  OBVIOUS
<1>1. CASE UNCHANGED vars
  <2>1. UNCHANGED <<build, mode, up, conn, req, rep, worker, pc, info, asked, sessions, got, cause>>
    BY <1>1 DEF vars, server, wire, client
  <2> QED BY <2>1 DEF Inv, TypeOK, Wired, Unused, Linked, Matches, at, Replies
<1>2. CASE crash
  BY <1>2, CrashInv
<1>3. ASSUME NEW m \in Modes, restart(m) PROVE Inv'
  BY <1>3, RestartInv
<1>4. ASSUME NEW k \in Conns, Worker(k) PROVE Inv'
  BY <1>4, HandleInv, ProcessQueryInv, EndOfStreamInv DEF Worker
<1>5. ASSUME NEW c \in Clients, Reader(c) PROVE Inv'
  BY <1>5, GotInfoInv, GotDumpInv, GotReplyInv, ConnectionLostInv DEF Reader
<1>6. ASSUME NEW c \in Clients,
             connect(c) \/ connect_refused(c) \/ query(c) \/ io_timeout(c) \/ drop(c)
      PROVE  Inv'
  BY <1>6, ConnectInv, ConnectRefusedInv, QueryInv, IoTimeoutInv, DropInv
<1> QED BY <1>1, <1>2, <1>3, <1>4, <1>5, <1>6 DEF Next

(* Every state of a run satisfies the invariant.                           *)
LEMMA InvAlways == Spec => []Inv
  BY InitInv, NextInv, PTL DEF Spec

(* The state of the server, its connections and their clients has its      *)
(* type, and on no connection are two frames under way in one direction.   *)
THEOREM TypeCorrect == Spec => []TypeOK
<1>1. Inv => TypeOK
  BY DEF Inv
<1> QED BY <1>1, InvAlways, PTL

(* Whatever the server's crashes and restarts and the clients' time-outs:  *)
(* what a client takes (TcpDnsServer::query, HybridFactory::connect) is    *)
(* the answer to its own last request and from the build whose INFO it     *)
(* holds, and what INFO advertised is never refused.                       *)
THEOREM RepliesMatch == Spec => []ReplyMatchesRequest
  BY InvAlways, InvImpliesProperty, PTL

----------------------------------------------------------------------------
(* The refinement of PirService, its safety part: fairness is left to the  *)
(* model checker.                                                          *)

Phase == [c \in Clients |-> IF pc[c] \in Waiting THEN "waiting"
                            ELSE IF pc[c] = "ready" THEN "holding" ELSE "out"]

Told == [c \in Clients |-> IF info[c] = None THEN None ELSE info[c].build]

ServiceSafety == Service!Init /\ [][Service!Next]_(Service!vars)

(* Initial states of the sessions are initial states of PirService.        *)
LEMMA ServiceInit == Init => Service!Init
<1> SUFFICES ASSUME Init PROVE Service!Init
  OBVIOUS
<1>1. \A c \in Clients : pc[c] = "idle" /\ info[c] = None
  BY DEF Init
<1>2. Phase = [c \in Clients |-> "out"] /\ Told = [c \in Clients |-> None]
  BY <1>1 DEF Phase, Told, Waiting
<1> QED BY <1>2 DEF Init, Service!Init, Phase, Told

(* How the abstract state follows the client's program counter and INFO.   *)
LEMMA PhaseStep ==
  ASSUME TypeOK, NEW c \in Clients, NEW p, pc' = [pc EXCEPT ![c] = p]
  PROVE  /\ p \in Waiting => Phase' = [Phase EXCEPT ![c] = "waiting"]
         /\ p = "ready" => Phase' = [Phase EXCEPT ![c] = "holding"]
         /\ p \in {"done", "failed"} => Phase' = [Phase EXCEPT ![c] = "out"]
<1>1. Phase' = [Phase EXCEPT ![c] = IF p \in Waiting THEN "waiting"
                                    ELSE IF p = "ready" THEN "holding" ELSE "out"]
  BY DEF Phase, TypeOK
<1> QED BY <1>1 DEF Waiting

(* Setting the INFO of one client sets what that client was told.          *)
LEMMA ToldStep ==
  ASSUME TypeOK, NEW c \in Clients, NEW i, info' = [info EXCEPT ![c] = i]
  PROVE  Told' = [Told EXCEPT ![c] = IF i = None THEN None ELSE i.build]
  BY DEF Told, TypeOK

(* Each step of a session is a step of the service or changes nothing the  *)
(* service shows.                                                          *)
LEMMA ServiceStep == Inv /\ [Next]_vars => [Service!Next]_(Service!vars)
<1> SUFFICES ASSUME Inv, [Next]_vars PROVE [Service!Next]_(Service!vars)
  OBVIOUS
<1>0. TypeOK
  BY DEF Inv
<1>1. CASE UNCHANGED <<build, pc, info, asked, got>>
  BY <1>1 DEF Service!vars
<1>2. ASSUME NEW m \in Modes, restart(m) PROVE Service!Rebuild
  BY <1>2 DEF restart, client, Service!Rebuild
<1>3. ASSUME NEW c \in Clients, connect(c) PROVE Service!Open(c)
  <2>1. Phase' = [Phase EXCEPT ![c] = "waiting"] /\ Told' = [Told EXCEPT ![c] = None]
    BY <1>0, <1>3, PhaseStep, ToldStep DEF connect, Waiting
  <2>2. Phase[c] = "out"
    BY <1>3 DEF connect, Phase, Waiting
  <2> QED BY <1>3, <2>1, <2>2 DEF connect, server, Service!Open, Phase, Told
<1>4. ASSUME NEW c \in Clients, connect_refused(c) PROVE UNCHANGED Service!vars
  <2>1. Phase' = [Phase EXCEPT ![c] = "out"]
    BY <1>0, <1>4, PhaseStep DEF connect_refused, fail
  <2>2. Phase[c] = "out"
    BY <1>4 DEF connect_refused, Phase, Waiting
  <2>3. Phase' = Phase
    BY <2>1, <2>2 DEF Phase
  <2> QED BY <1>4, <2>3 DEF connect_refused, server, Service!vars, Phase
<1>5. ASSUME NEW c \in Clients, got_info(c) PROVE Service!Tell(c)
  <2> DEFINE f == Head(rep[at(c)])
             i == [build |-> f.build, mode |-> f.mode]
  <2>1. pc[c] \in Active /\ pc[c] = "info" /\ read(c) /\ info' = [info EXCEPT ![c] = i]
    BY <1>5 DEF got_info, Active, Waiting
  <2>2. info[c] = None
    BY <2>1, Exchange DEF Link
  <2>3. f.build \in 1..build /\ i # None
    <3>1. f.kind = "INFO" /\ f \in Replies /\ f.build <= build
      BY <2>1, Arrival DEF Expected
    <3>2. f.build \in 1..MaxBuilds /\ f.mode \in Modes /\ MaxBuilds \in Nat /\ build \in Nat
      BY <1>0, <3>1, SessionAssumption DEF Replies, TypeOK
    <3>3. i \in [build : Nat, mode : Modes]
      BY <3>2
    <3> QED BY <3>1, <3>2, <3>3, SessionAssumption
  <2>4. Told' = [Told EXCEPT ![c] = f.build]
    <3>1. Told' = [Told EXCEPT ![c] = IF i = None THEN None ELSE i.build]
      BY <1>0, <2>1, ToldStep
    <3> QED BY <2>3, <3>1
  <2>5. \E p \in {"waiting", "holding", "out"} : Phase' = [Phase EXCEPT ![c] = p]
    <3>1. \E p \in {"dump", "ready", "failed"} : pc' = [pc EXCEPT ![c] = p]
      BY <1>5 DEF got_info, fail
    <3>2. PICK p \in {"dump", "ready", "failed"} : pc' = [pc EXCEPT ![c] = p]
      BY <3>1
    <3> QED BY <1>0, <3>2, PhaseStep DEF Waiting
  <2>6. Phase[c] = "waiting" /\ Told[c] = None
    BY <2>1, <2>2 DEF Phase, Told, Waiting
  <2> HIDE DEF f, i
  <2> QED BY <1>5, <2>3, <2>4, <2>5, <2>6 DEF got_info, server, Service!Tell, Phase, Told
<1>6. ASSUME NEW c \in Clients, query(c) PROVE Service!Ask(c)
  <2>1. Phase' = [Phase EXCEPT ![c] = "waiting"]
    BY <1>0, <1>6, PhaseStep DEF query, Waiting
  <2>2. Phase[c] = "holding"
    BY <1>6 DEF query, Phase, Waiting
  <2> QED BY <1>6, <2>1, <2>2 DEF query, server, Service!Ask, Phase, Told
<1>7. ASSUME NEW c \in Clients, got_dump(c) \/ got_reply(c) PROVE Service!Answer(c)
  <2> DEFINE f == Head(rep[at(c)])
  <2>1. pc[c] \in Active /\ pc[c] \in {"dump", "query"} /\ read(c)
    BY <1>7 DEF got_dump, got_reply, Active, Waiting
  <2>2. info[c] # None /\ asked[c] \in Nat /\ (pc[c] = "dump" <=> asked[c] = 0)
    BY <1>0, <2>1, Exchange, SessionAssumption DEF Link, TypeOK
  <2>3. f.build = info[c].build /\ f.id = asked[c] /\ f.kind \in {"DUMP", "QUERY"}
    BY <2>1, Arrival DEF Expected
  <2>4. Told[c] = info[c].build /\ Told[c] # None /\ Phase[c] = "waiting"
    <3>1. info[c].build \in Nat
      BY <1>0, <2>2 DEF TypeOK
    <3> QED BY <2>1, <2>2, <3>1, SessionAssumption DEF Told, Phase, Waiting
  <2>5. /\ got' = [got EXCEPT ![c] = [id |-> asked[c], build |-> Told[c]]]
        /\ pc' = [pc EXCEPT ![c] = IF asked[c] = 0 THEN "done" ELSE "ready"]
    BY <1>7, <2>1, <2>2, <2>3, <2>4 DEF got_dump, got_reply
  <2>6. Phase' = [Phase EXCEPT ![c] = IF asked[c] = 0 THEN "out" ELSE "holding"]
    <3>1. CASE asked[c] = 0
      <4>1. pc' = [pc EXCEPT ![c] = "done"]
        BY <2>5, <3>1
      <4>2. Phase' = [Phase EXCEPT ![c] = "out"]
        BY <1>0, <4>1, PhaseStep
      <4> QED BY <3>1, <4>2
    <3>2. CASE asked[c] # 0
      <4>1. pc' = [pc EXCEPT ![c] = "ready"]
        BY <2>5, <3>2
      <4>2. Phase' = [Phase EXCEPT ![c] = "holding"]
        BY <1>0, <4>1, PhaseStep
      <4> QED BY <3>2, <4>2
    <3> QED BY <3>1, <3>2
  <2>7. UNCHANGED <<build, info, asked>>
    BY <1>7 DEF got_dump, got_reply, server
  <2> QED BY <2>4, <2>5, <2>6, <2>7 DEF Service!Answer, Phase, Told
<1>8. ASSUME NEW c \in Clients, io_timeout(c) \/ connection_lost(c) PROVE Service!Fail(c)
  <2>1. /\ pc' = [pc EXCEPT ![c] = "failed"] /\ pc[c] \in Waiting
        /\ UNCHANGED <<build, info, asked, got>>
    BY <1>8 DEF io_timeout, connection_lost, fail, server
  <2>2. Phase' = [Phase EXCEPT ![c] = "out"]
    BY <1>0, <2>1, PhaseStep
  <2>3. Phase[c] = "waiting"
    BY <2>1 DEF Phase
  <2> QED BY <2>1, <2>2, <2>3 DEF Service!Fail, Phase, Told
<1>9. ASSUME NEW c \in Clients, drop(c) PROVE Service!Leave(c)
  <2>1. Phase' = [Phase EXCEPT ![c] = "out"]
    BY <1>0, <1>9, PhaseStep DEF drop
  <2>2. Phase[c] = "holding"
    BY <1>9 DEF drop, Phase, Waiting
  <2> QED BY <1>9, <2>1, <2>2 DEF drop, server, Service!Leave, Phase, Told
<1>10. CASE UNCHANGED vars \/ crash \/ \E k \in Conns : Worker(k)
  BY <1>1, <1>10 DEF vars, server, client, crash, Worker, handle, process_query, end_of_stream
<1>11. CASE \E m \in Modes : restart(m)
  BY <1>2, <1>11 DEF Service!Next
<1>12. ASSUME NEW c \in Clients,
              Reader(c) \/ connect(c) \/ connect_refused(c) \/ query(c) \/ io_timeout(c) \/ drop(c)
       PROVE  [Service!Next]_(Service!vars)
  BY <1>3, <1>4, <1>5, <1>6, <1>7, <1>8, <1>9, <1>12 DEF Reader, Service!Next
<1> QED BY <1>10, <1>11, <1>12 DEF Next

(* Sessions implement the service, fairness aside: across time-outs, lost  *)
(* connections and restarts with another build, a session is told of one   *)
(* build (got_info), and each answer it takes is the one to its last       *)
(* question and from that build.                                           *)
THEOREM RefinesService == Spec => ServiceSafety
<1>1. Inv /\ [Next]_vars => [Service!Next]_(Service!vars)
  BY ServiceStep
<1> QED BY <1>1, ServiceInit, InvAlways, PTL DEF Spec, ServiceSafety

----------------------------------------------------------------------------
(* Numbers as bytes: what to_be_bytes writes is what from_be_bytes reads.  *)

(* A set of naturals has a least element.                                  *)
LEMMA LeastNatural ==
  ASSUME NEW T, T \subseteq Nat, T # {}
  PROVE  \E x \in T : \A y \in T : x <= y
<1> DEFINE Less == {ss \in Nat \X Nat : ss[1] < ss[2]}
<1>1. IsWellFoundedOn(Less, Nat)
  BY NatLessThanWellFounded DEF OpToRel
<1> HIDE DEF Less
<1>2. PICK x \in T : \A y \in T : ~(<<y, x>> \in Less)
  BY <1>1, WFMin, Zenon
<1>3. \A y \in T : ~(y < x)
  BY <1>2 DEF Less
<1> QED BY <1>3

(* The powers of two, from the number of subsets of a finite set.          *)
LEMMA PowerStep == ASSUME NEW n \in Nat PROVE 2^(n + 1) = 2^n + 2^n /\ 2^n \in Nat
<1> DEFINE S == 1..n
           x == n + 1
           with(A) == A \cup {x}
           W == {with(A) : A \in SUBSET S}
           f == [A \in SUBSET S |-> with(A)]
<1>1. IsFiniteSet(S) /\ Cardinality(S) = n /\ IsFiniteSet(S \cup {x}) /\ Cardinality(S \cup {x}) = n + 1
  <2>1. IsFiniteSet(1..n) /\ Cardinality(1..n) = n
    BY FS_Interval
  <2>2. IsFiniteSet(1..(n + 1)) /\ Cardinality(1..(n + 1)) = n + 1
    BY FS_Interval
  <2>3. 1..(n + 1) = S \cup {x}
    OBVIOUS
  <2> QED BY <2>1, <2>2, <2>3
<1>2. x \notin S
  OBVIOUS
<1> HIDE DEF S, x
<1>3. IsFiniteSet(SUBSET S) /\ Cardinality(SUBSET S) = 2^n
  BY <1>1, FS_SUBSET
<1>4. IsFiniteSet(SUBSET (S \cup {x})) /\ Cardinality(SUBSET (S \cup {x})) = 2^(n + 1)
  BY <1>1, FS_SUBSET
<1>5. SUBSET (S \cup {x}) = (SUBSET S) \cup W
  <2>1. ASSUME NEW A \in SUBSET (S \cup {x}), A \notin SUBSET S PROVE A \in W
    <3>1. A \ {x} \in SUBSET S /\ x \in A
      BY <2>1
    <3>2. A = with(A \ {x})
      BY <3>1
    <3> QED BY <3>1, <3>2, Zenon
  <2>2. \A A \in SUBSET S : with(A) \in SUBSET (S \cup {x}) /\ A \in SUBSET (S \cup {x})
    OBVIOUS
  <2> QED BY <2>1, <2>2
<1>6. (SUBSET S) \cap W = {}
  BY <1>2
<1>7. ExistsBijection(SUBSET S, W)
  <2>1. f \in [SUBSET S -> W]
    OBVIOUS
  <2>2. ASSUME NEW A \in SUBSET S, NEW B \in SUBSET S, f[A] = f[B] PROVE A = B
    <3>1. with(A) = with(B)
      BY <2>2
    <3> QED BY <3>1, <1>2
  <2>3. \A C \in W : \E A \in SUBSET S : f[A] = C
    OBVIOUS
  <2>4. f \in Bijection(SUBSET S, W)
    BY <2>1, <2>2, <2>3, Zenon DEF Bijection, Injection, Surjection, IsInjective
  <2> QED BY <2>4, Zenon DEF ExistsBijection
<1>8. IsFiniteSet(W) /\ Cardinality(W) = 2^n
  BY <1>3, <1>7, FS_Bijection
<1> HIDE DEF W
<1>9. Cardinality((SUBSET S) \cup W) = 2^n + 2^n - Cardinality((SUBSET S) \cap W)
  BY <1>3, <1>8, FS_Union
<1>10. Cardinality((SUBSET S) \cap W) = 0 /\ 2^n \in Nat
  BY <1>3, <1>6, FS_EmptySet, FS_CardinalityType
<1>11. 2^(n + 1) = 2^n + 2^n - Cardinality((SUBSET S) \cap W)
  BY <1>4, <1>5, <1>9, Zenon
<1> QED BY <1>10, <1>11

(* Powers of two are positive, and multiply by adding exponents.           *)
LEMMA PowerSum ==
  ASSUME NEW a \in Nat, NEW b \in Nat
  PROVE  2^a \in Nat \ {0} /\ 2^(a + b) = 2^a * 2^b
<1>1. ASSUME NEW c \in Nat PROVE 2^c \in Nat \ {0}
  <2> DEFINE T == {k \in Nat : ~(2^k \in Nat \ {0})}
  <2>1. SUFFICES ASSUME T # {} PROVE FALSE
    OBVIOUS
  <2>2. T \subseteq Nat
    OBVIOUS
  <2>3. PICK k \in T : \A y \in T : k <= y
    BY <2>1, <2>2, LeastNatural
  <2>4. k # 0
    <3>1. 2^0 = 1
      OBVIOUS
    <3>2. 2^0 \in Nat \ {0}
      BY <3>1
    <3> QED BY <2>3, <3>2, Zenon
  <2>5. PICK m \in Nat : k = m + 1 /\ m \notin T
    <3>1. k - 1 \in Nat /\ k = (k - 1) + 1 /\ ~(k <= k - 1)
      BY <2>4
    <3> QED BY <2>3, <3>1
  <2>6. 2^m \in Nat \ {0} /\ 2^k = 2^m + 2^m
    BY <2>5, PowerStep
  <2> QED BY <2>3, <2>6
<1>2. 2^(a + b) = 2^a * 2^b
  <2> DEFINE T == {k \in Nat : ~(2^(a + k) = 2^a * 2^k)}
  <2>1. SUFFICES ASSUME T # {} PROVE FALSE
    OBVIOUS
  <2>2. T \subseteq Nat
    OBVIOUS
  <2>3. PICK k \in T : \A y \in T : k <= y
    BY <2>1, <2>2, LeastNatural
  <2>4. k # 0
    <3>1. a + 0 = a /\ 2^0 = 1 /\ 2^a \in Int
      OBVIOUS
    <3>2. 2^(a + 0) = 2^a * 2^0
      BY <3>1
    <3> QED BY <2>3, <3>2
  <2>5. PICK m \in Nat : k = m + 1 /\ m \notin T
    <3>1. k - 1 \in Nat /\ k = (k - 1) + 1 /\ ~(k <= k - 1)
      BY <2>4
    <3> QED BY <2>3, <3>1
  <2>6. 2^(a + m) = 2^a * 2^m
    BY <2>5
  <2>7. 2^k = 2^m + 2^m /\ 2^(a + k) = 2^(a + m) + 2^(a + m)
    <3>1. a + k = (a + m) + 1 /\ a + m \in Nat
      BY <2>5
    <3> QED BY <2>5, <3>1, PowerStep
  <2>8. PICK x \in Nat, y \in Nat : x = 2^a /\ y = 2^m
    BY <1>1
  <2>9. 2^(a + k) = 2^a * 2^k
    <3>1. x * (y + y) = x * y + x * y
      OBVIOUS
    <3> QED BY <2>6, <2>7, <2>8, <3>1
  <2> QED BY <2>3, <2>9
<1> QED BY <1>1, <1>2
(* f solves a recursion from a up to k.                                    *)
Solves(f, k, S, a, step) ==
  f \in [0..k -> S] /\ f = [n \in 0..k |-> IF n = 0 THEN a ELSE step[<<n, f[n - 1]>>]]

(* A function that is defined by recursion over an initial segment of the  *)
(* naturals exists.                                                        *)
LEMMA FiniteRecursion ==
  ASSUME NEW m \in Nat, NEW S, NEW a \in S, NEW step \in [(1..m) \X S -> S]
  PROVE  \E f : Solves(f, m, S, a, step)
<1> DEFINE Solvable(k) == \E f : Solves(f, k, S, a, step)
           T == {k \in 0..m : ~ Solvable(k)}
<1> HIDE DEF Solvable
<1>2. SUFFICES ASSUME T # {} PROVE FALSE
  <2>1. Solvable(m)
    BY <1>2
  <2> QED BY <2>1 DEF Solvable
<1>3. PICK k \in T : \A y \in T : k <= y
  <2>1. T \subseteq Nat
    OBVIOUS
  <2> QED BY <1>2, <2>1, LeastNatural
<1>4. Solvable(0)
  <2> DEFINE f == [n \in 0..0 |-> a]
  <2>1. f \in [0..0 -> S]
    OBVIOUS
  <2>2. f = [n \in 0..0 |-> IF n = 0 THEN a ELSE step[<<n, f[n - 1]>>]]
    OBVIOUS
  <2> QED BY <2>1, <2>2 DEF Solves, Solvable
<1>5. k \in 1..m /\ Solvable(k - 1)
  <2>1. k \in 0..m /\ k # 0
    BY <1>3, <1>4
  <2>2. k - 1 \in 0..m /\ ~(k <= k - 1)
    BY <2>1
  <2> QED BY <1>3, <2>1, <2>2
<1>6. PICK f : f \in [0..(k - 1) -> S] /\ \A n \in 0..(k - 1) : f[n] = IF n = 0 THEN a ELSE step[<<n, f[n - 1]>>]
  <2>1. PICK f : Solves(f, k - 1, S, a, step)
    BY <1>5 DEF Solvable
  <2>2. f \in [0..(k - 1) -> S] /\ f = [n \in 0..(k - 1) |-> IF n = 0 THEN a ELSE step[<<n, f[n - 1]>>]]
    BY <2>1 DEF Solves
  <2>3. \A n \in 0..(k - 1) : f[n] = IF n = 0 THEN a ELSE step[<<n, f[n - 1]>>]
    BY <2>2, Zenon
  <2> QED BY <2>2, <2>3
<1>7. PICK last \in S : last = step[<<k, f[k - 1]>>]
  BY <1>5, <1>6
<1> DEFINE g == [n \in 0..k |-> IF n = k THEN last ELSE f[n]]
<1>8. g \in [0..k -> S]
  BY <1>5, <1>6, <1>7
<1>9. ASSUME NEW n \in 0..k
      PROVE  g[n] = IF n = 0 THEN a ELSE step[<<n, g[n - 1]>>]
  <2>1. CASE n = k
    <3>1. n # 0 /\ n - 1 \in 0..k /\ n - 1 # k
      BY <2>1, <1>5
    <3>2. g[n] = last /\ g[n - 1] = f[n - 1]
      BY <2>1, <3>1
    <3> QED BY <2>1, <3>1, <3>2, <1>7
  <2>2. CASE n # k /\ n # 0
    <3>1. n \in 0..(k - 1) /\ n - 1 \in 0..k /\ n - 1 # k
      BY <2>2, <1>5
    <3>2. g[n] = f[n] /\ g[n - 1] = f[n - 1]
      BY <2>2, <3>1
    <3> QED BY <2>2, <3>1, <3>2, <1>6
  <2>3. CASE n # k /\ n = 0
    <3>1. g[n] = f[n] /\ n \in 0..(k - 1)
      BY <2>3, <1>5
    <3> QED BY <2>3, <3>1, <1>6
  <2> QED BY <2>1, <2>2, <2>3
<1> HIDE DEF g
<1>10. g = [n \in 0..k |-> IF n = 0 THEN a ELSE step[<<n, g[n - 1]>>]]
  BY <1>8, <1>9
<1>11. Solvable(k)
  BY <1>8, <1>10 DEF Solves, Solvable
<1> QED BY <1>3, <1>11


(* A quotient is determined by its bounds.                                 *)
LEMMA Quotient ==
  ASSUME NEW v \in Nat, NEW d \in Nat \ {0}, NEW e \in Nat, NEW r \in 0..(d - 1), v = d * e + r
  PROVE  v \div d = e /\ v % d = r
  OBVIOUS

(* Dividing twice is dividing by the product.                              *)
LEMMA DivideTwice ==
  ASSUME NEW v \in Nat, NEW d \in Nat \ {0}, NEW e \in Nat \ {0}
  PROVE  (v \div d) \div e = v \div (d * e)
<1>1. PICK x \in Nat, r \in 0..(d - 1) : v = d * x + r /\ x = v \div d
  <2>1. v \div d \in Nat /\ v % d \in 0..(d - 1) /\ v = d * (v \div d) + (v % d)
    OBVIOUS
  <2> QED BY <2>1
<1>2. PICK y \in Nat, s \in 0..(e - 1) : x = e * y + s /\ y = x \div e
  <2>1. x \div e \in Nat /\ x % e \in 0..(e - 1) /\ x = e * (x \div e) + (x % e)
    OBVIOUS
  <2> QED BY <2>1
<1>3. PICK t \in Nat : t = d * s + r
  OBVIOUS
<1>4. PICK m \in Nat \ {0} : m = d * e
  <2>1. d * e \in Nat \ {0}
    OBVIOUS
  <2> QED BY <2>1
<1>5. t \in 0..(m - 1)
  <2>1. d * s <= d * (e - 1)
    BY <1>2
  <2>2. d * (e - 1) = d * e - d
    OBVIOUS
  <2>3. PICK z \in Nat : z = d * s
    OBVIOUS
  <2> QED BY <1>1, <1>3, <1>4, <2>1, <2>2, <2>3
<1>6. v = m * y + t
  <2>1. d * (e * y + s) = (d * e) * y + d * s
    OBVIOUS
  <2>2. PICK z \in Nat, w \in Nat : z = d * s /\ w = (d * e) * y
    <3>1. d * s \in Nat /\ (d * e) * y \in Nat
      OBVIOUS
    <3> QED BY <3>1
  <2>3. d * x = w + z
    BY <1>2, <2>1, <2>2
  <2>4. v = w + z + r
    BY <1>1, <2>3
  <2>5. t = z + r /\ w = m * y
    BY <1>3, <1>4, <2>2
  <2> QED BY <2>4, <2>5
<1>7. v \div m = y
  BY <1>5, <1>6, Quotient
<1> QED BY <1>1, <1>2, <1>4, <1>7

(* 256^m: what m bytes can tell apart.                                     *)
Range256(m) == 2^(BYTE_BITS * m)

LEMMA Ranges ==
  ASSUME NEW m \in Nat
  PROVE  /\ Range256(m) \in Nat \ {0} /\ Range256(0) = 1 /\ 2^BYTE_BITS \in Nat \ {0}
         /\ Range256(m + 1) = Range256(m) * 2^BYTE_BITS
<1>1. BYTE_BITS \in Nat
  BY ProtocolAssumption
<1>2. PICK a \in Nat : a = BYTE_BITS * m
  BY <1>1
<1>3. BYTE_BITS * (m + 1) = a + BYTE_BITS /\ BYTE_BITS * 0 = 0
  BY <1>1, <1>2
<1>4. 2^a \in Nat \ {0} /\ 2^(a + BYTE_BITS) = 2^a * 2^BYTE_BITS /\ 2^BYTE_BITS \in Nat \ {0}
  BY <1>1, PowerSum
<1>5. 2^0 = 1
  OBVIOUS
<1> QED BY <1>2, <1>3, <1>4, <1>5 DEF Range256

(* The values from_be_bytes goes through.                                  *)
Accumulates(f, b) ==
  /\ f \in [0..Len(b) -> Nat] /\ f[0] = 0
  /\ \A i \in 1..Len(b) : f[i] = f[i - 1] * 2^BYTE_BITS + b[i]

LEMMA Accumulated ==
  ASSUME NEW b \in Seq(Bytes)
  PROVE  \E f : Accumulates(f, b) /\ from_be_bytes(b) = f[Len(b)]
<1>1. PICK B \in Nat \ {0} : B = 2^BYTE_BITS
  BY Ranges
<1>2. PICK n \in Nat : n = Len(b)
  OBVIOUS
<1>3. \A i \in 1..n : b[i] \in Nat
  BY <1>1, <1>2 DEF Bytes
<1> DEFINE step == [e \in (1..n) \X Nat |-> e[2] * B + b[e[1]]]
<1>4. step \in [(1..n) \X Nat -> Nat]
  <2>1. ASSUME NEW e \in (1..n) \X Nat PROVE e[2] * B + b[e[1]] \in Nat
    <3>1. e[1] \in 1..n /\ e[2] \in Nat
      OBVIOUS
    <3>2. PICK x \in Nat, y \in Nat : x = e[2] /\ y = b[e[1]]
      BY <3>1, <1>3
    <3>3. x * B + y \in Nat
      OBVIOUS
    <3> QED BY <3>2, <3>3
  <2> QED BY <2>1
<1>5. \A i \in 1..n, x \in Nat : step[<<i, x>>] = x * B + b[i]
  OBVIOUS
<1> HIDE DEF step
<1> DEFINE Is(f) == f = [i \in 0..n |-> IF i = 0 THEN 0 ELSE f[i - 1] * B + b[i]]
<1>6. PICK g : Solves(g, n, Nat, 0, step)
  <2>1. 0 \in Nat
    OBVIOUS
  <2> QED BY <2>1, <1>4, FiniteRecursion, Zenon
<1>7. g \in [0..n -> Nat] /\ g = [i \in 0..n |-> IF i = 0 THEN 0 ELSE step[<<i, g[i - 1]>>]]
  BY <1>6 DEF Solves
<1>8. ASSUME NEW i \in 0..n, i # 0 PROVE step[<<i, g[i - 1]>>] = g[i - 1] * B + b[i]
  <2>1. i \in 1..n /\ i - 1 \in 0..n
    BY <1>8
  <2>2. g[i - 1] \in Nat
    BY <1>7, <2>1
  <2> QED BY <2>1, <2>2, <1>5
<1>9. Is(g)
  <2>1. [i \in 0..n |-> IF i = 0 THEN 0 ELSE step[<<i, g[i - 1]>>]]
          = [i \in 0..n |-> IF i = 0 THEN 0 ELSE g[i - 1] * B + b[i]]
    BY <1>8
  <2> QED BY <1>7, <2>1, Zenon
<1> DEFINE f == CHOOSE x : Is(x)
<1>10. from_be_bytes(b) = f[n]
  BY <1>1, <1>2 DEF from_be_bytes
<1>11. Is(f)
  BY <1>9, Zenon
<1> HIDE DEF f
<1>12. f = [i \in 0..n |-> f[i]] /\ \A i \in 0..n : f[i] = IF i = 0 THEN 0 ELSE f[i - 1] * B + b[i]
  BY <1>11, Zenon
<1> HIDE DEF Is
<1> DEFINE T == {i \in 0..n : f[i] \notin Nat}
<1>13. T = {}
  <2>1. SUFFICES ASSUME T # {} PROVE FALSE
    OBVIOUS
  <2>2. T \subseteq Nat
    OBVIOUS
  <2>3. PICK i \in T : \A y \in T : i <= y
    BY <2>1, <2>2, LeastNatural
  <2>4. i # 0
    <3>1. 0 \in 0..n
      OBVIOUS
    <3>2. f[0] = 0
      BY <3>1, <1>12, Zenon
    <3>3. f[0] \in Nat
      BY <3>2
    <3> QED BY <2>3, <3>3, Zenon
  <2>5. i \in 1..n /\ i - 1 \in 0..n /\ f[i - 1] \in Nat
    BY <2>3, <2>4
  <2>6. PICK x \in Nat, y \in Nat : x = f[i - 1] /\ y = b[i]
    BY <2>5, <1>3
  <2>7. x * B + y \in Nat
    OBVIOUS
  <2>8. f[i] = x * B + y
    BY <2>4, <2>5, <2>6, <1>12
  <2> QED BY <2>3, <2>7, <2>8
<1>14. Accumulates(f, b)
  <2>1. f \in [0..n -> Nat]
    BY <1>12, <1>13
  <2>2. f[0] = 0 /\ \A i \in 1..n : f[i] = f[i - 1] * B + b[i]
    BY <1>12
  <2> QED BY <1>1, <1>2, <2>1, <2>2 DEF Accumulates
<1> QED BY <1>2, <1>10, <1>14

(* The bytes of a number.                                                  *)
LEMMA NumberBytes ==
  ASSUME NEW v \in Nat, NEW n \in Nat
  PROVE  /\ to_be_bytes(v, n) \in Seq(Bytes) /\ Len(to_be_bytes(v, n)) = n
         /\ \A i \in 1..n : to_be_bytes(v, n)[i] = (v \div Range256(n - i)) % 2^BYTE_BITS
<1>1. PICK e : e = to_be_bytes(v, n)
  OBVIOUS
<1>2. e = [i \in 1..n |-> (v \div Range256(n - i)) % 2^BYTE_BITS]
  BY <1>1 DEF to_be_bytes, Range256
<1>3. ASSUME NEW i \in 1..n PROVE e[i] \in Bytes
  <2>1. PICK r \in Nat \ {0}, B \in Nat \ {0} : r = Range256(n - i) /\ B = 2^BYTE_BITS
    BY Ranges
  <2>2. PICK x \in Nat : x = v \div r
    <3>1. v \div r \in Nat
      OBVIOUS
    <3> QED BY <3>1
  <2>3. x % B \in 0..(B - 1)
    OBVIOUS
  <2> QED BY <1>2, <2>1, <2>2, <2>3 DEF Bytes
<1>4. e \in Seq(Bytes) /\ Len(e) = n
  BY <1>2, <1>3
<1> QED BY <1>1, <1>2, <1>4

(* Writing a number of n bytes and reading it gives it back.               *)
LEMMA NumberRoundTrip ==
  ASSUME NEW n \in Nat, NEW v \in 0..(Range256(n) - 1)
  PROVE  from_be_bytes(to_be_bytes(v, n)) = v
<1>0. v \in Nat /\ v < Range256(n)
  BY Ranges
<1>1. PICK b \in Seq(Bytes) : b = to_be_bytes(v, n) /\ Len(b) = n
  BY <1>0, NumberBytes
<1>2. PICK f : Accumulates(f, b) /\ from_be_bytes(b) = f[n]
  BY <1>1, Accumulated
<1> DEFINE T == {i \in 0..n : f[i] # v \div Range256(n - i)}
<1>3. T = {}
  <2>1. SUFFICES ASSUME T # {} PROVE FALSE
    OBVIOUS
  <2>2. T \subseteq Nat
    OBVIOUS
  <2>3. PICK i \in T : \A y \in T : i <= y
    BY <2>1, <2>2, LeastNatural
  <2>4. i # 0
    <3>1. PICK r \in Nat \ {0} : r = Range256(n) /\ v < r
      BY <1>0, Ranges
    <3>2. v \div r = 0
      BY <1>0, <3>1
    <3>3. f[0] = 0 /\ n - 0 = n
      BY <1>2 DEF Accumulates
    <3> QED BY <2>3, <3>1, <3>2, <3>3
  <2>5. i \in 1..n /\ i - 1 \in 0..n /\ i - 1 \notin T
    BY <2>3, <2>4
  <2>6. PICK m \in Nat : m = n - i /\ m + 1 = n - (i - 1)
    BY <2>5
  <2>7. PICK r \in Nat \ {0}, B \in Nat \ {0} : r = Range256(m) /\ B = 2^BYTE_BITS /\ Range256(m + 1) = r * B
    BY Ranges
  <2>8. PICK x \in Nat : x = v \div r
    <3>1. v \div r \in Nat
      BY <1>0
    <3> QED BY <3>1
  <2>9. f[i - 1] = x \div B
    <3>1. f[i - 1] = v \div (r * B)
      BY <2>5, <2>6, <2>7
    <3>2. (v \div r) \div B = v \div (r * B)
      BY <1>0, DivideTwice
    <3> QED BY <2>8, <3>1, <3>2
  <2>10. b[i] = x % B
    <3>1. \A j \in 1..n : to_be_bytes(v, n)[j] = (v \div Range256(n - j)) % 2^BYTE_BITS
      BY <1>0, NumberBytes, Zenon
    <3>2. b[i] = (v \div Range256(n - i)) % 2^BYTE_BITS
      BY <1>1, <2>5, <3>1, Zenon
    <3> QED BY <2>6, <2>7, <2>8, <3>2, Zenon
  <2>11. f[i] = (x \div B) * B + (x % B)
    BY <1>1, <1>2, <2>5, <2>7, <2>9, <2>10 DEF Accumulates
  <2>12. (x \div B) * B + (x % B) = x
    OBVIOUS
  <2> QED BY <2>3, <2>6, <2>7, <2>8, <2>11, <2>12
<1>4. f[n] = v \div Range256(n - n)
  BY <1>3
<1>5. Range256(n - n) = 1 /\ v \div 1 = v
  BY <1>0, Ranges
<1> QED BY <1>1, <1>2, <1>4, <1>5

(* Reading n bytes gives a number that is written as these bytes.          *)
LEMMA BytesRoundTrip ==
  ASSUME NEW b \in Seq(Bytes)
  PROVE  /\ from_be_bytes(b) \in 0..(Range256(Len(b)) - 1)
         /\ to_be_bytes(from_be_bytes(b), Len(b)) = b
<1>1. PICK n \in Nat : n = Len(b)
  OBVIOUS
<1>2. PICK f : Accumulates(f, b) /\ from_be_bytes(b) = f[n]
  BY <1>1, Accumulated
<1>3. PICK B \in Nat \ {0} : B = 2^BYTE_BITS
  BY Ranges
<1>4. /\ \A i \in 0..n : f[i] \in Nat
      /\ f[0] = 0 /\ \A i \in 1..n : f[i] = f[i - 1] * B + b[i]
  BY <1>1, <1>2, <1>3 DEF Accumulates
<1>5. \A i \in 1..n : b[i] \in 0..(B - 1)
  BY <1>1, <1>3 DEF Bytes
<1> DEFINE T == {i \in 0..n : ~(f[i] < Range256(i))}
<1>6. T = {}
  <2>1. SUFFICES ASSUME T # {} PROVE FALSE
    OBVIOUS
  <2>2. T \subseteq Nat
    OBVIOUS
  <2>3. PICK i \in T : \A y \in T : i <= y
    BY <2>1, <2>2, LeastNatural
  <2>4. i # 0
    <3>1. Range256(0) = 1
      BY Ranges
    <3> QED BY <2>3, <1>4, <3>1
  <2>5. i \in 1..n /\ i - 1 \in 0..n /\ i - 1 \notin T /\ i - 1 \in Nat
    BY <2>3, <2>4
  <2>6. PICK r \in Nat \ {0} : r = Range256(i - 1) /\ Range256(i) = r * B
    <3>1. PICK m \in Nat : m = i - 1 /\ i = m + 1
      BY <2>5
    <3> QED BY <3>1, <1>3, Ranges
  <2>7. PICK x \in Nat, y \in 0..(B - 1) : x = f[i - 1] /\ y = b[i] /\ x < r /\ f[i] = x * B + y
    BY <2>5, <2>6, <1>4, <1>5
  <2>8. (x + 1) * B <= r * B
    <3>1. PICK k \in Nat : r = (x + 1) + k
      <4>1. x < r /\ r \in Nat
        BY <2>7
      <4>2. r - (x + 1) \in Nat /\ r = (x + 1) + (r - (x + 1))
        BY <4>1
      <4> QED BY <4>2
    <3>2. ((x + 1) + k) * B = (x + 1) * B + k * B
      OBVIOUS
    <3>3. PICK q \in Nat, l \in Nat : q = (x + 1) * B /\ l = k * B
      <4>1. (x + 1) * B \in Nat /\ k * B \in Nat
        OBVIOUS
      <4> QED BY <4>1
    <3>4. r * B = q + l
      BY <3>1, <3>2, <3>3, Zenon
    <3> QED BY <3>3, <3>4
  <2>9. (x + 1) * B = x * B + B
    OBVIOUS
  <2>10. x * B + y < r * B
    <3>1. PICK z \in Nat : z = x * B
      OBVIOUS
    <3>2. PICK w \in Nat : w = r * B
      OBVIOUS
    <3>3. z + B <= w
      BY <2>8, <2>9, <3>1, <3>2
    <3>4. z + y < w
      BY <3>3
    <3> QED BY <3>1, <3>2, <3>4
  <2> QED BY <2>3, <2>6, <2>7, <2>10
<1>7. PICK v \in Nat : v = f[n] /\ v < Range256(n)
  <2>1. n \in 0..n
    OBVIOUS
  <2>2. f[n] < Range256(n)
    BY <1>6, <2>1, Zenon
  <2> QED BY <1>4, <2>1, <2>2, Zenon
<1> DEFINE U == {m \in 0..n : v \div Range256(m) # f[n - m]}
<1>8. U = {}
  <2>1. SUFFICES ASSUME U # {} PROVE FALSE
    OBVIOUS
  <2>2. U \subseteq Nat
    OBVIOUS
  <2>3. PICK m \in U : \A y \in U : m <= y
    BY <2>1, <2>2, LeastNatural
  <2>4. m # 0
    <3>1. Range256(0) = 1 /\ v \div 1 = v /\ n - 0 = n
      BY Ranges
    <3> QED BY <2>3, <1>7, <3>1
  <2>5. PICK k \in Nat : m = k + 1 /\ k \in 0..n /\ k \notin U
    <3>1. m - 1 \in 0..n /\ m - 1 \notin U /\ m - 1 \in Nat /\ m = (m - 1) + 1
      BY <2>3, <2>4
    <3> QED BY <3>1
  <2>6. PICK r \in Nat \ {0} : r = Range256(k) /\ Range256(m) = r * B
    BY <1>3, <2>5, Ranges
  <2>7. n - k \in 1..n /\ n - m \in 0..n /\ (n - k) - 1 = n - m
    BY <2>3, <2>5
  <2>8. PICK x \in Nat, y \in 0..(B - 1) : x = f[n - m] /\ y = b[n - k] /\ f[n - k] = x * B + y
    BY <2>7, <1>4, <1>5
  <2>9. v \div r = x * B + y
    BY <2>5, <2>6, <2>8
  <2>10. v \div (r * B) = (x * B + y) \div B
    <3>1. (v \div r) \div B = v \div (r * B)
      BY DivideTwice
    <3> QED BY <2>9, <3>1
  <2>11. (x * B + y) \div B = x
    <3>1. PICK z \in Nat : z = x * B + y /\ z = B * x + y
      OBVIOUS
    <3>2. z \div B = x
      BY <3>1, Quotient
    <3> QED BY <3>1, <3>2
  <2> QED BY <2>3, <2>6, <2>8, <2>10, <2>11
<1>9. ASSUME NEW i \in 1..n PROVE to_be_bytes(v, n)[i] = b[i]
  <2>1. PICK m \in 0..n : m = n - i /\ n - m = i
    OBVIOUS
  <2>2. v \div Range256(m) = f[i]
    BY <1>8, <2>1
  <2>3. PICK x \in Nat, y \in 0..(B - 1) : x = f[i - 1] /\ y = b[i] /\ f[i] = x * B + y
    <3>1. i - 1 \in 0..n
      OBVIOUS
    <3> QED BY <1>4, <1>5, <3>1
  <2>4. (x * B + y) % B = y
    <3>1. PICK z \in Nat : z = x * B + y /\ z = B * x + y
      OBVIOUS
    <3>2. z % B = y
      BY <3>1, Quotient
    <3> QED BY <3>1, <3>2
  <2>5. to_be_bytes(v, n)[i] = (v \div Range256(m)) % B
    BY <1>3, <2>1, NumberBytes
  <2> QED BY <2>2, <2>3, <2>4, <2>5
<1>10. to_be_bytes(v, n) = b
  <2>1. PICK e \in Seq(Bytes) : e = to_be_bytes(v, n) /\ Len(e) = n
    BY NumberBytes
  <2>2. \A i \in 1..n : e[i] = b[i]
    BY <1>9, <2>1
  <2> QED BY <1>1, <2>1, <2>2, SeqEqual
<1>11. v \in 0..(Range256(n) - 1)
  <2>1. PICK r \in Nat : r = Range256(n)
    BY Ranges, Zenon
  <2> QED BY <1>7, <2>1
<1> QED BY <1>1, <1>2, <1>7, <1>10, <1>11, Zenon

----------------------------------------------------------------------------
(* Frames on a stream of bytes.                                            *)

(* Whatever a payload consists of, and what the bytes of a length are.     *)
Byte(Chars) ==
  Chars \cup {to_be_bytes(v, U32)[i] : v \in Nat, i \in 1..U32}

Limit == Range256(U32)

(* The bytes q are those of the stream S behind position from.             *)
Holds(S, from, q) ==
  from + Len(q) <= Len(S) /\ \A k \in 1..Len(q) : q[k] = S[from + k]

(* No bytes at all.                                                        *)
LEMMA Empty == ASSUME NEW T PROVE <<>> \in Seq(T) /\ Len(<<>>) = 0
  OBVIOUS

(* Concatenation.                                                          *)
LEMMA Joined ==
  ASSUME NEW T, NEW q \in Seq(T), NEW r \in Seq(T)
  PROVE  q \o r \in Seq(T) /\ Len(q \o r) = Len(q) + Len(r)
  OBVIOUS

(* Both parts of a piece that is cut lie where it lay.                     *)
LEMMA HoldsCut ==
  ASSUME NEW T, NEW S \in Seq(T), NEW f \in Nat, NEW q \in Seq(T), NEW n \in 0..Len(q),
         Holds(S, f, q)
  PROVE  /\ SubSeq(q, 1, n) \in Seq(T) /\ Len(SubSeq(q, 1, n)) = n
         /\ SubSeq(q, n + 1, Len(q)) \in Seq(T) /\ Len(SubSeq(q, n + 1, Len(q))) = Len(q) - n
         /\ Holds(S, f, SubSeq(q, 1, n)) /\ Holds(S, f + n, SubSeq(q, n + 1, Len(q)))
<1>1. SubSeq(q, 1, n) \in Seq(T) /\ Len(SubSeq(q, 1, n)) = n
  BY SubSeqProperties
<1>2. SubSeq(q, n + 1, Len(q)) \in Seq(T) /\ Len(SubSeq(q, n + 1, Len(q))) = Len(q) - n
  OBVIOUS
<1>3. \A k \in 1..n : SubSeq(q, 1, n)[k] = q[k]
  OBVIOUS
<1>4. \A k \in 1..(Len(q) - n) : SubSeq(q, n + 1, Len(q))[k] = q[n + k]
  OBVIOUS
<1>5. Holds(S, f, SubSeq(q, 1, n))
  BY <1>1, <1>3 DEF Holds
<1>6. Holds(S, f + n, SubSeq(q, n + 1, Len(q)))
  <2>1. PICK l \in Nat : l = Len(q) /\ n <= l
    OBVIOUS
  <2>2. ASSUME NEW k \in 1..(l - n)
        PROVE  SubSeq(q, n + 1, l)[k] = S[(f + n) + k]
    <3>1. n + k \in 1..l /\ f + (n + k) = (f + n) + k
      BY <2>1
    <3>2. q[n + k] = S[f + (n + k)]
      BY <2>1, <3>1 DEF Holds
    <3> QED BY <1>4, <2>1, <3>1, <3>2
  <2>3. (f + n) + (l - n) <= Len(S)
    BY <2>1 DEF Holds
  <2> QED BY <1>2, <2>1, <2>2, <2>3 DEF Holds
<1> QED BY <1>1, <1>2, <1>5, <1>6

(* Two pieces that lie behind each other are one.                          *)
LEMMA HoldsJoin ==
  ASSUME NEW T, NEW S \in Seq(T), NEW f \in Nat, NEW q \in Seq(T), NEW r \in Seq(T),
         Holds(S, f, q), Holds(S, f + Len(q), r)
  PROVE  q \o r \in Seq(T) /\ Len(q \o r) = Len(q) + Len(r) /\ Holds(S, f, q \o r)
<1>1. q \o r \in Seq(T) /\ Len(q \o r) = Len(q) + Len(r)
  OBVIOUS
<1>2. ASSUME NEW k \in 1..Len(q \o r) PROVE (q \o r)[k] = S[f + k]
  <2>1. CASE k <= Len(q)
    BY <1>1, <2>1 DEF Holds
  <2>2. CASE k > Len(q)
    <3>1. (q \o r)[k] = r[k - Len(q)]
      BY <1>1, <2>2
    <3>2. PICK m \in 1..Len(r) : m = k - Len(q)
      <4>1. k \in 1..(Len(q) + Len(r)) /\ Len(q) \in Nat /\ Len(r) \in Nat
        BY <1>1
      <4>2. k - Len(q) \in 1..Len(r)
        BY <4>1, <2>2
      <4> QED BY <4>2
    <3>3. r[m] = S[(f + Len(q)) + m] /\ (f + Len(q)) + m = f + k
      BY <3>2 DEF Holds
    <3> QED BY <3>1, <3>2, <3>3
  <2> QED BY <2>1, <2>2
<1>3. f + Len(q \o r) <= Len(S)
  BY <1>1 DEF Holds
<1> QED BY <1>1, <1>2, <1>3 DEF Holds

(* Two pieces that lie behind each other still do after a move of bytes.   *)
Moved(T, S, f, q, r, q2, r2) ==
  /\ q2 \in Seq(T) /\ r2 \in Seq(T)
  /\ Holds(S, f, q2) /\ Holds(S, f + Len(q2), r2)
  /\ Len(q2) + Len(r2) = Len(q) + Len(r)

(* The first n bytes of a piece move to the piece before it.               *)
LEMMA HoldsMove ==
  ASSUME NEW T, NEW S \in Seq(T), NEW f \in Nat, NEW q \in Seq(T), NEW r \in Seq(T),
         NEW n \in 0..Len(r), Holds(S, f, q), Holds(S, f + Len(q), r)
  PROVE  Moved(T, S, f, q, r, q \o SubSeq(r, 1, n), SubSeq(r, n + 1, Len(r)))
<1>q. PICK q2 : q2 = q \o SubSeq(r, 1, n)
  OBVIOUS
<1>r. PICK r2 : r2 = SubSeq(r, n + 1, Len(r))
  OBVIOUS
<1>1. PICK a \in Nat : a = Len(q)
  OBVIOUS
<1>2. PICK b \in Nat : b = Len(r)
  OBVIOUS
<1>3. PICK x : x = SubSeq(r, 1, n)
  OBVIOUS
<1>4. f + a \in Nat /\ Holds(S, f + a, r) /\ n \in Nat
  BY <1>1
<1>5. /\ x \in Seq(T) /\ Len(x) = n /\ r2 \in Seq(T) /\ Len(r2) = b - n
      /\ Holds(S, f + a, x) /\ Holds(S, (f + a) + n, r2)
  <2>1. /\ SubSeq(r, 1, n) \in Seq(T) /\ Len(SubSeq(r, 1, n)) = n
        /\ SubSeq(r, n + 1, Len(r)) \in Seq(T) /\ Len(SubSeq(r, n + 1, Len(r))) = Len(r) - n
        /\ Holds(S, f + a, SubSeq(r, 1, n)) /\ Holds(S, (f + a) + n, SubSeq(r, n + 1, Len(r)))
    BY <1>4, HoldsCut, Zenon
  <2> QED BY <1>r, <1>2, <1>3, <2>1, Zenon
<1>6. q \o x \in Seq(T) /\ Len(q \o x) = Len(q) + Len(x) /\ Holds(S, f, q \o x)
  BY <1>1, <1>5, HoldsJoin, Zenon
<1>7. q2 \in Seq(T) /\ Len(q2) = a + n /\ Holds(S, f, q2)
  BY <1>q, <1>1, <1>3, <1>5, <1>6, Zenon
<1>8. f + (a + n) = (f + a) + n /\ (a + n) + (b - n) = a + b
  BY <1>4
<1>9. Len(q2) + Len(r2) = Len(q) + Len(r) /\ Holds(S, f + Len(q2), r2)
  BY <1>1, <1>2, <1>5, <1>7, <1>8, Zenon
<1> QED BY <1>q, <1>r, <1>5, <1>7, <1>9, Zenon DEF Moved

(* What lies in a stream lies in its continuation.                         *)
LEMMA HoldsLonger ==
  ASSUME NEW T, NEW S \in Seq(T), NEW R \in Seq(T), NEW f \in Nat, NEW q \in Seq(T), Holds(S, f, q)
  PROVE  Holds(S \o R, f, q)
<1>1. Len(S \o R) = Len(S) + Len(R)
  OBVIOUS
<1>2. \A k \in 1..Len(S) : (S \o R)[k] = S[k]
  OBVIOUS
<1> QED BY <1>1, <1>2 DEF Holds

(* So does the continuation itself.                                        *)
LEMMA HoldsEnd ==
  ASSUME NEW T, NEW S \in Seq(T), NEW R \in Seq(T)
  PROVE  Holds(S \o R, Len(S), R)
<1>1. Len(S \o R) = Len(S) + Len(R)
  OBVIOUS
<1>2. \A k \in 1..Len(R) : (S \o R)[Len(S) + k] = R[k]
  OBVIOUS
<1> QED BY <1>1, <1>2 DEF Holds

(* Two sequences of one length at one place are equal.                     *)
LEMMA HoldsSame ==
  ASSUME NEW T, NEW S \in Seq(T), NEW f \in Nat, NEW q \in Seq(T), NEW r \in Seq(T),
         Holds(S, f, q), Holds(S, f, r), Len(q) = Len(r)
  PROVE  q = r
<1>1. \A k \in 1..Len(q) : q[k] = r[k]
  BY DEF Holds
<1> QED BY <1>1, SeqEqual

(* The stream S is the accepted frames behind each other, the i-th one     *)
(* from position starts[i] on: its length, then its payload.               *)
Framed(S, starts, off) ==
  /\ starts[1] = 0 /\ Len(S) = starts[Len(off) + 1]
  /\ \A i \in 1..Len(off) :
       /\ starts[i + 1] = starts[i] + U32 + Len(off[i])
       /\ Holds(S, starts[i], to_be_bytes(Len(off[i]), U32))
       /\ Holds(S, starts[i] + U32, off[i])

(* From a position on the reader, the connection and the writer hold the   *)
(* rest of the stream, or the beginning of it once the connection broke.   *)
Carried(S, from, b, w, p, open) ==
  /\ Holds(S, from, b) /\ Holds(S, from + Len(b), w)
  /\ open = TRUE =>
       /\ Holds(S, from + Len(b) + Len(w), p)
       /\ from + Len(b) + Len(w) + Len(p) = Len(S)

(* Where the current read_exact of the reader started.                     *)
Start(starts, d, h) == starts[d + 1] + (IF h = TRUE THEN 0 ELSE U32)

(* What it waits for is what the frame has.                                *)
Awaits(off, d, h, n) ==
  /\ h = TRUE => n = U32
  /\ h = FALSE => d < Len(off) /\ n = Len(off[d + 1])

FrameTypes(Chars) ==
  /\ pending \in Seq(Byte(Chars)) /\ transit \in Seq(Byte(Chars)) /\ buf \in Seq(Byte(Chars))
  /\ offered \in Seq(Seq(Byte(Chars))) /\ delivered \in Seq(Seq(Byte(Chars)))
  /\ \A i \in 1..Len(offered) : Len(offered[i]) < Limit
  /\ header \in BOOLEAN /\ connected \in BOOLEAN /\ failed \in BOOLEAN
  /\ Len(delivered) <= Len(offered)

StreamInv(Chars) ==
  \E S \in Seq(Byte(Chars)), starts \in [1..(Len(offered) + 1) -> Nat] :
    /\ Framed(S, starts, offered)
    /\ Carried(S, Start(starts, Len(delivered), header), buf, transit, pending, connected)

FrameInv(Chars) ==
  FrameTypes(Chars) /\ Awaits(offered, Len(delivered), header, need) /\ StreamInv(Chars)

(* A step that writes no frame keeps the stream.                           *)
LEMMA SameStream ==
  ASSUME NEW Chars, NEW S \in Seq(Byte(Chars)), NEW starts \in [1..(Len(offered) + 1) -> Nat],
         Framed(S, starts, offered), offered' = offered,
         Carried(S, Start(starts, Len(delivered)', header'), buf', transit', pending', connected')
  PROVE  StreamInv(Chars)'
<1>1. Byte(Chars)' = Byte(Chars)
  BY DEF Byte, to_be_bytes
<1> QED BY <1>1 DEF StreamInv

(* The bytes of a length.                                                  *)
LEMMA LengthBytes ==
  ASSUME NEW Chars, U32 \in Nat \ {0}, NEW v \in Nat
  PROVE  to_be_bytes(v, U32) \in Seq(Byte(Chars)) /\ Len(to_be_bytes(v, U32)) = U32
<1>1. PICK e : e = to_be_bytes(v, U32)
  OBVIOUS
<1>2. e = [i \in 1..U32 |-> e[i]]
  BY <1>1 DEF to_be_bytes
<1>3. \A i \in 1..U32 : e[i] \in Byte(Chars)
  BY <1>1 DEF Byte
<1>4. e \in Seq(Byte(Chars)) /\ Len(e) = U32
  BY <1>2, <1>3
<1> QED BY <1>1, <1>4

(* Positions are naturals.                                                 *)
LEMMA Starts ==
  ASSUME U32 \in Nat \ {0}, NEW Chars, FrameTypes(Chars),
         NEW starts \in [1..(Len(offered) + 1) -> Nat]
  PROVE  /\ Len(delivered) + 1 \in 1..(Len(offered) + 1) /\ Len(delivered) \in Nat
         /\ Start(starts, Len(delivered), header) \in Nat
<1>1. Len(delivered) + 1 \in 1..(Len(offered) + 1) /\ Len(delivered) \in Nat /\ Len(offered) \in Nat
  BY DEF FrameTypes
<1>2. starts[Len(delivered) + 1] \in Nat
  BY <1>1
<1> QED BY <1>1, <1>2 DEF Start

(* The time-out and the end of the stream leave all bytes where they are.  *)
LEMMA GiveUpInv ==
  ASSUME NEW Chars, FrameInv(Chars), failed' = TRUE,
         offered' = offered, pending' = pending, transit' = transit, connected' = connected,
         need' = need, header' = header, buf' = buf, delivered' = delivered
  PROVE  FrameInv(Chars)'
<1>1. FrameTypes(Chars)'
  BY DEF FrameInv, FrameTypes, Byte, Limit, Range256, to_be_bytes
<1>2. Awaits(offered, Len(delivered), header, need)'
  BY DEF FrameInv, Awaits
<1>3. PICK S \in Seq(Byte(Chars)), starts \in [1..(Len(offered) + 1) -> Nat] :
        /\ Framed(S, starts, offered)
        /\ Carried(S, Start(starts, Len(delivered), header), buf, transit, pending, connected)
  BY DEF FrameInv, StreamInv
<1>4. StreamInv(Chars)'
  BY <1>3, SameStream
<1> QED BY <1>1, <1>2, <1>4 DEF FrameInv

(* A piece is written: it moves from the writer to the connection.         *)
LEMMA WritePieceInv ==
  ASSUME U32 \in Nat \ {0}, NEW Chars, FrameInv(Chars), write_piece
  PROVE  FrameInv(Chars)'
<1> DEFINE T == Byte(Chars)
<1>1. PICK n \in 1..Len(pending) :
        /\ transit' = transit \o SubSeq(pending, 1, n)
        /\ pending' = SubSeq(pending, n + 1, Len(pending))
  BY DEF write_piece
<1>2. /\ connected = TRUE /\ offered' = offered /\ connected' = connected /\ need' = need
      /\ header' = header /\ buf' = buf /\ delivered' = delivered /\ failed' = failed
  BY DEF write_piece, reader, FrameInv, FrameTypes
<1>3. PICK S \in Seq(T), starts \in [1..(Len(offered) + 1) -> Nat] :
        /\ Framed(S, starts, offered)
        /\ Carried(S, Start(starts, Len(delivered), header), buf, transit, pending, connected)
  BY DEF FrameInv, StreamInv
<1>4. PICK c \in Nat : c = Start(starts, Len(delivered), header)
  BY Starts DEF FrameInv
<1>5. pending \in Seq(T) /\ transit \in Seq(T) /\ buf \in Seq(T)
  BY DEF FrameInv, FrameTypes
<1>6. PICK e \in Nat : e = c + Len(buf)
  BY <1>5
<1>7. PICK g \in Nat : g = e + Len(transit)
  BY <1>5
<1> HIDE DEF T
<1>8. Holds(S, c, buf) /\ Holds(S, e, transit) /\ Holds(S, g, pending) /\ g + Len(pending) = Len(S)
  BY <1>2, <1>3, <1>4, <1>6, <1>7 DEF Carried
<1>9. /\ transit' \in Seq(T) /\ pending' \in Seq(T) /\ Holds(S, e, transit')
      /\ Holds(S, e + Len(transit'), pending')
      /\ Len(transit') + Len(pending') = Len(transit) + Len(pending)
  <2>1. n \in 0..Len(pending)
    BY <1>5
  <2>2. e \in Nat /\ Holds(S, e, transit) /\ Holds(S, e + Len(transit), pending)
    BY <1>7, <1>8
  <2>3. Moved(T, S, e, transit, pending, transit', pending')
    BY <1>1, <1>3, <1>5, <2>1, <2>2, HoldsMove, Zenon
  <2> QED BY <2>3 DEF Moved
<1>11. Carried(S, c, buf, transit', pending', TRUE)
  <2>1. /\ Len(buf) \in Nat /\ Len(transit) \in Nat /\ Len(pending) \in Nat
        /\ Len(transit') \in Nat /\ Len(pending') \in Nat
    BY <1>5, <1>9
  <2>2. Len(transit') + Len(pending') = Len(transit) + Len(pending) /\ g + Len(pending) = Len(S)
    BY <1>8, <1>9
  <2>3. c + Len(buf) + Len(transit') + Len(pending') = Len(S)
    <3> DEFINE a == Len(transit')  b == Len(pending')
    <3>1. (c + Len(buf) + a) + b = (c + Len(buf) + Len(transit)) + Len(pending)
      <4> HIDE DEF a, b
      <4>1. a \in Nat /\ b \in Nat /\ a + b = Len(transit) + Len(pending)
        BY <2>1, <2>2 DEF a, b
      <4> QED BY <2>1, <4>1, SMTT(30)
    <3> QED BY <2>2, <3>1, <1>6, <1>7
  <2> QED BY <1>6, <1>8, <1>9, <2>3 DEF Carried
<1>12. StreamInv(Chars)'
  <2>1. Carried(S, Start(starts, Len(delivered)', header'), buf', transit', pending', connected')
    BY <1>2, <1>4, <1>11
  <2> QED BY <1>2, <1>3, <2>1, SameStream DEF T
<1>13. FrameTypes(Chars)'
  BY <1>2, <1>9 DEF FrameInv, FrameTypes, Byte, Limit, Range256, to_be_bytes, T
<1>14. Awaits(offered, Len(delivered), header, need)'
  BY <1>2 DEF FrameInv, Awaits
<1> QED BY <1>12, <1>13, <1>14 DEF FrameInv

(* The connection breaks: the bytes that still arrive are the first ones.  *)
LEMMA DisconnectInv ==
  ASSUME U32 \in Nat \ {0}, NEW Chars, FrameInv(Chars), disconnect
  PROVE  FrameInv(Chars)'
<1> DEFINE T == Byte(Chars)
<1>1. PICK n \in 0..Len(transit) : transit' = SubSeq(transit, 1, n)
  BY DEF disconnect
<1>2. /\ connected' = FALSE /\ offered' = offered /\ pending' = pending /\ need' = need
      /\ header' = header /\ buf' = buf /\ delivered' = delivered /\ failed' = failed
  BY DEF disconnect, reader, writer
<1>3. PICK S \in Seq(T), starts \in [1..(Len(offered) + 1) -> Nat] :
        /\ Framed(S, starts, offered)
        /\ Carried(S, Start(starts, Len(delivered), header), buf, transit, pending, connected)
  BY DEF FrameInv, StreamInv
<1>4. PICK c \in Nat : c = Start(starts, Len(delivered), header)
  BY Starts DEF FrameInv
<1>5. transit \in Seq(T) /\ buf \in Seq(T)
  BY DEF FrameInv, FrameTypes
<1> HIDE DEF T
<1>6. Holds(S, c, buf) /\ Holds(S, c + Len(buf), transit) /\ c + Len(buf) \in Nat
  BY <1>3, <1>4, <1>5 DEF Carried
<1>7. transit' \in Seq(T) /\ Holds(S, c + Len(buf), transit')
  BY <1>1, <1>5, <1>6, HoldsCut
<1>8. StreamInv(Chars)'
  <2>1. Carried(S, Start(starts, Len(delivered)', header'), buf', transit', pending', connected')
    BY <1>2, <1>4, <1>6, <1>7 DEF Carried
  <2> QED BY <1>2, <1>3, <2>1, SameStream DEF T
<1>9. FrameTypes(Chars)'
  <2>1. connected' \in BOOLEAN
    BY <1>2
  <2> QED BY <1>2, <1>7, <2>1 DEF FrameInv, FrameTypes, Byte, Limit, Range256, to_be_bytes, T
<1>10. Awaits(offered, Len(delivered), header, need)'
  BY <1>2 DEF FrameInv, Awaits
<1> QED BY <1>8, <1>9, <1>10 DEF FrameInv

(* A piece is read: it moves from the connection to the reader.            *)
LEMMA ReadPieceInv ==
  ASSUME U32 \in Nat \ {0}, NEW Chars, FrameInv(Chars), read_piece
  PROVE  FrameInv(Chars)'
<1> DEFINE T == Byte(Chars)
<1>1. PICK n \in 1..(need - Len(buf)) :
        /\ n <= Len(transit)
        /\ buf' = buf \o SubSeq(transit, 1, n)
        /\ transit' = SubSeq(transit, n + 1, Len(transit))
  BY DEF read_piece
<1>2. /\ connected' = connected /\ offered' = offered /\ pending' = pending /\ need' = need
      /\ header' = header /\ delivered' = delivered /\ failed' = failed
  BY DEF read_piece, writer
<1>3. PICK S \in Seq(T), starts \in [1..(Len(offered) + 1) -> Nat] :
        /\ Framed(S, starts, offered)
        /\ Carried(S, Start(starts, Len(delivered), header), buf, transit, pending, connected)
  BY DEF FrameInv, StreamInv
<1>4. PICK c \in Nat : c = Start(starts, Len(delivered), header)
  BY Starts DEF FrameInv
<1>5. transit \in Seq(T) /\ buf \in Seq(T) /\ pending \in Seq(T)
  BY DEF FrameInv, FrameTypes
<1>6. PICK e \in Nat : e = c + Len(buf)
  BY <1>5
<1> HIDE DEF T
<1>7. Holds(S, c, buf) /\ Holds(S, e, transit)
  BY <1>3, <1>4, <1>6 DEF Carried
<1>8. n \in 0..Len(transit)
  BY <1>1, <1>5
<1>9. /\ buf' \in Seq(T) /\ transit' \in Seq(T) /\ Holds(S, c, buf')
      /\ Holds(S, c + Len(buf'), transit')
      /\ Len(buf') + Len(transit') = Len(buf) + Len(transit)
  <2>1. Holds(S, c, buf) /\ Holds(S, c + Len(buf), transit)
    BY <1>6, <1>7
  <2>2. Moved(T, S, c, buf, transit, buf', transit')
    BY <1>1, <1>3, <1>4, <1>5, <1>8, <2>1, HoldsMove, Zenon
  <2> QED BY <2>2 DEF Moved
<1>11. Carried(S, c, buf', transit', pending, connected)
  <2>1. /\ Len(buf) \in Nat /\ Len(transit) \in Nat /\ Len(pending) \in Nat
        /\ Len(transit') \in Nat /\ Len(buf') \in Nat
    BY <1>5, <1>9
  <2>2. Len(buf') + Len(transit') = Len(buf) + Len(transit)
    BY <1>9
  <2>3. c + Len(buf') + Len(transit') = c + Len(buf) + Len(transit)
    BY <2>1, <2>2
  <2>4. c + Len(buf') + Len(transit') + Len(pending) = c + Len(buf) + Len(transit) + Len(pending)
    BY <2>3
  <2> QED BY <1>3, <1>4, <1>9, <2>3, <2>4 DEF Carried
<1>12. StreamInv(Chars)'
  <2>1. Carried(S, Start(starts, Len(delivered)', header'), buf', transit', pending', connected')
    BY <1>2, <1>4, <1>11
  <2> QED BY <1>2, <1>3, <2>1, SameStream DEF T
<1>13. FrameTypes(Chars)'
  BY <1>2, <1>9 DEF FrameInv, FrameTypes, Byte, Limit, Range256, to_be_bytes, T
<1>14. Awaits(offered, Len(delivered), header, need)'
  BY <1>2 DEF FrameInv, Awaits
<1> QED BY <1>12, <1>13, <1>14 DEF FrameInv

(* A frame is accepted: its bytes continue the stream.                     *)
LEMMA WriteFrameInv ==
  ASSUME U32 \in Nat \ {0}, NEW Chars, Payloads \subseteq Seq(Chars), FrameInv(Chars),
         NEW p \in Payloads, write_frame(p)
  PROVE  /\ FrameInv(Chars)'
         /\ offered' = offered \/ offered' = Append(offered, p)
         /\ delivered' = delivered /\ failed' = failed
<1> DEFINE T == Byte(Chars)
           len == to_be_bytes(Len(p), U32)
<1>1. /\ connected = TRUE /\ pending = <<>> /\ connected' = connected /\ need' = need /\ transit' = transit
      /\ header' = header /\ buf' = buf /\ delivered' = delivered /\ failed' = failed
  BY DEF write_frame, reader, FrameInv, FrameTypes
<1>2. CASE ~(Len(p) < Limit)
  <2>1. pending' = pending /\ offered' = offered
    BY <1>2 DEF write_frame, Limit, Range256
  <2>2. FrameTypes(Chars)'
    BY <1>1, <2>1 DEF FrameInv, FrameTypes, Byte, Limit, Range256, to_be_bytes
  <2>3. Awaits(offered, Len(delivered), header, need)'
    BY <1>1, <2>1 DEF FrameInv, Awaits
  <2>4. StreamInv(Chars)'
    <3>1. PICK S \in Seq(T), starts \in [1..(Len(offered) + 1) -> Nat] :
            /\ Framed(S, starts, offered)
            /\ Carried(S, Start(starts, Len(delivered), header), buf, transit, pending, connected)
      BY DEF FrameInv, StreamInv
    <3>2. Carried(S, Start(starts, Len(delivered)', header'), buf', transit', pending', connected')
      BY <1>1, <2>1, <3>1
    <3> QED BY <2>1, <3>1, <3>2, SameStream
  <2> QED BY <1>1, <2>1, <2>2, <2>3, <2>4 DEF FrameInv
<1>3. CASE Len(p) < Limit
  <2>1. pending' = len \o p /\ offered' = Append(offered, p)
    BY <1>3 DEF write_frame, Limit, Range256
  <2>2. p \in Seq(T) /\ Len(p) \in Nat
    BY DEF Byte
  <2>3. len \in Seq(T) /\ Len(len) = U32
    BY <2>2, LengthBytes
  <2>4. PICK S \in Seq(T), starts \in [1..(Len(offered) + 1) -> Nat] :
          /\ Framed(S, starts, offered)
          /\ Carried(S, Start(starts, Len(delivered), header), buf, transit, pending, connected)
    BY DEF FrameInv, StreamInv
  <2>5. PICK n \in Nat : n = Len(offered) /\ Len(delivered) <= n
    BY DEF FrameInv, FrameTypes
  <2>6. PICK c \in Nat : c = Start(starts, Len(delivered), header)
    BY Starts DEF FrameInv
  <2>7. offered \in Seq(Seq(T)) /\ delivered \in Seq(Seq(T)) /\ buf \in Seq(T) /\ transit \in Seq(T)
    BY DEF FrameInv, FrameTypes
  <2>8. \A i \in 1..n : Len(offered[i]) < Limit
    BY <2>5 DEF FrameInv, FrameTypes
  <2> HIDE DEF T, len
  <2>9. /\ offered' \in Seq(Seq(T)) /\ Len(offered') = n + 1 /\ offered'[n + 1] = p
        /\ \A i \in 1..n : offered'[i] = offered[i]
    BY <2>1, <2>2, <2>5, <2>7
  <2>a. starts \in [1..(n + 1) -> Nat]
    BY <2>5
  <2>10. len \o p \in Seq(T) /\ Len(len \o p) = U32 + Len(p)
    BY <2>2, <2>3, Joined, Zenon
  <2>11. PICK R \in Seq(T) : R = S \o (len \o p)
    BY <2>10, Joined, Zenon
  <2>12. Len(R) = Len(S) + (U32 + Len(p))
    BY <2>10, <2>11, Joined, ZenonT(60)
  <2>13. Holds(R, Len(S), len \o p)
    BY <2>10, <2>11, HoldsEnd
  <2>14. Holds(R, Len(S), len) /\ Holds(R, Len(S) + U32, p)
    <3>1. R = (S \o len) \o p
      <4>1. (S \o len) \o p = S \o (len \o p)
        BY <2>2, <2>3, ConcatAssociative, SMTT(30)
      <4> QED BY <2>11, <4>1, Zenon
    <3>2. S \o len \in Seq(T) /\ Len(S \o len) = Len(S) + U32
      BY <2>3, Joined, Zenon
    <3>3. Holds(S \o len, Len(S), len)
      BY <2>3, HoldsEnd
    <3>4. Len(S) \in Nat
      OBVIOUS
    <3> QED BY <2>2, <2>3, <3>1, <3>2, <3>3, <3>4, HoldsLonger, HoldsEnd
  <2>15. PICK starts2 \in [1..((n + 1) + 1) -> Nat] :
           starts2 = [i \in 1..((n + 1) + 1) |-> IF i <= n + 1 THEN starts[i] ELSE Len(R)]
    <3>1. Len(R) \in Nat /\ \A i \in 1..(n + 1) : starts[i] \in Nat
      BY <2>a
    <3>2. \A i \in 1..((n + 1) + 1) : i <= n + 1 => i \in 1..(n + 1)
      OBVIOUS
    <3> QED BY <3>1, <3>2
  <2>16. (\A i \in 1..(n + 1) : starts2[i] = starts[i]) /\ starts2[(n + 1) + 1] = Len(R)
    BY <2>15
  <2>17. Framed(R, starts2, offered')
    <3>1. starts2[1] = 0 /\ Len(R) = starts2[Len(offered') + 1]
      BY <2>4, <2>9, <2>16, SMTT(30) DEF Framed
    <3>2. ASSUME NEW i \in 1..n
          PROVE  /\ starts2[i + 1] = starts2[i] + U32 + Len(offered'[i])
                 /\ Holds(R, starts2[i], to_be_bytes(Len(offered'[i]), U32))
                 /\ Holds(R, starts2[i] + U32, offered'[i])
      <4>1. starts2[i + 1] = starts[i + 1] /\ starts2[i] = starts[i] /\ offered'[i] = offered[i]
        <5>1. i + 1 \in 1..(n + 1) /\ i \in 1..(n + 1)
          OBVIOUS
        <5> QED BY <2>9, <2>16, <5>1
      <4>2. PICK o \in Seq(T) : o = offered[i]
        BY <2>5, <2>7
      <4>3. /\ starts[i + 1] = starts[i] + U32 + Len(o)
            /\ Holds(S, starts[i], to_be_bytes(Len(o), U32))
            /\ Holds(S, starts[i] + U32, o)
        BY <2>4, <2>5, <4>2 DEF Framed
      <4>4. PICK lo \in Seq(T) : lo = to_be_bytes(Len(o), U32)
        BY <4>2, LengthBytes DEF T
      <4>5. starts[i] \in Nat /\ starts[i] + U32 \in Nat
        <5>1. i \in 1..(n + 1)
          OBVIOUS
        <5>2. starts[i] \in Nat
          BY <2>a, <5>1
        <5> QED BY <5>2, SMTT(30)
      <4>6. Holds(R, starts[i], lo) /\ Holds(R, starts[i] + U32, o)
        BY <2>10, <2>11, <4>3, <4>4, <4>5, HoldsLonger
      <4> QED BY <4>1, <4>2, <4>3, <4>4, <4>6
    <3>3. /\ starts2[(n + 1) + 1] = starts2[n + 1] + U32 + Len(offered'[n + 1])
          /\ Holds(R, starts2[n + 1], to_be_bytes(Len(offered'[n + 1]), U32))
          /\ Holds(R, starts2[n + 1] + U32, offered'[n + 1])
      <4>1. starts2[n + 1] = Len(S)
        <5>1. n + 1 \in 1..(n + 1) /\ Len(S) = starts[n + 1]
          BY <2>4, <2>5 DEF Framed
        <5> QED BY <2>16, <5>1
      <4>2. Len(S) + (U32 + Len(p)) = Len(S) + U32 + Len(p)
        BY <2>2
      <4> QED BY <2>9, <2>12, <2>14, <2>16, <4>1, <4>2 DEF len
    <3>4. \A i \in 1..(n + 1) : i \in 1..n \/ i = n + 1
      OBVIOUS
    <3> QED BY <2>9, <3>1, <3>2, <3>3, <3>4 DEF Framed
  <2>18. Start(starts2, Len(delivered)', header') = c
    <3>1. Len(delivered) + 1 \in 1..(n + 1)
      BY <2>5, <2>7
    <3> QED BY <1>1, <2>6, <2>16, <3>1 DEF Start
  <2>19. Carried(R, c, buf', transit', pending', connected')
    <3>1. /\ Holds(S, c, buf) /\ Holds(S, c + Len(buf), transit)
          /\ c + Len(buf) + Len(transit) + Len(pending) = Len(S) /\ Len(pending) = 0
      BY <1>1, <2>4, <2>6 DEF Carried
    <3>2. /\ Len(buf) \in Nat /\ Len(transit) \in Nat /\ c + Len(buf) \in Nat
          /\ c + Len(buf) + Len(transit) \in Nat
      BY <2>7
    <3>3. c + Len(buf) + Len(transit) = Len(S)
      BY <3>1, <3>2
    <3>4. Holds(R, c, buf) /\ Holds(R, c + Len(buf), transit)
      BY <2>7, <2>10, <2>11, <3>1, <3>2, HoldsLonger
    <3>5. Len(S) + Len(len \o p) = Len(R)
      BY <2>10, <2>12
    <3> QED BY <1>1, <2>1, <2>13, <3>3, <3>4, <3>5 DEF Carried
  <2>20. StreamInv(Chars)'
    <3>1. Byte(Chars)' = T
      BY DEF T, Byte, to_be_bytes
    <3>2. 1..(Len(offered') + 1) = 1..((n + 1) + 1)
      BY <2>9
    <3>3. Framed(R, starts2, offered') /\ Carried(R, Start(starts2, Len(delivered)', header'), buf', transit', pending', connected')
      BY <2>17, <2>18, <2>19
    <3> QED BY <3>1, <3>2, <3>3 DEF StreamInv
  <2>21. FrameTypes(Chars)'
    <3>1. Byte(Chars)' = T /\ Limit' = Limit
      BY DEF T, Byte, Limit, Range256, to_be_bytes
    <3>2. \A i \in 1..(n + 1) : Len(offered'[i]) < Limit
      <4>1. \A i \in 1..(n + 1) : i \in 1..n \/ i = n + 1
        OBVIOUS
      <4> QED BY <1>3, <2>8, <2>9, <4>1, Zenon
    <3>3. Len(delivered') <= Len(offered') /\ Len(offered') = n + 1
      BY <1>1, <2>5, <2>7, <2>9
    <3>4. header' \in BOOLEAN /\ connected' \in BOOLEAN /\ failed' \in BOOLEAN
      BY <1>1 DEF FrameInv, FrameTypes
    <3>5. /\ pending' \in Seq(T) /\ transit' \in Seq(T) /\ buf' \in Seq(T)
          /\ offered' \in Seq(Seq(T)) /\ delivered' \in Seq(Seq(T))
      BY <1>1, <2>1, <2>7, <2>9, <2>10
    <3> QED BY <3>1, <3>2, <3>3, <3>4, <3>5 DEF FrameTypes
  <2>22. Awaits(offered, Len(delivered), header, need)'
    <3>1. Awaits(offered, Len(delivered), header, need) /\ Len(delivered) \in Nat
      BY <2>7 DEF FrameInv
    <3>2. Len(delivered) < n => Len(delivered) + 1 \in 1..n
      BY <3>1
    <3> QED BY <1>1, <2>5, <2>9, <3>1, <3>2 DEF Awaits
  <2> QED BY <1>1, <2>1, <2>20, <2>21, <2>22 DEF FrameInv
<1> QED BY <1>2, <1>3

(* The reader has a whole length: it is that of the next frame.            *)
LEMMA LengthReadInv ==
  ASSUME U32 \in Nat \ {0}, NEW Chars, FrameInv(Chars), length_read
  PROVE  FrameInv(Chars)'
<1> DEFINE T == Byte(Chars)
<1>1. /\ header = TRUE /\ Len(buf) = need /\ delivered' = delivered /\ offered' = offered
      /\ pending' = pending /\ transit' = transit /\ connected' = connected
  BY DEF length_read, writer, FrameInv, FrameTypes
<1>2. CASE from_be_bytes(buf) > MAX_FRAME
  <2>1. failed' = TRUE /\ need' = need /\ header' = header /\ buf' = buf
    BY <1>2 DEF length_read
  <2> QED BY <1>1, <2>1, GiveUpInv
<1>3. CASE ~(from_be_bytes(buf) > MAX_FRAME)
  <2>1. need' = from_be_bytes(buf) /\ header' = FALSE /\ buf' = <<>> /\ failed' = failed
    BY <1>3 DEF length_read
  <2>2. PICK S \in Seq(T), starts \in [1..(Len(offered) + 1) -> Nat] :
          /\ Framed(S, starts, offered)
          /\ Carried(S, Start(starts, Len(delivered), header), buf, transit, pending, connected)
    BY DEF FrameInv, StreamInv
  <2>3. PICK n \in Nat : n = Len(offered)
    BY DEF FrameInv, FrameTypes
  <2>4. PICK d \in Nat : d = Len(delivered) /\ d <= n
    BY <2>3 DEF FrameInv, FrameTypes
  <2>5. starts \in [1..(n + 1) -> Nat] /\ d + 1 \in 1..(n + 1)
    BY <2>3, <2>4
  <2>6. PICK c \in Nat : c = starts[d + 1]
    BY <2>5
  <2>7. /\ offered \in Seq(Seq(T)) /\ delivered \in Seq(Seq(T))
        /\ pending \in Seq(T) /\ transit \in Seq(T) /\ buf \in Seq(T)
    BY DEF FrameInv, FrameTypes
  <2>8. Len(buf) = U32
    BY <1>1 DEF FrameInv, Awaits
  <2>9. Carried(S, c, buf, transit, pending, connected)
    BY <1>1, <2>2, <2>4, <2>6 DEF Start
  <2> HIDE DEF T
  <2>10. d < n
    <3>1. SUFFICES ASSUME d = n PROVE FALSE
      BY <2>4
    <3>2. Len(S) = c /\ c + Len(buf) <= Len(S)
      BY <2>2, <2>3, <2>6, <2>9, <3>1 DEF Framed, Carried, Holds
    <3> QED BY <2>8, <3>2
  <2>11. PICK o \in Seq(T) : o = offered[d + 1] /\ Len(o) < Limit
    <3>1. d + 1 \in 1..n
      BY <2>10
    <3> QED BY <2>3, <2>7, <3>1 DEF FrameInv, FrameTypes
  <2>12. PICK lo \in Seq(T) : lo = to_be_bytes(Len(o), U32) /\ Len(lo) = U32
    BY <2>11, LengthBytes DEF T
  <2>13. Holds(S, c, lo)
    <3>1. d + 1 \in 1..n
      BY <2>10
    <3> QED BY <2>2, <2>3, <2>6, <2>11, <2>12, <3>1 DEF Framed
  <2>14. buf = lo
    BY <2>7, <2>8, <2>9, <2>12, <2>13, HoldsSame DEF Carried
  <2>15. need' = Len(o)
    <3>1. Limit \in Nat /\ \A m \in 0..(Limit - 1) : from_be_bytes(to_be_bytes(m, U32)) = m
      BY Ranges, NumberRoundTrip, Zenon DEF Limit
    <3>2. Len(o) \in 0..(Limit - 1)
      BY <2>11, <3>1
    <3> QED BY <2>1, <2>12, <2>14, <3>1, <3>2
  <2>16. Awaits(offered, Len(delivered), header, need)'
    BY <1>1, <2>1, <2>3, <2>4, <2>10, <2>11, <2>15 DEF Awaits
  <2>17. Carried(S, c + U32, <<>>, transit, pending, connected)
    <3>1. /\ Holds(S, c + Len(buf), transit) /\ c + Len(buf) + Len(transit) \in Nat
          /\ (connected = TRUE =>
                /\ Holds(S, c + Len(buf) + Len(transit), pending)
                /\ c + Len(buf) + Len(transit) + Len(pending) = Len(S))
      BY <2>7, <2>9 DEF Carried
    <3>2. c + U32 + Len(<<>>) = c + Len(buf) /\ c + U32 + 0 = c + Len(buf) /\ Len(<<>>) = 0
      BY <2>8
    <3>3. Holds(S, c + U32, <<>>)
      <4>1. c + Len(buf) <= Len(S)
        BY <2>9 DEF Carried, Holds
      <4> QED BY <2>8, <3>2, <4>1 DEF Holds
    <3> QED BY <3>1, <3>2, <3>3 DEF Carried
  <2>18. StreamInv(Chars)'
    <3>1. Start(starts, Len(delivered)', header') = c + U32
      BY <1>1, <2>1, <2>4, <2>6 DEF Start
    <3>2. Carried(S, Start(starts, Len(delivered)', header'), buf', transit', pending', connected')
      BY <1>1, <2>1, <2>17, <3>1
    <3> QED BY <1>1, <2>2, <3>2, SameStream DEF T
  <2>19. FrameTypes(Chars)'
    <3>1. buf' \in Seq(T) /\ header' \in BOOLEAN
      BY <2>1, Empty
    <3> QED BY <1>1, <2>1, <3>1 DEF FrameInv, FrameTypes, Byte, Limit, Range256, to_be_bytes, T
  <2> QED BY <2>16, <2>18, <2>19 DEF FrameInv
<1> QED BY <1>2, <1>3

(* The reader has a whole payload: it is the next frame that was accepted. *)
LEMMA PayloadReadInv ==
  ASSUME U32 \in Nat \ {0}, NEW Chars, FrameInv(Chars), payload_read
  PROVE  FrameInv(Chars)' /\ Channel!deliver
<1> DEFINE T == Byte(Chars)
<1>1. /\ failed # TRUE /\ header = FALSE /\ Len(buf) = need /\ delivered' = Append(delivered, buf)
      /\ offered' = offered /\ pending' = pending /\ transit' = transit /\ connected' = connected
      /\ need' = U32 /\ header' = TRUE /\ buf' = <<>> /\ failed' = failed
  BY DEF payload_read, writer, FrameInv, FrameTypes
<1>2. PICK S \in Seq(T), starts \in [1..(Len(offered) + 1) -> Nat] :
        /\ Framed(S, starts, offered)
        /\ Carried(S, Start(starts, Len(delivered), header), buf, transit, pending, connected)
  BY DEF FrameInv, StreamInv
<1>3. PICK n \in Nat : n = Len(offered)
  BY DEF FrameInv, FrameTypes
<1>4. PICK d \in Nat : d = Len(delivered) /\ d < n /\ need = Len(offered[d + 1])
  BY <1>1, <1>3 DEF FrameInv, FrameTypes, Awaits
<1>5. starts \in [1..(n + 1) -> Nat] /\ d + 1 \in 1..n /\ d + 1 \in 1..(n + 1) /\ (d + 1) + 1 \in 1..(n + 1)
  BY <1>3, <1>4
<1>6. PICK c \in Nat : c = starts[d + 1] + U32
  BY <1>5
<1>7. /\ offered \in Seq(Seq(T)) /\ delivered \in Seq(Seq(T))
      /\ pending \in Seq(T) /\ transit \in Seq(T) /\ buf \in Seq(T)
  BY DEF FrameInv, FrameTypes
<1>8. Carried(S, c, buf, transit, pending, connected)
  BY <1>1, <1>2, <1>4, <1>6 DEF Start
<1> HIDE DEF T
<1>9. PICK o \in Seq(T) : o = offered[d + 1]
  BY <1>3, <1>5, <1>7
<1>10. Holds(S, c, o) /\ starts[(d + 1) + 1] = starts[d + 1] + U32 + Len(o)
  BY <1>2, <1>3, <1>5, <1>6, <1>9 DEF Framed
<1>11. buf = o
  BY <1>1, <1>4, <1>7, <1>8, <1>9, <1>10, HoldsSame DEF Carried
<1>12. delivered' \in Seq(Seq(T)) /\ Len(delivered') = d + 1
  BY <1>1, <1>4, <1>7
<1>13. Awaits(offered, Len(delivered), header, need)'
  BY <1>1 DEF Awaits
<1>14. c + Len(buf) = starts[(d + 1) + 1]
  BY <1>6, <1>10, <1>11
<1>15. Carried(S, c + Len(buf), <<>>, transit, pending, connected)
  <2>1. PICK g \in Nat : g = c + Len(buf)
    BY <1>7
  <2>2. /\ Holds(S, g, transit)
        /\ (connected = TRUE =>
              /\ Holds(S, g + Len(transit), pending)
              /\ g + Len(transit) + Len(pending) = Len(S))
    BY <1>7, <1>8, <2>1 DEF Carried
  <2>3. g + Len(<<>>) = g /\ Len(<<>>) = 0
    OBVIOUS
  <2>4. Holds(S, g, <<>>)
    <3>1. g <= Len(S)
      BY <1>8, <2>1 DEF Carried, Holds
    <3> QED BY <2>3, <3>1 DEF Holds
  <2> QED BY <2>1, <2>2, <2>3, <2>4 DEF Carried
<1>16. StreamInv(Chars)'
  <2>1. Start(starts, Len(delivered)', header') = c + Len(buf)
    <3>1. starts[(d + 1) + 1] \in Nat
      BY <1>5
    <3> QED BY <1>1, <1>12, <1>14, <3>1 DEF Start
  <2>2. Carried(S, Start(starts, Len(delivered)', header'), buf', transit', pending', connected')
    BY <1>1, <1>15, <2>1
  <2> QED BY <1>1, <1>2, <2>2, SameStream DEF T
<1>17. FrameTypes(Chars)'
  <2>1. buf' \in Seq(T) /\ header' \in BOOLEAN /\ Len(delivered') <= Len(offered')
    BY <1>1, <1>3, <1>4, <1>12
  <2> QED BY <1>1, <1>12, <2>1 DEF FrameInv, FrameTypes, Byte, Limit, Range256, to_be_bytes, T
<1>18. Channel!deliver
  <2>1. ~failed
    BY DEF payload_read
  <2> QED BY <1>1, <1>3, <1>4, <1>9, <1>11, <2>1 DEF Channel!deliver
<1> QED BY <1>13, <1>16, <1>17, <1>18 DEF FrameInv

(* Before the first frame the stream is empty.                             *)
LEMMA FramesInit ==
  ASSUME U32 \in Nat \ {0}, NEW Chars, StreamInit PROVE FrameInv(Chars) /\ Channel!Init
<1>1. /\ offered = <<>> /\ pending = <<>> /\ transit = <<>> /\ connected = TRUE
      /\ need = U32 /\ header = TRUE /\ buf = <<>> /\ delivered = <<>> /\ failed = FALSE
  BY DEF StreamInit
<1>2. FrameTypes(Chars) /\ Awaits(offered, Len(delivered), header, need)
  <2>1. <<>> \in Seq(Byte(Chars)) /\ <<>> \in Seq(Seq(Byte(Chars))) /\ Len(<<>>) = 0
    BY Empty
  <2>2. /\ pending \in Seq(Byte(Chars)) /\ transit \in Seq(Byte(Chars)) /\ buf \in Seq(Byte(Chars))
        /\ offered \in Seq(Seq(Byte(Chars))) /\ delivered \in Seq(Seq(Byte(Chars)))
        /\ Len(delivered) = 0 /\ Len(offered) = 0
    BY <1>1, <2>1
  <2>3. header \in BOOLEAN /\ connected \in BOOLEAN /\ failed \in BOOLEAN
    BY <1>1
  <2>4. \A i \in 1..Len(offered) : Len(offered[i]) < Limit
    BY <2>2
  <2>5. FrameTypes(Chars)
    BY <2>2, <2>3, <2>4 DEF FrameTypes
  <2>6. Awaits(offered, Len(delivered), header, need)
    BY <1>1 DEF Awaits
  <2> QED BY <2>5, <2>6
<1>3. StreamInv(Chars)
  <2>1. PICK S \in Seq(Byte(Chars)) : S = <<>> /\ Len(S) = 0
    BY Empty
  <2>2. PICK starts \in [1..(0 + 1) -> Nat] : starts = [i \in 1..(0 + 1) |-> 0]
    OBVIOUS
  <2>3. starts[1] = 0 /\ starts[0 + 1] = 0 /\ Len(<<>>) = 0
    BY <2>2
  <2>4. Framed(S, starts, <<>>)
    BY <2>1, <2>3 DEF Framed
  <2>5. Holds(S, 0, <<>>)
    BY <2>1, <2>3 DEF Holds
  <2>6. Carried(S, 0, <<>>, <<>>, <<>>, TRUE)
    BY <2>1, <2>3, <2>5 DEF Carried
  <2>7. Start(starts, 0, TRUE) = 0
    BY <2>3 DEF Start
  <2> QED BY <1>1, <2>3, <2>4, <2>6, <2>7 DEF StreamInv
<1>4. Channel!Init
  BY <1>1 DEF Channel!Init
<1> QED BY <1>2, <1>3, <1>4 DEF FrameInv

(* Every step keeps the invariant, and is a step of the channel or none.   *)
LEMMA FrameStep ==
  ASSUME U32 \in Nat \ {0}, NEW Chars, Payloads \subseteq Seq(Chars),
         FrameInv(Chars), [StreamNext]_(streamvars)
  PROVE  FrameInv(Chars)' /\ [Channel!Next]_(Channel!vars)
<1> USE DEF Channel!vars
<1>1. ASSUME write_piece PROVE FrameInv(Chars)' /\ UNCHANGED Channel!vars
  BY <1>1, WritePieceInv DEF write_piece, reader
<1>2. ASSUME disconnect PROVE FrameInv(Chars)' /\ UNCHANGED Channel!vars
  BY <1>2, DisconnectInv DEF disconnect, reader, writer
<1>3. ASSUME read_piece PROVE FrameInv(Chars)' /\ UNCHANGED Channel!vars
  BY <1>3, ReadPieceInv DEF read_piece, writer
<1>4. ASSUME length_read PROVE FrameInv(Chars)' /\ [Channel!Next]_(Channel!vars)
  <2>1. FrameInv(Chars)'
    BY <1>4, LengthReadInv
  <2>2. CASE failed' = TRUE
    <3>1. Channel!fail
      BY <1>4, <2>2 DEF length_read, writer, Channel!fail
    <3> QED BY <2>1, <3>1 DEF Channel!Next
  <2>3. CASE failed' = failed
    BY <1>4, <2>1, <2>3 DEF length_read, writer
  <2> QED BY <1>4, <2>2, <2>3 DEF length_read
<1>5. ASSUME payload_read PROVE FrameInv(Chars)' /\ Channel!Next
  BY <1>5, PayloadReadInv DEF Channel!Next
<1>6. ASSUME unexpected_eof \/ read_timeout PROVE FrameInv(Chars)' /\ Channel!Next
  <2>1. /\ ~failed /\ failed' = TRUE /\ offered' = offered /\ pending' = pending /\ transit' = transit
        /\ connected' = connected /\ need' = need /\ header' = header /\ buf' = buf /\ delivered' = delivered
    BY <1>6 DEF unexpected_eof, read_timeout, writer
  <2>2. FrameInv(Chars)'
    BY <2>1, GiveUpInv
  <2>3. Channel!fail
    BY <2>1 DEF Channel!fail
  <2> QED BY <2>2, <2>3 DEF Channel!Next
<1>7. ASSUME NEW p \in Payloads, write_frame(p)
      PROVE  FrameInv(Chars)' /\ [Channel!Next]_(Channel!vars)
  <2>1. /\ FrameInv(Chars)'
        /\ offered' = offered \/ offered' = Append(offered, p)
        /\ delivered' = delivered /\ failed' = failed
    BY <1>7, WriteFrameInv
  <2>2. CASE offered' = offered
    BY <2>1, <2>2
  <2>3. CASE offered' = Append(offered, p)
    <3>1. Channel!offer(p)
      BY <2>1, <2>3 DEF Channel!offer
    <3> QED BY <2>1, <3>1 DEF Channel!Next
  <2> QED BY <2>1, <2>2, <2>3
<1>8. ASSUME UNCHANGED streamvars PROVE FrameInv(Chars)' /\ UNCHANGED Channel!vars
  <2>1. /\ failed' = failed /\ offered' = offered /\ pending' = pending /\ transit' = transit
        /\ connected' = connected /\ need' = need /\ header' = header /\ buf' = buf /\ delivered' = delivered
    BY <1>8 DEF streamvars, writer, reader
  <2>2. FrameTypes(Chars)' /\ Awaits(offered, Len(delivered), header, need)'
    BY <2>1 DEF FrameInv, FrameTypes, Awaits, Byte, Limit, Range256, to_be_bytes
  <2>3. PICK S \in Seq(Byte(Chars)), starts \in [1..(Len(offered) + 1) -> Nat] :
          /\ Framed(S, starts, offered)
          /\ Carried(S, Start(starts, Len(delivered), header), buf, transit, pending, connected)
    BY DEF FrameInv, StreamInv
  <2>4. StreamInv(Chars)'
    BY <2>1, <2>3, SameStream
  <2> QED BY <2>1, <2>2, <2>4 DEF FrameInv
<1> QED BY <1>1, <1>2, <1>3, <1>4, <1>5, <1>6, <1>7, <1>8 DEF StreamNext, FrameReader

(* The safety part of ImplementsChannel.                                   *)
ChannelSafety == Channel!Init /\ [][Channel!Next]_(Channel!vars)

(* write_frame and read_frame implement a channel of whole frames: the     *)
(* reader gets exactly the payloads that were accepted, in order, whatever *)
(* the pieces and wherever the stream or the reader's patience ends.       *)
THEOREM RefinesChannel == StreamSpec => ChannelSafety
<1>1. U32 \in Nat \ {0} /\ Payloads \subseteq Seq(Bytes)
  BY ProtocolAssumption, PayloadAssumption
<1>2. StreamInit => FrameInv(Bytes) /\ Channel!Init
  BY <1>1, FramesInit
<1>3. FrameInv(Bytes) /\ [StreamNext]_(streamvars) => FrameInv(Bytes)' /\ [Channel!Next]_(Channel!vars)
  BY <1>1, FrameStep
<1> QED BY <1>2, <1>3, PTL DEF StreamSpec, ChannelSafety

----------------------------------------------------------------------------
(* The INFO reply: encode_info lays its fields behind each other, and      *)
(* decode_info reads them where the length of the zone name puts them.     *)

(* Two sequences behind each other lie in a stream as each of them does.   *)
LEMMA HoldsPair ==
  ASSUME NEW T, NEW S \in Seq(T), NEW f \in Nat, NEW q \in Seq(T), NEW r \in Seq(T)
  PROVE  Holds(S, f, q \o r) <=> Holds(S, f, q) /\ Holds(S, f + Len(q), r)
<1>1. q \o r \in Seq(T) /\ Len(q \o r) = Len(q) + Len(r)
  BY Joined
<1>2. ASSUME Holds(S, f, q \o r) PROVE Holds(S, f, q) /\ Holds(S, f + Len(q), r)
  <2>1. PICK a \in Nat, b \in Nat : a = Len(q) /\ b = Len(r) /\ Len(q \o r) = a + b
    BY <1>1
  <2>2. PICK w \in Seq(T) : w = q \o r
    BY <1>1
  <2>3. \A k \in 1..a : w[k] = q[k]
    BY <2>1, <2>2
  <2>4. \A k \in 1..b : w[a + k] = r[k]
    BY <2>1, <2>2
  <2>5. f + (a + b) <= Len(S) /\ \A k \in 1..(a + b) : w[k] = S[f + k]
    BY <1>2, <2>1, <2>2 DEF Holds
  <2>6. Holds(S, f, q)
    <3>1. f + a <= Len(S)
      BY <2>5
    <3>2. ASSUME NEW k \in 1..a PROVE q[k] = S[f + k]
      <4>1. k \in 1..(a + b)
        OBVIOUS
      <4>2. w[k] = S[f + k]
        BY <2>5, <4>1, Zenon
      <4> QED BY <2>3, <4>2, Zenon
    <3> QED BY <2>1, <3>1, <3>2, Zenon DEF Holds
  <2>7. ASSUME NEW k \in 1..b PROVE r[k] = S[(f + a) + k]
    <3>1. a + k \in 1..(a + b) /\ f + (a + k) = (f + a) + k
      OBVIOUS
    <3> QED BY <2>4, <2>5, <3>1
  <2>8. (f + a) + b <= Len(S)
    BY <2>5
  <2> QED BY <2>1, <2>6, <2>7, <2>8 DEF Holds
<1> QED BY <1>2, HoldsJoin, Zenon

(* A slice within a payload.                                               *)
LEMMA Sliced ==
  ASSUME NEW T, NEW p \in Seq(T), NEW f \in Nat, NEW n \in Nat, f + n <= Len(p)
  PROVE  slice(p, f, n) \in Seq(T) /\ Len(slice(p, f, n)) = n /\ Holds(p, f, slice(p, f, n))
<1>1. PICK s : s = SubSeq(p, f + 1, f + n)
  OBVIOUS
<1>2. s \in Seq(T) /\ Len(s) = n
  BY <1>1
<1>3. \A k \in 1..n : s[k] = p[f + k]
  BY <1>1
<1> QED BY <1>1, <1>2, <1>3 DEF slice, Holds

(* A slice is what lies there.                                             *)
LEMMA SliceIs ==
  ASSUME NEW T, NEW p \in Seq(T), NEW f \in Nat, NEW q \in Seq(T), Holds(p, f, q)
  PROVE  slice(p, f, Len(q)) = q
<1>1. Len(q) \in Nat /\ f + Len(q) <= Len(p)
  BY DEF Holds
<1>2. PICK s \in Seq(T) : s = slice(p, f, Len(q)) /\ Len(s) = Len(q) /\ Holds(p, f, s)
  BY <1>1, Sliced
<1>3. s = q
  BY <1>2, HoldsSame
<1> QED BY <1>2, <1>3

(* A prefix lies at the beginning.                                         *)
LEMMA PrefixHolds ==
  ASSUME NEW T, NEW p \in Seq(T), NEW q \in Seq(T)
  PROVE  IsPrefix(q, p) <=> Holds(p, 0, q)
<1>1. PICK n \in Nat : n = Len(q)
  OBVIOUS
<1>2. ASSUME n <= Len(p) PROVE SubSeq(q, 1, n) = SubSeq(p, 1, n) <=> \A k \in 1..n : q[k] = p[k]
  <2>1. PICK a \in Seq(T) : a = SubSeq(q, 1, n) /\ Len(a) = n /\ \A k \in 1..n : a[k] = q[k]
    BY <1>1
  <2>2. PICK b \in Seq(T) : b = SubSeq(p, 1, n) /\ Len(b) = n /\ \A k \in 1..n : b[k] = p[k]
    <3>1. PICK b : b = SubSeq(p, 1, n)
      OBVIOUS
    <3>2. b \in Seq(T) /\ Len(b) = n
      BY <1>2, <3>1
    <3>3. \A k \in 1..n : b[k] = p[k]
      BY <1>2, <3>1
    <3> QED BY <3>1, <3>2, <3>3, Zenon
  <2>3. (\A k \in 1..n : a[k] = b[k]) => a = b
    BY <2>1, <2>2, SeqEqual
  <2> QED BY <2>1, <2>2, <2>3
<1>3. \A k \in 1..n : 0 + k = k
  OBVIOUS
<1>4. 0 + n = n
  OBVIOUS
<1> QED BY <1>1, <1>2, <1>3, <1>4 DEF IsPrefix, Holds

(* r lies in p behind its first n bytes, if they are q.                     *)
Follows(T, p, n, m, q, r) ==
  /\ q \o r \in Seq(T) /\ Len(q \o r) = n + m
  /\ Holds(p, 0, q \o r) <=> Holds(p, 0, q) /\ Holds(p, n, r)

LEMMA Behind ==
  ASSUME NEW T, NEW p \in Seq(T), NEW n \in Nat, NEW m \in Nat,
         NEW q \in Seq(T), NEW r \in Seq(T), Len(q) = n, Len(r) = m
  PROVE  Follows(T, p, n, m, q, r)
<1>1. 0 \in Nat /\ 0 + n = n
  OBVIOUS
<1>2. Holds(p, 0, q \o r) <=> Holds(p, 0, q) /\ Holds(p, 0 + Len(q), r)
  BY <1>1, HoldsPair, Zenon
<1>3. q \o r \in Seq(T) /\ Len(q \o r) = Len(q) + Len(r)
  BY Joined, Zenon
<1> QED BY <1>1, <1>2, <1>3, Zenon DEF Follows

(* Six pieces behind each other, as encode_info writes them.               *)
Consecutive(T, p, u, z, a, b, c, d, e, g) ==
  /\ a \o b \o c \o d \o e \o g \in Seq(T)
  /\ Holds(p, 0, a \o b \o c \o d \o e \o g)
       <=> /\ Holds(p, 0, a) /\ Holds(p, 1, b) /\ Holds(p, 1 + u, c) /\ Holds(p, 1 + u + u, d)
           /\ Holds(p, 1 + u + u + z, e) /\ Holds(p, 1 + u + u + z + u, g)

LEMMA SixPieces ==
  ASSUME NEW T, NEW p \in Seq(T), NEW u \in Nat, NEW z \in Nat,
         NEW a \in Seq(T), NEW b \in Seq(T), NEW c \in Seq(T),
         NEW d \in Seq(T), NEW e \in Seq(T), NEW g \in Seq(T),
         Len(a) = 1, Len(b) = u, Len(c) = u, Len(d) = z, Len(e) = u
  PROVE  Consecutive(T, p, u, z, a, b, c, d, e, g)
<1>0. /\ 1 \in Nat /\ 1 + u \in Nat /\ 1 + u + u \in Nat /\ 1 + u + u + z \in Nat
      /\ 1 + u + u + z + u \in Nat
  OBVIOUS
<1>1. PICK ab \in Seq(T) :
        /\ ab = a \o b /\ Len(ab) = 1 + u
        /\ Holds(p, 0, ab) <=> Holds(p, 0, a) /\ Holds(p, 1, b)
  <2>1. Len(a) = 1 /\ Len(b) = u /\ 1 \in Nat /\ u \in Nat
    BY <1>0
  <2>2. Follows(T, p, 1, u, a, b)
    BY <2>1, Behind, Zenon
  <2> QED BY <2>2, Zenon DEF Follows
<1>2. PICK abc \in Seq(T) :
        /\ abc = ab \o c /\ Len(abc) = 1 + u + u
        /\ Holds(p, 0, abc) <=> Holds(p, 0, ab) /\ Holds(p, 1 + u, c)
  <2>1. Len(ab) = 1 + u /\ Len(c) = u /\ 1 + u \in Nat /\ u \in Nat
    BY <1>0, <1>1
  <2>2. Follows(T, p, 1 + u, u, ab, c)
    BY <2>1, Behind, Zenon
  <2> QED BY <2>2, Zenon DEF Follows
<1>3. PICK abcd \in Seq(T) :
        /\ abcd = abc \o d /\ Len(abcd) = 1 + u + u + z
        /\ Holds(p, 0, abcd) <=> Holds(p, 0, abc) /\ Holds(p, 1 + u + u, d)
  <2>1. Len(abc) = 1 + u + u /\ Len(d) = z /\ 1 + u + u \in Nat /\ z \in Nat
    BY <1>0, <1>2
  <2>2. Follows(T, p, 1 + u + u, z, abc, d)
    BY <2>1, Behind, Zenon
  <2> QED BY <2>2, Zenon DEF Follows
<1>4. PICK abcde \in Seq(T) :
        /\ abcde = abcd \o e /\ Len(abcde) = 1 + u + u + z + u
        /\ Holds(p, 0, abcde) <=> Holds(p, 0, abcd) /\ Holds(p, 1 + u + u + z, e)
  <2>1. Len(abcd) = 1 + u + u + z /\ Len(e) = u /\ 1 + u + u + z \in Nat /\ u \in Nat
    BY <1>0, <1>3
  <2>2. Follows(T, p, 1 + u + u + z, u, abcd, e)
    BY <2>1, Behind, Zenon
  <2> QED BY <2>2, Zenon DEF Follows
<1>5. PICK all \in Seq(T) :
        /\ all = abcde \o g /\ Len(all) = 1 + u + u + z + u + Len(g)
        /\ Holds(p, 0, all) <=> Holds(p, 0, abcde) /\ Holds(p, 1 + u + u + z + u, g)
  <2>1. Len(abcde) = 1 + u + u + z + u /\ Len(g) = Len(g) /\ 1 + u + u + z + u \in Nat /\ Len(g) \in Nat
    BY <1>0, <1>4
  <2>2. Follows(T, p, 1 + u + u + z + u, Len(g), abcde, g)
    BY <2>1, Behind, Zenon
  <2> QED BY <2>2, Zenon DEF Follows
<1>6. all = a \o b \o c \o d \o e \o g
  BY <1>1, <1>2, <1>3, <1>4, <1>5, Zenon
<1> QED BY <1>1, <1>2, <1>3, <1>4, <1>5, <1>6, Zenon DEF Consecutive

(* The parts of the encoding of r in p.                                    *)
Laid(p, r) ==
  /\ Holds(p, 0, <<r.flags>>)
  /\ Holds(p, 1, to_be_bytes(r.num_entries, U32))
  /\ Holds(p, 1 + U32, to_be_bytes(Len(r.zone_name), U32))
  /\ Holds(p, 1 + U32 + U32, r.zone_name)
  /\ Holds(p, 1 + U32 + U32 + Len(r.zone_name), to_be_bytes(r.dump_size, U32))
  /\ Holds(p, 1 + U32 + U32 + Len(r.zone_name) + U32, to_be_bytes(r.hash_salt, U64))

(* The numbers and names of an INFO reply.                                 *)
LEMMA InfoParts ==
  ASSUME NEW r \in InfoResponses
  PROVE  /\ r.flags \in Bytes /\ r.zone_name \in Seq(Bytes) /\ Len(r.zone_name) \in Nat
         /\ r.num_entries \in 0..(Range256(U32) - 1) /\ r.num_entries \in Nat
         /\ r.dump_size \in 0..(Range256(U32) - 1) /\ r.dump_size \in Nat
         /\ r.hash_salt \in 0..(Range256(U64) - 1) /\ r.hash_salt \in Nat
<1>1. /\ r.flags \in Bytes /\ r.zone_name \in Seq(Bytes)
      /\ r.num_entries \in 0..(Range256(U32) - 1) /\ r.dump_size \in 0..(Range256(U32) - 1)
      /\ r.hash_salt \in 0..(Range256(U64) - 1)
  BY DEF InfoResponses, Range256
<1> QED BY <1>1

(* A payload begins with the encoding of r iff it holds all its parts.     *)
LEMMA InfoLaid ==
  ASSUME NEW p \in Seq(Bytes), NEW r \in InfoResponses
  PROVE  IsPrefix(encode_info(r), p) <=> Laid(p, r)
<1>1. U32 \in Nat /\ U64 \in Nat
  BY ProtocolAssumption
<1>2. PICK z \in Nat : z = Len(r.zone_name)
  BY InfoParts
<1>3. PICK a \in Seq(Bytes) : a = <<r.flags>> /\ Len(a) = 1
  <2>1. PICK x \in Bytes : x = r.flags
    BY InfoParts, Zenon
  <2>2. <<x>> \in Seq(Bytes) /\ Len(<<x>>) = 1
    OBVIOUS
  <2> QED BY <2>1, <2>2, Zenon
<1>4. PICK b \in Seq(Bytes) : b = to_be_bytes(r.num_entries, U32) /\ Len(b) = U32
  BY <1>1, InfoParts, NumberBytes, Zenon
<1>5. PICK c \in Seq(Bytes) : c = to_be_bytes(Len(r.zone_name), U32) /\ Len(c) = U32
  BY <1>1, InfoParts, NumberBytes, Zenon
<1>6. PICK d \in Seq(Bytes) : d = r.zone_name /\ Len(d) = z
  BY <1>2, InfoParts, Zenon
<1>7. PICK e \in Seq(Bytes) : e = to_be_bytes(r.dump_size, U32) /\ Len(e) = U32
  BY <1>1, InfoParts, NumberBytes, Zenon
<1>8. PICK g \in Seq(Bytes) : g = to_be_bytes(r.hash_salt, U64)
  BY <1>1, InfoParts, NumberBytes, Zenon
<1>9. PICK all : all = a \o b \o c \o d \o e \o g
  OBVIOUS
<1>10. /\ all \in Seq(Bytes)
       /\ Holds(p, 0, all)
            <=> /\ Holds(p, 0, a) /\ Holds(p, 1, b) /\ Holds(p, 1 + U32, c) /\ Holds(p, 1 + U32 + U32, d)
                /\ Holds(p, 1 + U32 + U32 + z, e) /\ Holds(p, 1 + U32 + U32 + z + U32, g)
  <2>1. U32 \in Nat /\ Len(a) = 1 /\ Len(b) = U32 /\ Len(c) = U32 /\ Len(d) = z /\ Len(e) = U32
    BY <1>1, <1>3, <1>4, <1>5, <1>6, <1>7, Zenon
  <2>2. Consecutive(Bytes, p, U32, z, a, b, c, d, e, g)
    BY <2>1, SixPieces, Zenon
  <2> QED BY <1>9, <2>2, Zenon DEF Consecutive
<1>11. encode_info(r) = all
  BY <1>3, <1>4, <1>5, <1>6, <1>7, <1>8, <1>9, Zenon DEF encode_info
<1>12. IsPrefix(all, p) <=> Holds(p, 0, all)
  BY <1>10, PrefixHolds, Zenon
<1> QED BY <1>2, <1>3, <1>4, <1>5, <1>6, <1>7, <1>8, <1>10, <1>11, <1>12, Zenon DEF Laid

(* A number that lies in a payload is what the decoder reads there.        *)
LEMMA NumberRead ==
  ASSUME NEW p \in Seq(Bytes), NEW f \in Nat, NEW n \in Nat, NEW v \in 0..(Range256(n) - 1),
         Holds(p, f, to_be_bytes(v, n))
  PROVE  from_be_bytes(slice(p, f, n)) = v /\ f + n <= Len(p)
<1>1. v \in Nat
  OBVIOUS
<1>2. PICK b \in Seq(Bytes) : b = to_be_bytes(v, n) /\ Len(b) = n
  BY <1>1, NumberBytes, Zenon
<1>3. slice(p, f, n) = b
  BY <1>2, SliceIs, Zenon
<1>4. f + n <= Len(p)
  BY <1>2 DEF Holds
<1> QED BY <1>2, <1>3, <1>4, NumberRoundTrip, Zenon

(* A payload that is long enough holds the bytes of what is read from it.  *)
LEMMA NumberHeld ==
  ASSUME NEW p \in Seq(Bytes), NEW f \in Nat, NEW n \in Nat, f + n <= Len(p)
  PROVE  /\ from_be_bytes(slice(p, f, n)) \in Nat
         /\ Holds(p, f, to_be_bytes(from_be_bytes(slice(p, f, n)), n))
<1>1. PICK b \in Seq(Bytes) : b = slice(p, f, n) /\ Len(b) = n /\ Holds(p, f, b)
  BY Sliced
<1>2. from_be_bytes(b) \in 0..(Range256(n) - 1) /\ to_be_bytes(from_be_bytes(b), n) = b
  BY <1>1, BytesRoundTrip
<1>3. from_be_bytes(b) \in Nat
  BY <1>2
<1> QED BY <1>1, <1>2, <1>3, Zenon

(* A payload that begins with the encoding of r decodes to r.              *)
LEMMA DecodeEncode ==
  ASSUME NEW p \in Seq(Bytes), Len(p) < Limit, NEW r \in InfoResponses, Laid(p, r)
  PROVE  ~short(p) /\ fields(p) = r
<1>1. U32 \in Nat /\ U64 \in Nat
  BY ProtocolAssumption
<1>2. PICK z \in Nat : z = Len(r.zone_name)
  BY InfoParts
<1>3. PICK f1 \in Nat, f2 \in Nat, f3 \in Nat, f4 \in Nat :
        /\ f1 = 1 + U32 /\ f2 = 1 + U32 + U32 /\ f3 = 1 + U32 + U32 + z /\ f4 = 1 + U32 + U32 + z + U32
        /\ 1 \in Nat /\ 0 \in Nat
  BY <1>1
<1>4. /\ Holds(p, 0, <<r.flags>>) /\ Holds(p, 1, to_be_bytes(r.num_entries, U32))
      /\ Holds(p, f1, to_be_bytes(z, U32)) /\ Holds(p, f2, r.zone_name)
      /\ Holds(p, f3, to_be_bytes(r.dump_size, U32)) /\ Holds(p, f4, to_be_bytes(r.hash_salt, U64))
  BY <1>2, <1>3, Zenon DEF Laid
<1>5. z \in 0..(Range256(U32) - 1)
  <2>1. f2 + z <= Len(p)
    BY <1>2, <1>4 DEF Holds
  <2>2. PICK l \in Nat : l = Range256(U32)
    BY <1>1, Ranges, Zenon
  <2>3. Len(p) < l /\ Len(p) \in Nat
    BY <2>2 DEF Limit
  <2>4. z < l
    BY <2>1, <2>3, <1>3
  <2> QED BY <2>2, <2>4
<1>6. from_be_bytes(slice(p, f1, U32)) = z
  BY <1>1, <1>3, <1>4, <1>5, NumberRead, Zenon
<1>7. from_be_bytes(slice(p, 1, U32)) = r.num_entries
  BY <1>1, <1>3, <1>4, InfoParts, NumberRead, Zenon
<1>8. slice(p, f2, z) = r.zone_name
  BY <1>2, <1>3, <1>4, InfoParts, SliceIs, Zenon
<1>9. from_be_bytes(slice(p, f3, U32)) = r.dump_size
  BY <1>1, <1>3, <1>4, InfoParts, NumberRead, Zenon
<1>10. from_be_bytes(slice(p, f4, U64)) = r.hash_salt /\ f4 + U64 <= Len(p)
  BY <1>1, <1>3, <1>4, InfoParts, NumberRead, Zenon
<1>11. p[1] = r.flags
  BY <1>4 DEF Holds
<1>12. ~short(p)
  <2>1. Len(p) \in Nat
    OBVIOUS
  <2>2. 1 + U32 + U32 + z + U32 + U64 <= Len(p)
    BY <1>3, <1>10
  <2>3. ~(Len(p) < 1 + U32 + U32) /\ ~(Len(p) < 1 + U32 + U32 + z + U32 + U64)
    BY <1>1, <2>1, <2>2
  <2>4. from_be_bytes(slice(p, 1 + U32, U32)) = z
    BY <1>3, <1>6, Zenon
  <2> QED BY <2>3, <2>4, Zenon DEF short
<1>13. fields(p) = [flags |-> r.flags, num_entries |-> r.num_entries, zone_name |-> r.zone_name,
                    dump_size |-> r.dump_size, hash_salt |-> r.hash_salt]
  <2>1. from_be_bytes(slice(p, 1 + U32, U32)) = z
    BY <1>3, <1>6, Zenon
  <2>2. /\ slice(p, 1 + U32 + U32, z) = r.zone_name
        /\ from_be_bytes(slice(p, 1 + U32 + U32 + z, U32)) = r.dump_size
        /\ from_be_bytes(slice(p, 1 + U32 + U32 + z + U32, U64)) = r.hash_salt
    BY <1>3, <1>8, <1>9, <1>10, Zenon
  <2> QED BY <1>7, <1>11, <2>1, <2>2, Zenon DEF fields
<1>14. r = [flags |-> r.flags, num_entries |-> r.num_entries, zone_name |-> r.zone_name,
            dump_size |-> r.dump_size, hash_salt |-> r.hash_salt]
  BY DEF InfoResponses
<1> QED BY <1>12, <1>13, <1>14, Zenon

(* A payload that is not too short begins with the encoding of what it     *)
(* decodes to.                                                             *)
LEMMA EncodeDecode ==
  ASSUME NEW p \in Seq(Bytes), ~short(p)
  PROVE  Laid(p, fields(p))
<1>1. U32 \in Nat /\ U64 \in Nat /\ Len(p) \in Nat
  BY ProtocolAssumption
<1>2. PICK f1 \in Nat, f2 \in Nat : f1 = 1 + U32 /\ f2 = 1 + U32 + U32 /\ 1 \in Nat /\ 0 \in Nat
  BY <1>1
<1>3. f1 + U32 <= Len(p)
  <2>1. ~(Len(p) < 1 + U32 + U32)
    BY DEF short
  <2> QED BY <1>1, <1>2, <2>1
<1>4. PICK z \in Nat : z = from_be_bytes(slice(p, f1, U32)) /\ Holds(p, f1, to_be_bytes(z, U32))
  BY <1>1, <1>3, NumberHeld, Zenon
<1>5. f2 + z + U32 + U64 <= Len(p)
  <2>1. ~(Len(p) < 1 + U32 + U32 + from_be_bytes(slice(p, 1 + U32, U32)) + U32 + U64)
    BY DEF short
  <2>2. ~(Len(p) < f2 + z + U32 + U64)
    BY <1>2, <1>4, <2>1, Zenon
  <2> QED BY <1>1, <2>2
<1>6. PICK f3 \in Nat, f4 \in Nat :
        /\ f3 = f2 + z /\ f4 = f2 + z + U32
        /\ 1 + U32 <= Len(p) /\ f2 + z <= Len(p) /\ f3 + U32 <= Len(p) /\ f4 + U64 <= Len(p)
  BY <1>1, <1>2, <1>5
<1>7. PICK n : n = from_be_bytes(slice(p, 1, U32)) /\ Holds(p, 1, to_be_bytes(n, U32))
  BY <1>1, <1>2, <1>6, NumberHeld, Zenon
<1>8. PICK d : d = from_be_bytes(slice(p, f3, U32)) /\ Holds(p, f3, to_be_bytes(d, U32))
  BY <1>1, <1>6, NumberHeld, Zenon
<1>9. PICK s : s = from_be_bytes(slice(p, f4, U64)) /\ Holds(p, f4, to_be_bytes(s, U64))
  BY <1>1, <1>6, NumberHeld, Zenon
<1>10. PICK name : name = slice(p, f2, z) /\ Len(name) = z /\ Holds(p, f2, name)
  BY <1>6, Sliced, Zenon
<1>11. Holds(p, 0, <<p[1]>>)
  BY <1>1, <1>6 DEF Holds
<1>12. PICK r : r = fields(p)
  OBVIOUS
<1>13. r = [flags |-> p[1], num_entries |-> n, zone_name |-> name, dump_size |-> d, hash_salt |-> s]
  <2>1. from_be_bytes(slice(p, 1 + U32, U32)) = z
    BY <1>2, <1>4, Zenon
  <2>2. /\ slice(p, 1 + U32 + U32, z) = name
        /\ from_be_bytes(slice(p, 1 + U32 + U32 + z, U32)) = d
        /\ from_be_bytes(slice(p, 1 + U32 + U32 + z + U32, U64)) = s
    BY <1>2, <1>6, <1>8, <1>9, <1>10, Zenon
  <2> QED BY <1>7, <1>12, <2>1, <2>2, Zenon DEF fields
<1>14. r.flags = p[1] /\ r.num_entries = n /\ r.zone_name = name /\ r.dump_size = d /\ r.hash_salt = s
  BY <1>13
<1>15. Laid(p, r)
  BY <1>2, <1>4, <1>6, <1>7, <1>8, <1>9, <1>10, <1>11, <1>14, Zenon DEF Laid
<1> QED BY <1>12, <1>15, Zenon

(* What decode_info makes of a payload.                                    *)
LEMMA DecodesToItsPrefix ==
  ASSUME NEW p \in Payloads, Len(p) < Limit
  PROVE  decode_info(p) = {r \in Infos : IsPrefix(encode_info(r), p) /\ utf8(r.zone_name)}
<1>1. p \in Seq(Bytes) /\ Infos \subseteq InfoResponses /\ decode_info(p) \subseteq Infos
  BY PayloadAssumption DEF Limit, Range256
<1>2. ASSUME NEW r \in decode_info(p) PROVE r \in Infos /\ IsPrefix(encode_info(r), p) /\ utf8(r.zone_name)
  <2>1. ~short(p) /\ r = fields(p) /\ utf8(r.zone_name)
    BY DEF decode_info
  <2>2. Laid(p, r) /\ r \in Infos /\ r \in InfoResponses
    BY <1>1, <2>1, EncodeDecode
  <2> QED BY <1>1, <2>1, <2>2, InfoLaid, Zenon
<1>3. ASSUME NEW r \in Infos, IsPrefix(encode_info(r), p), utf8(r.zone_name) PROVE r \in decode_info(p)
  <2>1. r \in InfoResponses /\ Laid(p, r)
    BY <1>1, <1>3, InfoLaid
  <2>2. ~short(p) /\ fields(p) = r
    BY <1>1, <2>1, DecodeEncode, Zenon
  <2> QED BY <1>3, <2>2 DEF decode_info
<1> QED BY <1>2, <1>3, Zenon

(* Payloads that were accepted have a length that is a u32, and only such  *)
(* payloads are delivered.                                                 *)
Received ==
  /\ offered \in Seq(Payloads) /\ delivered \in Seq(Payloads)
  /\ \A i \in 1..Len(delivered) : Len(delivered[i]) < Limit

LEMMA ReceivedStep ==
  ASSUME FrameInv(Bytes), Received, [Channel!Next]_(Channel!vars)
  PROVE  Received'
<1>1. ASSUME Channel!deliver PROVE Received'
  <2>1. PICK n \in Nat : n = Len(offered) /\ \A i \in 1..n : Len(offered[i]) < Limit
    BY DEF FrameInv, FrameTypes
  <2>2. PICK d \in Nat : d = Len(delivered) /\ d + 1 \in 1..n
    BY <1>1, <2>1 DEF Channel!deliver, Received
  <2>3. PICK o \in Payloads : o = offered[d + 1] /\ Len(o) < Limit
    BY <2>1, <2>2 DEF Received
  <2>4. delivered' = Append(delivered, o) /\ offered' = offered
    BY <1>1, <2>2, <2>3 DEF Channel!deliver
  <2>5. /\ delivered' \in Seq(Payloads) /\ Len(delivered') = d + 1 /\ delivered'[d + 1] = o
        /\ \A i \in 1..d : delivered'[i] = delivered[i]
    BY <2>2, <2>4 DEF Received
  <2>6. ASSUME NEW i \in 1..(d + 1) PROVE Len(delivered'[i]) < Limit
    <3>1. CASE i = d + 1
      BY <2>3, <2>5, <3>1
    <3>2. CASE i \in 1..d
      BY <2>2, <2>5, <3>2 DEF Received
    <3> QED BY <3>1, <3>2
  <2>7. Limit' = Limit
    BY DEF Limit, Range256
  <2> QED BY <2>4, <2>5, <2>6, <2>7 DEF Received
<1>2. ASSUME Channel!fail PROVE Received'
  BY <1>2 DEF Channel!fail, Received, Limit, Range256
<1>3. ASSUME NEW p \in Payloads, Channel!offer(p) PROVE Received'
  BY <1>3 DEF Channel!offer, Received, Limit, Range256
<1>4. ASSUME UNCHANGED Channel!vars PROVE Received'
  BY <1>4 DEF Channel!vars, Received, Limit, Range256
<1> QED BY <1>1, <1>2, <1>3, <1>4 DEF Channel!Next

(* Whatever frame the client takes for an INFO reply, it works with the    *)
(* values the server announced in it or with an error: decode_info returns *)
(* the one reply whose encoding the payload begins with, if there is one   *)
(* and its zone name is UTF-8.  For every width of bytes and numbers.      *)
THEOREM InfosOrErrors == StreamSpec => []InfoOrError
<1>1. U32 \in Nat \ {0} /\ Payloads \subseteq Seq(Bytes)
  BY ProtocolAssumption, PayloadAssumption
<1>2. StreamInit => FrameInv(Bytes) /\ Received
  <2>1. ASSUME StreamInit PROVE FrameInv(Bytes)
    BY <1>1, <2>1, FramesInit
  <2>2. ASSUME StreamInit PROVE Received
    BY <2>2 DEF StreamInit, Received
  <2> QED BY <2>1, <2>2
<1>3. FrameInv(Bytes) /\ Received /\ [StreamNext]_(streamvars) => FrameInv(Bytes)' /\ Received'
  BY <1>1, FrameStep, ReceivedStep
<1>4. Received => InfoOrError
  <2>1. SUFFICES ASSUME Received, NEW i \in DOMAIN delivered
                 PROVE  decode_info(delivered[i])
                          = {r \in Infos : IsPrefix(encode_info(r), delivered[i]) /\ utf8(r.zone_name)}
    BY Zenon DEF InfoOrError
  <2>2. i \in 1..Len(delivered)
    BY <2>1 DEF Received
  <2>3. PICK p \in Payloads : p = delivered[i] /\ Len(p) < Limit
    BY <2>1, <2>2 DEF Received
  <2> QED BY <2>3, DecodesToItsPrefix, Zenon
<1> QED BY <1>2, <1>3, <1>4, PTL DEF StreamSpec

=============================================================================
