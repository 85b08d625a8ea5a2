--------------------------- MODULE HttpProxyProofs ---------------------------
(***************************************************************************)
(* Safety of the HTTP mode for every number of sessions and chunks and     *)
(* every choice of requests, with and without TLS.                         *)
(*                                                                         *)
(* The invariant speaks of one session at a time: what each state waits    *)
(* for, and what the peers have heard and will hear when the pending write *)
(* is done (Spoken), which an erased session keeps, for its 500 may still  *)
(* be on its way.  The program may end in the middle of a handler; a       *)
(* session that waits for its request then waits for nothing any more, so  *)
(* what it waits for (Listening) is claimed only while the program runs.   *)
(***************************************************************************)
EXTENDS HttpProxy, RelayProofs

Responses == {"none", "200", "request"}

(* No peer has been told anything, and no chunk has passed *)
Unopened(s, c, r) ==
    /\ s.said = <<>> /\ c.said = <<>> /\ s.got = 0 /\ c.got = 0
    /\ s.writes > 0 => \/ s.wbuf.kind = "200" /\ r = "200" /\ c.phase = "connected"
                       \/ s.wbuf.kind = "500" /\ c.phase = "idle"
    /\ c.writes > 0 => c.wbuf.kind = "request" /\ r = "request" /\ c.phase = "connected"

(* One peer has been told, and chunks may pass *)
Opened(s, c, r) ==
    /\ c.phase = "connected"
    /\ \/ r = "200" /\ s.said = <<"200">> /\ c.said = <<>>
       \/ r = "request" /\ s.said = <<>> /\ c.said = <<"request">>
    /\ s.writes > 0 => s.wbuf.kind = "data"
    /\ c.writes > 0 => c.wbuf.kind = "data"

(* The request was turned down *)
Refused(s, c) ==
    /\ s.said = <<"500">> /\ c.said = <<>> /\ s.got = 0 /\ c.got = 0
    /\ s.writes = 0 /\ c.writes = 0 /\ c.phase = "idle"

Spoken(s, c, r) == Unopened(s, c, r) \/ Opened(s, c, r) \/ Refused(s, c)

(* A session that waits for its stream, and then for its request *)
Listening(s, c) ==
    /\ Flagged(s, c) /\ Untouched(s, c) /\ s.closing = {} /\ s.writes = 0
    /\ c.phase = "idle" /\ c.reads = 0 /\ c.writes = 0
    /\ s.said = <<>> /\ c.said = <<>>
    /\ IF s.starting THEN s.reads = 0 ELSE s.reads = 1 /\ c.made = TRUE

(* A session that waits for its connect, or for its opening write *)
Connecting(s, c, r) ==
    /\ s.starting = FALSE /\ s.reads = 0 /\ s.writes = 0 /\ c.reads = 0 /\ c.writes = 0
    /\ c.phase \in {"resolving", "connecting"} /\ r \in {"200", "request"}
    /\ s.said = <<>> /\ c.said = <<>>

Replying(s, c, r) ==
    /\ s.starting = FALSE /\ s.reads = 0 /\ c.reads = 0 /\ c.phase = "connected"
    /\ s.said = <<>> /\ c.said = <<>>
    /\ \/ r = "200" /\ s.writes = 1 /\ c.writes = 0 /\ s.wbuf.kind = "200"
       \/ r = "request" /\ s.writes = 0 /\ c.writes = 1 /\ c.wbuf.kind = "request"

SessionInv(st, s, c, r) ==
    /\ st \in States \cup {Erased} /\ s \in ServerStream /\ c \in ClientStream
    /\ r \in Responses
    /\ Exclusive(s, c) /\ Spoken(s, c, r)
    /\ c.phase \in {"resolving", "connecting"} => st = "HttpConnectionEstablished"
    /\ st # Erased => s.closing = {}
    /\ st \notin {"HttpWaitRequest", Erased} => Flagged(s, c) /\ c.made = TRUE
    /\ st = "HttpConnectionEstablished" => Untouched(s, c) /\ Connecting(s, c, r)
    /\ st = "HttpReadyTransferData" => Untouched(s, c) /\ Replying(s, c, r)
    /\ st = "HttpDataTransferMode" => Relaying(s, c) /\ Opened(s, c, r)

IInv ==
    /\ CoreTypeOK(States)
    /\ response \in [Ids -> Responses]
    /\ AllFresh
    /\ \A i \in Ids : SessionInv(session[i], server[i], client[i], response[i])
    /\ running # "crashed" =>
           \A i \in Ids : session[i] = "HttpWaitRequest" => Listening(server[i], client[i])

-----------------------------------------------------------------------------
(* A handler that leaves a good session leaves a good proxy. *)
LEMMA HandledPreserves ==
    ASSUME IInv, NEW i \in Ids, i \leq stream_id,
           NEW st, NEW s, NEW c, Handled(i, st, s, c),
           response' \in [Ids -> Responses],
           \A j \in Ids : j # i => response'[j] = response[j],
           SessionInv(st, s, c, response'[i]),
           st = "HttpWaitRequest" => Listening(s, c)
    PROVE  IInv'
  <1>1. st \in States \cup {Erased} /\ s \in ServerStream /\ c \in ClientStream
    BY DEF SessionInv
  <1>2. /\ CoreTypeOK(States)' /\ running' = running /\ stream_id' = stream_id
        /\ session'[i] = st /\ server'[i] = s /\ client'[i] = c
        /\ \A j \in Ids : j # i => /\ session'[j] = session[j]
                                   /\ server'[j] = server[j] /\ client'[j] = client[j]
    BY <1>1, HandledChanges DEF IInv
  <1>3. \A j \in Ids : SessionInv(session'[j], server'[j], client'[j], response'[j])
    BY <1>2 DEF IInv
  <1>4. running' # "crashed" =>
            \A j \in Ids : session'[j] = "HttpWaitRequest" => Listening(server'[j], client'[j])
    BY <1>2 DEF IInv
  <1>5. AllFresh'
    <2>1. \A j \in Ids : j > stream_id => j # i /\ Fresh(j)
      BY BoundsAssumption DEF IInv, AllFresh, CoreTypeOK, Ids
    <2>2. QED BY <1>2, <2>1 DEF AllFresh, Fresh
  <1>6. QED BY <1>2, <1>3, <1>4, <1>5 DEF IInv

(* The same of the handlers that do not choose the response. *)
LEMMA HandledKeeps ==
    ASSUME IInv, NEW i \in Ids, i \leq stream_id,
           NEW st, NEW s, NEW c, Handled(i, st, s, c), UNCHANGED response,
           SessionInv(st, s, c, response[i]),
           st = "HttpWaitRequest" => Listening(s, c)
    PROVE  IInv'
  <1>1. response' \in [Ids -> Responses] /\ \A j \in Ids : response'[j] = response[j]
    BY DEF IInv
  <1>2. SessionInv(st, s, c, response'[i])
    BY <1>1
  <1>3. QED BY <1>1, <1>2, HandledPreserves

(* The program ends while a session waits for its request. *)
LEMMA DiesKeeps ==
    ASSUME IInv, NEW i \in Ids, i \leq stream_id, session[i] = "HttpWaitRequest",
           NEW s, NEW c, Dies(i, s, c), UNCHANGED response,
           SessionInv("HttpWaitRequest", s, c, response[i])
    PROVE  IInv'
  <1>1. s \in ServerStream /\ c \in ClientStream
    BY DEF SessionInv
  <1>2. /\ running' = "crashed" /\ stream_id' = stream_id
        /\ session' = session /\ server'[i] = s /\ client'[i] = c /\ response' = response
        /\ server' \in [Ids -> ServerStream] /\ client' \in [Ids -> ClientStream]
        /\ \A j \in Ids : j # i => server'[j] = server[j] /\ client'[j] = client[j]
    BY <1>1 DEF Dies, IInv, CoreTypeOK
  <1>3. CoreTypeOK(States)'
    BY <1>2 DEF IInv, CoreTypeOK
  <1>4. \A j \in Ids : SessionInv(session'[j], server'[j], client'[j], response'[j])
    BY <1>2 DEF IInv
  <1>5. AllFresh'
    <2>1. \A j \in Ids : j > stream_id => j # i /\ Fresh(j)
      BY BoundsAssumption DEF IInv, AllFresh, CoreTypeOK, Ids
    <2>2. QED BY <1>2, <2>1 DEF AllFresh, Fresh
  <1>6. QED BY <1>2, <1>3, <1>4, <1>5 DEF IInv

LEMMA Accepted ==
    ASSUME IInv, NEW i \in Ids, ~(ServerQuiet(server[i]) /\ ClientQuiet(client[i]))
    PROVE  i \leq stream_id
  <1>1. AllFresh /\ stream_id \in 0..MaxSessions
    BY DEF IInv, CoreTypeOK
  <1>2. QED BY <1>1, PendingAccepted

(* What the peers have heard stays true when an operation ends or fails. *)
LEMMA StillSpoken ==
    ASSUME NEW s \in ServerStream, NEW c \in ClientStream, NEW r, Spoken(s, c, r),
           NEW t \in ServerStream, NEW d \in ClientStream,
           t.writes \leq s.writes, t.wbuf = s.wbuf, t.said = s.said, t.got = s.got,
           d.writes \leq c.writes, d.wbuf = c.wbuf, d.said = c.said, d.got = c.got,
           d.phase = c.phase
    PROVE  Spoken(t, d, r)
  <1>1. s.writes \in Nat /\ t.writes \in Nat /\ c.writes \in Nat /\ d.writes \in Nat
    BY DEF ServerStream, ClientStream
  <1>2. /\ (t.writes > 0 => s.writes > 0) /\ (d.writes > 0 => c.writes > 0)
        /\ (s.writes = 0 => t.writes = 0) /\ (c.writes = 0 => d.writes = 0)
    BY <1>1
  <1>3. CASE Unopened(s, c, r)
    BY <1>2, <1>3 DEF Spoken, Unopened
  <1>4. CASE Opened(s, c, r)
    BY <1>2, <1>4 DEF Spoken, Opened
  <1>5. CASE Refused(s, c)
    BY <1>2, <1>5 DEF Spoken, Refused
  <1>6. QED BY <1>3, <1>4, <1>5 DEF Spoken

(* The pending write to the client is done. *)
LEMMA ServerWrittenSpoken ==
    ASSUME NEW s \in ServerStream, NEW c \in ClientStream, NEW r, Spoken(s, c, r),
           Exclusive(s, c), s.writes > 0
    PROVE  /\ Spoken(server_write_ok(s), c, r)
           /\ s.said = <<>> /\ c.said = <<>> /\ s.wbuf.kind = "200" =>
                  Opened(server_write_ok(s), c, r)
  <1> DEFINE t == server_write_ok(s)
  <1>1. s.writes = 1 /\ s.said \in Seq(Kinds) /\ c.writes \in Nat
    BY DEF Exclusive, ServerStream, ClientStream
  <1>2. /\ t \in ServerStream /\ t.writes = s.writes - 1 /\ t.wbuf = s.wbuf /\ t.got = s.got
        /\ s.wbuf.kind = "data" => t.said = s.said
        /\ s.wbuf.kind # "data" => t.said = Append(s.said, s.wbuf.kind)
    BY ServerWriteOk
  <1>3. t.writes = 0
    BY <1>1, <1>2
  <1> HIDE DEF t
  <1>4. CASE Unopened(s, c, r)
    <2>1. /\ s.wbuf.kind \in {"200", "500"} /\ s.said = <<>> /\ c.said = <<>>
          /\ s.got = 0 /\ c.got = 0
          /\ s.wbuf.kind = "200" => r = "200" /\ c.phase = "connected"
          /\ s.wbuf.kind = "500" => c.phase = "idle"
      BY <1>4 DEF Unopened
    <2>2. t.said = <<s.wbuf.kind>>
      BY <1>2, <2>1
    <2>3. c.writes = 0
      BY <1>1, <1>4, <2>1 DEF Unopened
    <2>4. CASE s.wbuf.kind = "200"
      <3>1. Opened(t, c, r)
        BY <1>3, <2>1, <2>2, <2>3, <2>4 DEF Opened
      <3>2. QED BY <3>1 DEF Spoken, t
    <2>5. CASE s.wbuf.kind = "500"
      <3>1. Refused(t, c)
        BY <1>2, <1>3, <2>1, <2>2, <2>3, <2>5 DEF Refused
      <3>2. QED BY <2>5, <3>1 DEF Spoken, t
    <2>6. QED BY <2>1, <2>4, <2>5
  <1>5. CASE Opened(s, c, r)
    <2>1. s.wbuf.kind = "data" /\ t.said = s.said
      BY <1>2, <1>5 DEF Opened
    <2>2. Opened(t, c, r)
      BY <1>2, <1>3, <1>5, <2>1 DEF Opened
    <2>3. QED BY <2>2 DEF Spoken, t
  <1>6. CASE Refused(s, c)
    BY <1>1, <1>6 DEF Refused
  <1>7. QED BY <1>4, <1>5, <1>6 DEF Spoken

(* The pending write to the host is done. *)
LEMMA ClientWrittenSpoken ==
    ASSUME NEW s \in ServerStream, NEW c \in ClientStream, NEW r, Spoken(s, c, r),
           Exclusive(s, c), c.writes > 0
    PROVE  /\ Spoken(s, client_write_ok(c), r)
           /\ s.said = <<>> /\ c.said = <<>> => Opened(s, client_write_ok(c), r)
  <1> DEFINE d == client_write_ok(c)
  <1>1. c.writes = 1 /\ c.said \in Seq(Kinds) /\ s.writes \in Nat
    BY DEF Exclusive, ServerStream, ClientStream
  <1>2. /\ d \in ClientStream /\ d.writes = c.writes - 1 /\ d.wbuf = c.wbuf /\ d.got = c.got
        /\ d.phase = c.phase
        /\ c.wbuf.kind = "data" => d.said = c.said
        /\ c.wbuf.kind # "data" => d.said = Append(c.said, c.wbuf.kind)
    BY ClientWriteOk
  <1>3. d.writes = 0
    BY <1>1, <1>2
  <1> HIDE DEF d
  <1>4. CASE Unopened(s, c, r)
    <2>1. /\ c.wbuf.kind = "request" /\ s.said = <<>> /\ c.said = <<>>
          /\ r = "request" /\ c.phase = "connected"
      BY <1>4 DEF Unopened
    <2>2. d.said = <<"request">>
      BY <1>2, <2>1
    <2>3. s.writes = 0
      BY <1>1, <1>4, <2>1 DEF Unopened
    <2>4. Opened(s, d, r)
      BY <1>2, <1>3, <2>1, <2>2, <2>3 DEF Opened
    <2>5. QED BY <2>4 DEF Spoken, d
  <1>5. CASE Opened(s, c, r)
    <2>1. c.wbuf.kind = "data" /\ d.said = c.said
      BY <1>2, <1>5 DEF Opened
    <2>2. Opened(s, d, r)
      BY <1>2, <1>3, <1>5, <2>1 DEF Opened
    <2>3. QED BY <2>2 DEF Spoken, d
  <1>6. CASE Refused(s, c)
    BY <1>1, <1>6 DEF Refused
  <1>7. QED BY <1>4, <1>5, <1>6 DEF Spoken

(* What an erased session has to keep. *)
LEMMA ErasedGood ==
    ASSUME NEW s \in ServerStream, NEW c \in ClientStream, NEW r \in Responses,
           Exclusive(s, c), Spoken(s, c, r), c.phase \notin {"resolving", "connecting"}
    PROVE  SessionInv(Erased, s, c, r)
  BY DEF SessionInv, Erased, States

(* Stopping a session that is not connecting erases it for good. *)
LEMMA StopGood ==
    ASSUME NEW s \in ServerStream, NEW c \in ClientStream, NEW r \in Responses,
           Exclusive(s, c), Spoken(s, c, r), c.phase \notin {"resolving", "connecting"}
    PROVE  SessionInv(Erased, server_stop(s), client_stop(c), r)
  <1> DEFINE t == server_stop(s)
             d == client_stop(c)
  <1>1. /\ t \in ServerStream /\ t.starting = s.starting
        /\ t.reads = s.reads /\ t.writes = s.writes
        /\ t.wbuf = s.wbuf /\ t.said = s.said /\ t.got = s.got
    BY ServerStop
  <1>2. /\ d \in ClientStream /\ d.phase = c.phase
        /\ d.reads = c.reads /\ d.writes = c.writes
        /\ d.wbuf = c.wbuf /\ d.said = c.said /\ d.got = c.got /\ d.made = c.made
    BY ClientStop
  <1> HIDE DEF t, d
  <1>3. Exclusive(t, d)
    BY <1>1, <1>2 DEF Exclusive
  <1>4. Spoken(t, d, r)
    BY <1>1, <1>2 DEF Spoken, Unopened, Opened, Refused
  <1>5. SessionInv(Erased, t, d, r)
    BY <1>1, <1>2, <1>3, <1>4, ErasedGood
  <1>6. QED BY <1>5 DEF t, d

(* A session that has a server operation outstanding is not connecting. *)
LEMMA NotConnecting ==
    ASSUME NEW st, NEW s, NEW c, NEW r, SessionInv(st, s, c, r),
           s.starting = TRUE \/ s.reads > 0 \/ s.writes > 0 \/ st = Erased
    PROVE  c.phase \notin {"resolving", "connecting"}
  <1>1. CASE st # "HttpConnectionEstablished"
    BY <1>1 DEF SessionInv
  <1>2. CASE st = "HttpConnectionEstablished"
    <2>1. s.starting = FALSE /\ s.reads = 0 /\ s.writes = 0
      BY <1>2 DEF SessionInv, Connecting
    <2>2. QED BY <1>2, <2>1 DEF Erased
  <1>3. QED BY <1>1, <1>2

-----------------------------------------------------------------------------
(* What each handler leaves, one lemma per callback. *)

(* The stream is ready: the client stream is made, and the request is read. *)
LEMMA ReadyGood ==
    ASSUME NEW s \in ServerStream, NEW c \in ClientStream, NEW r \in Responses,
           Listening(s, c), s.starting = TRUE
    PROVE  LET t == server_read(server_ready(s))
           IN /\ SessionInv("HttpWaitRequest", t, TcpClientStream_create, r)
              /\ Listening(t, TcpClientStream_create)
  <1> DEFINE u == server_ready(s)
             t == server_read(u)
             d == TcpClientStream_create
  <1>1. /\ s.reads = 0 /\ s.writes = 0 /\ s.closing = {} /\ s.said = <<>>
        /\ Flagged(s, c) /\ s.got = 0 /\ s.put = <<>>
    BY DEF Listening, Untouched
  <1>2. /\ u \in ServerStream /\ u.starting = FALSE /\ u.closing = {}
        /\ u.reads = 0 /\ u.rip = s.rip /\ u.writes = 0 /\ u.wip = s.wip
        /\ u.got = s.got /\ u.put = s.put /\ u.said = s.said
    BY <1>1, ServerReady
  <1>3. Tls \/ u.rip = FALSE
    BY <1>1, <1>2, TlsAssumption DEF Flagged
  <1> HIDE DEF u
  <1>4. /\ t \in ServerStream /\ t.reads = u.reads + 1 /\ (~Tls => t.rip = TRUE)
        /\ t.starting = u.starting /\ t.closing = u.closing
        /\ t.writes = u.writes /\ t.wip = u.wip
        /\ t.got = u.got /\ t.put = u.put /\ t.said = u.said
    BY <1>2, <1>3, ServerRead
  <1>5. /\ d \in ClientStream /\ d.phase = "idle" /\ d.made = TRUE
        /\ d.reads = 0 /\ d.writes = 0 /\ d.rip = FALSE /\ d.wip = FALSE
        /\ d.got = 0 /\ d.put = <<>> /\ d.said = <<>>
    BY CreateType
  <1> HIDE DEF t, d
  <1>6. t.reads = 1 /\ t.writes = 0 /\ t.starting = FALSE /\ t.closing = {}
    BY <1>2, <1>4
  <1>7. Exclusive(t, d) /\ Flagged(t, d) /\ Untouched(t, d)
    BY <1>1, <1>2, <1>4, <1>5, <1>6 DEF Exclusive, Flagged, Untouched
  <1>8. Spoken(t, d, r)
    BY <1>1, <1>2, <1>4, <1>5, <1>6 DEF Spoken, Unopened
  <1>9. Listening(t, d)
    BY <1>1, <1>2, <1>4, <1>5, <1>6, <1>7 DEF Listening
  <1>10. SessionInv("HttpWaitRequest", t, d, r)
    BY <1>4, <1>5, <1>6, <1>7, <1>8 DEF SessionInv, States
  <1>11. QED BY <1>9, <1>10 DEF u, t, d

(* What the first read leaves of the two streams. *)
LEMMA RequestRead ==
    ASSUME NEW s \in ServerStream, NEW c \in ClientStream, Listening(s, c), s.reads > 0
    PROVE  LET t == server_read_ok(s)
           IN /\ t \in ServerStream /\ t.starting = FALSE /\ t.closing = {}
              /\ t.reads = 0 /\ t.writes = 0 /\ t.said = <<>>
              /\ Flagged(t, c) /\ Untouched(t, c) /\ Exclusive(t, c)
              /\ \A r : Spoken(t, c, r)
  <1> DEFINE t == server_read_ok(s)
  <1>1. /\ s.starting = FALSE /\ s.reads = 1 /\ s.writes = 0 /\ s.closing = {}
        /\ s.said = <<>> /\ c.said = <<>> /\ c.reads = 0 /\ c.writes = 0
        /\ Flagged(s, c) /\ Untouched(s, c)
    BY DEF Listening, ServerStream
  <1>2. /\ t \in ServerStream /\ t.starting = s.starting /\ t.closing = s.closing
        /\ t.reads = s.reads - 1 /\ t.rip = FALSE /\ t.writes = s.writes /\ t.wip = s.wip
        /\ t.got = s.got /\ t.put = s.put /\ t.said = s.said
    BY ServerReadOk
  <1> HIDE DEF t
  <1>3. t.reads = 0 /\ t.writes = 0 /\ t.starting = FALSE
    BY <1>1, <1>2
  <1>4. Exclusive(t, c) /\ Flagged(t, c) /\ Untouched(t, c)
    BY <1>1, <1>2, <1>3 DEF Exclusive, Flagged, Untouched
  <1>5. \A r : Spoken(t, c, r)
    BY <1>1, <1>2, <1>3 DEF Spoken, Unopened, Untouched
  <1>6. QED BY <1>1, <1>2, <1>3, <1>4, <1>5 DEF t

(* A request that names a host starts the resolution. *)
LEMMA RequestGood ==
    ASSUME NEW s \in ServerStream, NEW c \in ClientStream, Listening(s, c), s.reads > 0,
           NEW r \in {"200", "request"}
    PROVE  SessionInv("HttpConnectionEstablished", server_read_ok(s), TcpClientStream_start(c), r)
  <1> DEFINE t == server_read_ok(s)
             d == TcpClientStream_start(c)
  <1>1. /\ t \in ServerStream /\ t.starting = FALSE /\ t.closing = {}
        /\ t.reads = 0 /\ t.writes = 0 /\ t.said = <<>>
        /\ Flagged(t, c) /\ Untouched(t, c)
    BY RequestRead
  <1>2. /\ s.starting = FALSE /\ c.made = TRUE /\ c.reads = 0 /\ c.writes = 0 /\ c.said = <<>>
    BY DEF Listening, ServerStream
  <1>3. /\ d \in ClientStream /\ d.phase = "resolving"
        /\ d.reads = c.reads /\ d.rip = c.rip /\ d.writes = c.writes /\ d.wip = c.wip
        /\ d.got = c.got /\ d.put = c.put /\ d.said = c.said /\ d.made = c.made
    BY ClientStart
  <1> HIDE DEF t, d
  <1>4. Exclusive(t, d) /\ Flagged(t, d) /\ Untouched(t, d)
    BY <1>1, <1>2, <1>3 DEF Exclusive, Flagged, Untouched
  <1>5. Spoken(t, d, r)
    BY <1>1, <1>2, <1>3, <1>4 DEF Spoken, Unopened, Untouched
  <1>6. Connecting(t, d, r)
    BY <1>1, <1>2, <1>3 DEF Connecting
  <1>7. SessionInv("HttpConnectionEstablished", t, d, r)
    BY <1>1, <1>2, <1>3, <1>4, <1>5, <1>6 DEF SessionInv, States, Responses, Erased
  <1>8. QED BY <1>7 DEF t, d

(* A bad request: 500 is written, and the session ends. *)
LEMMA RefusedGood ==
    ASSUME NEW s \in ServerStream, NEW c \in ClientStream, Listening(s, c), s.reads > 0,
           NEW r \in Responses
    PROVE  SessionInv(Erased, server_stop(server_write(server_read_ok(s), Message("500"))),
                      client_stop(c), r)
  <1> DEFINE t == server_read_ok(s)
             m == Message("500")
             u == server_write(t, m)
  <1>1. /\ t \in ServerStream /\ t.starting = FALSE /\ t.closing = {}
        /\ t.reads = 0 /\ t.writes = 0 /\ t.said = <<>>
        /\ Flagged(t, c) /\ Untouched(t, c)
    BY RequestRead
  <1>2. c.phase = "idle" /\ c.reads = 0 /\ c.writes = 0 /\ c.said = <<>>
    BY DEF Listening
  <1>3. m \in Content /\ m.kind = "500"
    BY ContentType DEF Kinds
  <1>4. Tls \/ t.wip = FALSE
    BY <1>1, TlsAssumption DEF Flagged
  <1> HIDE DEF t, m
  <1>5. /\ u \in ServerStream /\ u.writes = t.writes + 1 /\ u.wbuf = m
        /\ u.starting = t.starting /\ u.reads = t.reads /\ u.got = t.got /\ u.said = t.said
    <2>1. t \in ServerStream /\ m \in Content
      BY <1>1, <1>3
    <2>2. QED BY <1>4, <2>1, ServerWrite
  <1> HIDE DEF u
  <1>6. Exclusive(u, c)
    BY <1>1, <1>2, <1>5 DEF Exclusive
  <1>7. Spoken(u, c, r)
    BY <1>1, <1>2, <1>3, <1>5 DEF Spoken, Unopened, Untouched
  <1>8. SessionInv(Erased, server_stop(u), client_stop(c), r)
    BY <1>2, <1>5, <1>6, <1>7, StopGood
  <1>9. QED BY <1>8 DEF t, m, u

LEMMA ResolvedGood ==
    ASSUME NEW st, NEW s, NEW c, NEW r, SessionInv(st, s, c, r), c.phase = "resolving"
    PROVE  SessionInv("HttpConnectionEstablished", s, client_resolved(c), r)
  <1> DEFINE d == client_resolved(c)
  <1>1. st = "HttpConnectionEstablished"
    BY DEF SessionInv
  <1>2. /\ s \in ServerStream /\ c \in ClientStream /\ r \in Responses
        /\ Connecting(s, c, r) /\ s.closing = {} /\ c.made = TRUE
        /\ Flagged(s, c) /\ Untouched(s, c) /\ Exclusive(s, c)
    BY <1>1 DEF SessionInv, Erased
  <1>3. /\ d \in ClientStream /\ d.phase = "connecting"
        /\ d.reads = c.reads /\ d.rip = c.rip /\ d.writes = c.writes /\ d.wip = c.wip
        /\ d.got = c.got /\ d.put = c.put /\ d.said = c.said /\ d.made = c.made
    BY <1>2, ClientResolved
  <1> HIDE DEF d
  <1>4. Exclusive(s, d) /\ Flagged(s, d) /\ Untouched(s, d)
    BY <1>2, <1>3 DEF Exclusive, Flagged, Untouched
  <1>5. Connecting(s, d, r)
    BY <1>2, <1>3 DEF Connecting
  <1>6. Spoken(s, d, r)
    BY <1>4, <1>5 DEF Spoken, Unopened, Untouched, Connecting
  <1>7. SessionInv("HttpConnectionEstablished", s, d, r)
    BY <1>2, <1>3, <1>4, <1>5, <1>6 DEF SessionInv, States, Erased
  <1>8. QED BY <1>7 DEF d

(* The host is connected: the client is told, or the host gets the request. *)
LEMMA AnswerGood ==
    ASSUME NEW s, NEW c, SessionInv("HttpConnectionEstablished", s, c, "200")
    PROVE  SessionInv("HttpReadyTransferData", server_write(s, Message("200")),
                      client_connected(c), "200")
  <1> DEFINE m == Message("200")
             t == server_write(s, m)
             d == client_connected(c)
  <1>1. /\ s \in ServerStream /\ c \in ClientStream /\ Connecting(s, c, "200")
        /\ s.closing = {} /\ c.made = TRUE /\ Flagged(s, c) /\ Untouched(s, c)
    BY DEF SessionInv, Erased
  <1>2. m \in Content /\ m.kind = "200" /\ (Tls \/ s.wip = FALSE)
    BY <1>1, ContentType, TlsAssumption DEF Kinds, Flagged, Connecting
  <1> HIDE DEF m
  <1>3. /\ t \in ServerStream /\ t.writes = s.writes + 1 /\ t.wbuf = m
        /\ ~Tls => t.wip = TRUE
        /\ t.starting = s.starting /\ t.closing = s.closing
        /\ t.reads = s.reads /\ t.rip = s.rip
        /\ t.got = s.got /\ t.put = s.put /\ t.said = s.said
    BY <1>1, <1>2, ServerWrite
  <1>4. /\ d \in ClientStream /\ d.phase = "connected"
        /\ d.reads = c.reads /\ d.rip = c.rip /\ d.writes = c.writes /\ d.wip = c.wip
        /\ d.got = c.got /\ d.put = c.put /\ d.said = c.said /\ d.made = c.made
    BY <1>1, ClientConnected
  <1> HIDE DEF t, d
  <1>5. Replying(t, d, "200")
    BY <1>1, <1>2, <1>3, <1>4 DEF Connecting, Replying
  <1>6. Exclusive(t, d) /\ Flagged(t, d) /\ Untouched(t, d)
    BY <1>1, <1>3, <1>4, <1>5 DEF Exclusive, Flagged, Untouched, Connecting, Replying
  <1>7. Spoken(t, d, "200")
    BY <1>5, <1>6 DEF Spoken, Unopened, Untouched, Replying
  <1>8. SessionInv("HttpReadyTransferData", t, d, "200")
    BY <1>1, <1>3, <1>4, <1>5, <1>6, <1>7 DEF SessionInv, States, Responses, Erased
  <1>9. QED BY <1>8 DEF m, t, d

LEMMA ForwardGood ==
    ASSUME NEW s, NEW c, SessionInv("HttpConnectionEstablished", s, c, "request")
    PROVE  SessionInv("HttpReadyTransferData", s,
                      client_write(client_connected(c), Message("request")), "request")
  <1> DEFINE m == Message("request")
             e == client_connected(c)
             d == client_write(e, m)
  <1>1. /\ s \in ServerStream /\ c \in ClientStream /\ Connecting(s, c, "request")
        /\ s.closing = {} /\ c.made = TRUE /\ Flagged(s, c) /\ Untouched(s, c)
    BY DEF SessionInv, Erased
  <1>2. /\ e \in ClientStream /\ e.phase = "connected"
        /\ e.reads = c.reads /\ e.rip = c.rip /\ e.writes = c.writes /\ e.wip = c.wip
        /\ e.got = c.got /\ e.put = c.put /\ e.said = c.said /\ e.made = c.made
    BY <1>1, ClientConnected
  <1> HIDE DEF e
  <1>3. m \in Content /\ m.kind = "request" /\ e.wip = FALSE
    BY <1>1, <1>2, ContentType DEF Kinds, Flagged, Connecting
  <1> HIDE DEF m
  <1>4. /\ d \in ClientStream /\ d.phase = e.phase
        /\ d.writes = e.writes + 1 /\ d.wip = TRUE /\ d.wbuf = m
        /\ d.reads = e.reads /\ d.rip = e.rip
        /\ d.got = e.got /\ d.put = e.put /\ d.said = e.said /\ d.made = e.made
    BY <1>2, <1>3, ClientWrite
  <1> HIDE DEF d
  <1>5. Replying(s, d, "request")
    BY <1>1, <1>2, <1>3, <1>4 DEF Connecting, Replying
  <1>6. Exclusive(s, d) /\ Flagged(s, d) /\ Untouched(s, d)
    BY <1>1, <1>2, <1>4, <1>5 DEF Exclusive, Flagged, Untouched, Connecting, Replying
  <1>7. Spoken(s, d, "request")
    BY <1>2, <1>4, <1>5, <1>6 DEF Spoken, Unopened, Untouched, Replying
  <1>8. SessionInv("HttpReadyTransferData", s, d, "request")
    BY <1>1, <1>2, <1>4, <1>5, <1>6, <1>7 DEF SessionInv, States, Responses, Erased
  <1>9. QED BY <1>8 DEF m, e, d

(* A relay that was opened. *)
LEMMA RelayOpened ==
    ASSUME NEW s, NEW c, NEW r \in Responses, Relay(s, c), c.made = TRUE, Opened(s, c, r)
    PROVE  SessionInv("HttpDataTransferMode", s, c, r)
  <1>1. c.phase = "connected" /\ s.closing = {}
    BY DEF Relay, Relaying
  <1>2. QED BY <1>1 DEF SessionInv, States, Erased, Relay, Spoken

(* A step of the relay keeps it so. *)
LEMMA RelayKeeps ==
    ASSUME NEW s, NEW c, NEW r, SessionInv("HttpDataTransferMode", s, c, r),
           NEW t, NEW d, Relay(t, d), SameTalk(s, c, t, d)
    PROVE  SessionInv("HttpDataTransferMode", t, d, r)
  <1>1. Opened(s, c, r) /\ c.made = TRUE /\ r \in Responses
    BY DEF SessionInv, Erased
  <1>2. (t.writes > 0 => t.wbuf.kind = "data") /\ (d.writes > 0 => d.wbuf.kind = "data")
    <2>1. t.writes \in Nat /\ d.writes \in Nat
      BY DEF Relay, ServerStream, ClientStream
    <2>2. QED BY <2>1 DEF Relay, Relaying, Exclusive
  <1>3. Opened(t, d, r) /\ d.made = TRUE
    BY <1>1, <1>2 DEF Opened, SameTalk
  <1>4. QED BY <1>1, <1>3, RelayOpened

LEMMA IsRelay ==
    ASSUME NEW s, NEW c, NEW r, SessionInv("HttpDataTransferMode", s, c, r)
    PROVE  Relay(s, c)
  BY DEF SessionInv, Relay, Erased

(* The opening write is done, and the relay starts. *)
LEMMA AnsweredGood ==
    ASSUME NEW s, NEW c, NEW r, SessionInv("HttpReadyTransferData", s, c, r), s.writes > 0
    PROVE  SessionInv("HttpDataTransferMode", server_read(server_write_ok(s)), client_read(c), r)
  <1> DEFINE u == server_write_ok(s)
             t == server_read(u)
             d == client_read(c)
  <1>1. /\ s \in ServerStream /\ c \in ClientStream /\ r \in Responses
        /\ Exclusive(s, c) /\ Spoken(s, c, r)
        /\ Replying(s, c, r) /\ s.closing = {} /\ c.made = TRUE
        /\ Flagged(s, c) /\ Untouched(s, c)
    BY DEF SessionInv, Erased
  <1>2. s.writes = 1 /\ c.writes = 0 /\ s.wbuf.kind = "200" /\ s.said = <<>> /\ c.said = <<>>
    BY <1>1 DEF Replying
  <1>3. /\ u \in ServerStream /\ u.starting = s.starting /\ u.closing = s.closing
        /\ u.reads = s.reads /\ u.rip = s.rip /\ u.writes = s.writes - 1 /\ u.wip = FALSE
        /\ u.got = s.got
        /\ s.wbuf.kind # "data" => u.put = s.put
    BY <1>1, ServerWriteOk
  <1>4. Opened(u, c, r)
    BY <1>1, <1>2, ServerWrittenSpoken
  <1> HIDE DEF u
  <1>5. /\ u.starting = FALSE /\ u.closing = {} /\ u.reads = 0 /\ u.writes = 0
        /\ c.phase = "connected" /\ c.reads = 0 /\ c.writes = 0
        /\ Flagged(u, c) /\ Untouched(u, c)
    BY <1>1, <1>2, <1>3 DEF Flagged, Untouched, Replying
  <1>6. Relay(t, d) /\ SameTalk(u, c, t, d)
    BY <1>1, <1>3, <1>5, RelayStarts
  <1> HIDE DEF t, d
  <1>7. (t.writes > 0 => t.wbuf.kind = "data") /\ (d.writes > 0 => d.wbuf.kind = "data")
    <2>1. t.writes \in Nat /\ d.writes \in Nat
      BY <1>6 DEF Relay, ServerStream, ClientStream
    <2>2. QED BY <1>6, <2>1 DEF Relay, Relaying, Exclusive
  <1>8. Opened(t, d, r) /\ d.made = TRUE
    BY <1>1, <1>4, <1>6, <1>7 DEF Opened, SameTalk
  <1>9. SessionInv("HttpDataTransferMode", t, d, r)
    BY <1>1, <1>6, <1>8, RelayOpened
  <1>10. QED BY <1>9 DEF u, t, d

LEMMA ForwardedGood ==
    ASSUME NEW s, NEW c, NEW r, SessionInv("HttpReadyTransferData", s, c, r), c.writes > 0
    PROVE  SessionInv("HttpDataTransferMode", server_read(s), client_read(client_write_ok(c)), r)
  <1> DEFINE e == client_write_ok(c)
             t == server_read(s)
             d == client_read(e)
  <1>1. /\ s \in ServerStream /\ c \in ClientStream /\ r \in Responses
        /\ Exclusive(s, c) /\ Spoken(s, c, r)
        /\ Replying(s, c, r) /\ s.closing = {} /\ c.made = TRUE
        /\ Flagged(s, c) /\ Untouched(s, c)
    BY DEF SessionInv, Erased
  <1>2. c.writes = 1 /\ s.writes = 0 /\ c.wbuf.kind = "request" /\ s.said = <<>> /\ c.said = <<>>
    BY <1>1 DEF Replying
  <1>3. /\ e \in ClientStream /\ e.phase = c.phase /\ e.made = c.made
        /\ e.reads = c.reads /\ e.rip = c.rip /\ e.writes = c.writes - 1 /\ e.wip = FALSE
        /\ e.got = c.got
        /\ c.wbuf.kind # "data" => e.put = c.put
    BY <1>1, ClientWriteOk
  <1>4. Opened(s, e, r)
    BY <1>1, <1>2, ClientWrittenSpoken
  <1> HIDE DEF e
  <1>5. /\ s.starting = FALSE /\ s.closing = {} /\ s.reads = 0 /\ s.writes = 0
        /\ e.phase = "connected" /\ e.reads = 0 /\ e.writes = 0
        /\ Flagged(s, e) /\ Untouched(s, e)
    BY <1>1, <1>2, <1>3 DEF Flagged, Untouched, Replying
  <1>6. Relay(t, d) /\ SameTalk(s, e, t, d)
    BY <1>1, <1>3, <1>5, RelayStarts
  <1> HIDE DEF t, d
  <1>7. (t.writes > 0 => t.wbuf.kind = "data") /\ (d.writes > 0 => d.wbuf.kind = "data")
    <2>1. t.writes \in Nat /\ d.writes \in Nat
      BY <1>6 DEF Relay, ServerStream, ClientStream
    <2>2. QED BY <1>6, <2>1 DEF Relay, Relaying, Exclusive
  <1>8. Opened(t, d, r) /\ d.made = TRUE
    BY <1>1, <1>3, <1>4, <1>6, <1>7 DEF Opened, SameTalk
  <1>9. SessionInv("HttpDataTransferMode", t, d, r)
    BY <1>1, <1>6, <1>8, RelayOpened
  <1>10. QED BY <1>9 DEF e, t, d

-----------------------------------------------------------------------------
(* Every action keeps the invariant, one lemma per action. *)

LEMMA InitGood == Init => IInv
  <1> SUFFICES ASSUME Init PROVE IInv
    OBVIOUS
  <1>1. AllFresh
    BY DEF Init, CoreInit, AllFresh, Fresh
  <1>2. SessionInv(Erased, NoServer, NoClient, "none")
    <2>1. /\ Exclusive(NoServer, NoClient) /\ NoClient.phase \notin {"resolving", "connecting"}
          /\ Spoken(NoServer, NoClient, "none")
      BY InitialType DEF Exclusive, Spoken, Unopened, ServerQuiet, ClientQuiet
    <2>2. QED BY <2>1, InitialType, ErasedGood DEF Responses
  <1>3. CoreTypeOK(States)
    BY InitialType, BoundsAssumption DEF Init, CoreInit, CoreTypeOK
  <1>4. QED BY <1>1, <1>2, <1>3 DEF Init, CoreInit, IInv, Responses, Erased

(* What an action that changes session i may assume of it *)
LEMMA SessionGood ==
    ASSUME IInv, NEW i \in Ids
    PROVE  /\ SessionInv(session[i], server[i], client[i], response[i])
           /\ server[i] \in ServerStream /\ client[i] \in ClientStream
           /\ response[i] \in Responses
           /\ Exclusive(server[i], client[i]) /\ Spoken(server[i], client[i], response[i])
           /\ running = "running" /\ session[i] = "HttpWaitRequest" =>
                  Listening(server[i], client[i])
  BY DEF IInv, SessionInv

LEMMA AcceptStep ==
    ASSUME IInv, NEW i \in Ids, on_accept(i), UNCHANGED response
    PROVE  IInv'
  <1>1. CoreTypeOK(States) /\ "HttpWaitRequest" \in States
    BY DEF IInv, States
  <1>2. /\ CoreTypeOK(States)' /\ running' = running /\ stream_id' = i /\ i = stream_id + 1
        /\ session'[i] = "HttpWaitRequest" /\ server'[i] = ServerStream_start
        /\ client'[i] = client[i]
        /\ \A j \in Ids : j # i => /\ session'[j] = session[j]
                                   /\ server'[j] = server[j] /\ client'[j] = client[j]
    BY <1>1, AcceptChanges DEF on_accept
  <1>3. stream_id \in Nat
    BY BoundsAssumption DEF IInv, CoreTypeOK
  <1>4. client[i] = NoClient
    BY <1>2, <1>3 DEF IInv, AllFresh, Fresh
  <1>5. Listening(ServerStream_start, NoClient)
    BY StartType, InitialType DEF Listening, Flagged, Untouched, ClientQuiet
  <1>6. \A r \in Responses : SessionInv("HttpWaitRequest", ServerStream_start, NoClient, r)
    BY StartType, InitialType
       DEF SessionInv, Exclusive, Spoken, Unopened, ClientQuiet, States, Erased
  <1>7. \A j \in Ids : SessionInv(session'[j], server'[j], client'[j], response'[j])
    BY <1>2, <1>4, <1>6 DEF IInv
  <1>8. running' # "crashed" =>
            \A j \in Ids : session'[j] = "HttpWaitRequest" => Listening(server'[j], client'[j])
    BY <1>2, <1>4, <1>5 DEF IInv
  <1>9. AllFresh'
    <2>1. \A j \in Ids : j > stream_id' => j # i /\ j > stream_id
      BY <1>2, <1>3 DEF Ids
    <2>2. QED BY <1>2, <2>1 DEF IInv, AllFresh, Fresh
  <1>10. QED BY <1>2, <1>7, <1>8, <1>9 DEF IInv

(* The completion of an erased session's operation leaves it erased. *)
LEMMA IgnoredErased ==
    ASSUME IInv, NEW i \in Ids, i \leq stream_id,
           NEW t \in ServerStream, NEW d \in ClientStream, UNCHANGED response,
           Exclusive(t, d), Spoken(t, d, response[i]), d.phase \notin {"resolving", "connecting"},
           Handled(i, Erased, t, d)
    PROVE  IInv'
  <1>1. SessionInv(Erased, t, d, response[i])
    BY ErasedGood DEF IInv
  <1>2. QED BY <1>1, HandledKeeps DEF Erased

(* A failure of a stream stops its session, or ends the program when there *)
(* is no client stream yet.                                                *)
LEMMA StopStep ==
    ASSUME IInv, NEW i \in Ids, i \leq stream_id, session[i] # Erased,
           NEW t \in ServerStream, NEW d \in ClientStream, UNCHANGED response,
           Exclusive(t, d), Spoken(t, d, response[i]), d.phase \notin {"resolving", "connecting"},
           d.made = client[i].made, t.closing = server[i].closing, stop(i, t, d)
    PROVE  IInv'
  <1>1. response[i] \in Responses
    BY DEF IInv
  <1>2. CASE d.made
    <2>1. Handled(i, Erased, server_stop(t), client_stop(d))
      BY <1>2 DEF stop, StopBoth
    <2>2. SessionInv(Erased, server_stop(t), client_stop(d), response[i])
      BY <1>1, StopGood
    <2>3. QED BY <2>1, <2>2, HandledKeeps DEF Erased
  <1>3. CASE ~d.made
    <2>1. Dies(i, t, d)
      BY <1>3 DEF stop
    <2>2. session[i] = "HttpWaitRequest"
      BY <1>3 DEF IInv, SessionInv
    <2>3. t.closing = {}
      BY DEF IInv, SessionInv
    <2>4. SessionInv("HttpWaitRequest", t, d, response[i])
      BY <1>1, <2>3 DEF SessionInv, States, Erased
    <2>5. QED BY <2>1, <2>2, <2>4, DiesKeeps
  <1>4. QED BY <1>2, <1>3

LEMMA ReadyStep ==
    ASSUME IInv, NEW i \in Ids, on_server_ready(i), UNCHANGED response
    PROVE  IInv'
  <1> DEFINE s == server[i]
             c == client[i]
             t == server_ready(s)
  <1>1. s.starting = TRUE /\ i \leq stream_id
    BY Accepted, SessionGood DEF on_server_ready, ServerQuiet, ServerStream
  <1>2. CASE session[i] = "HttpWaitRequest"
    <2>1. Handled(i, "HttpWaitRequest", server_read(t), TcpClientStream_create)
      BY <1>2 DEF on_server_ready, HttpWaitRequest_handle_on_accept, Live, Erased
    <2>2. Listening(s, c)
      BY <1>2, <2>1, SessionGood DEF Handled
    <2>3. /\ SessionInv("HttpWaitRequest", server_read(t), TcpClientStream_create, response[i])
          /\ Listening(server_read(t), TcpClientStream_create)
      BY <1>1, <2>2, SessionGood, ReadyGood
    <2>4. QED BY <1>1, <2>1, <2>3, HandledKeeps
  <1>3. CASE session[i] = Erased
    <2>1. Handled(i, Erased, t, c)
      BY <1>3 DEF on_server_ready, Ignored, Live, Erased
    <2>2. /\ t \in ServerStream /\ t.starting = FALSE
          /\ t.reads = s.reads /\ t.writes = s.writes
          /\ t.wbuf = s.wbuf /\ t.said = s.said /\ t.got = s.got
      BY SessionGood, ServerReady
    <2>3. c.phase \notin {"resolving", "connecting"}
      BY <1>3, SessionGood, NotConnecting
    <2> HIDE DEF t
    <2>4. t.reads \leq s.reads /\ t.writes \leq s.writes /\ c.reads \leq c.reads
          /\ c.writes \leq c.writes
      BY <2>2, SessionGood DEF ServerStream, ClientStream
    <2>5. Exclusive(t, c)
      BY <2>2, <2>4, SessionGood, StillExclusive
    <2>6. Spoken(t, c, response[i])
      BY <2>2, <2>4, SessionGood, StillSpoken
    <2>7. QED BY <1>1, <2>1, <2>2, <2>3, <2>5, <2>6, SessionGood, IgnoredErased
  <1>4. CASE session[i] \notin {"HttpWaitRequest", Erased}
    <2>1. s.starting = FALSE
      BY <1>4, SessionGood DEF SessionInv, Connecting, Replying, Relaying, States
    <2>2. QED BY <1>1, <2>1
  <1>5. QED BY <1>2, <1>3, <1>4

LEMMA ResolvedStep ==
    ASSUME IInv, NEW i \in Ids, resolved(i), UNCHANGED response
    PROVE  IInv'
  <1>1. client[i].phase = "resolving" /\ i \leq stream_id
    BY Accepted DEF resolved, ClientQuiet
  <1>2. session[i] = "HttpConnectionEstablished"
    BY <1>1, SessionGood DEF SessionInv
  <1>3. Handled(i, "HttpConnectionEstablished", server[i], client_resolved(client[i]))
    BY <1>2 DEF resolved, Ignored
  <1>4. SessionInv("HttpConnectionEstablished", server[i], client_resolved(client[i]), response[i])
    BY <1>1, SessionGood, ResolvedGood
  <1>5. QED BY <1>1, <1>3, <1>4, HandledKeeps

LEMMA ConnectStep ==
    ASSUME IInv, NEW i \in Ids, on_connect(i), UNCHANGED response
    PROVE  IInv'
  <1> DEFINE s == server[i]
             c == client[i]
             d == client_connected(c)
  <1>1. c.phase = "connecting" /\ i \leq stream_id
    BY Accepted DEF on_connect, ClientQuiet
  <1>2. session[i] = "HttpConnectionEstablished" /\ response[i] \in {"200", "request"}
    BY <1>1, SessionGood DEF SessionInv, Connecting
  <1>3. CASE response[i] = "200"
    <2>1. Handled(i, "HttpReadyTransferData", server_write(s, Message("200")), d)
      BY <1>2, <1>3 DEF on_connect, HttpConnectionEstablished_handle_client_connect
    <2>2. SessionInv("HttpReadyTransferData", server_write(s, Message("200")), d, response[i])
      BY <1>2, <1>3, SessionGood, AnswerGood
    <2>3. QED BY <1>1, <2>1, <2>2, HandledKeeps
  <1>4. CASE response[i] = "request"
    <2>1. Handled(i, "HttpReadyTransferData", s, client_write(d, Message("request")))
      BY <1>2, <1>4 DEF on_connect, HttpConnectionEstablished_handle_client_connect
    <2>2. SessionInv("HttpReadyTransferData", s, client_write(d, Message("request")), response[i])
      BY <1>2, <1>4, SessionGood, ForwardGood
    <2>3. QED BY <1>1, <2>1, <2>2, HandledKeeps
  <1>5. QED BY <1>2, <1>3, <1>4

LEMMA ServerReadStep ==
    ASSUME IInv, NEW i \in Ids, on_server_read(i)
    PROVE  IInv'
  <1> DEFINE s == server[i]
             c == client[i]
             t == server_read_ok(s)
  <1>1. /\ s \in ServerStream /\ c \in ClientStream /\ s.reads > 0 /\ i \leq stream_id
        /\ Exclusive(s, c) /\ Spoken(s, c, response[i]) /\ response[i] \in Responses
    BY Accepted, SessionGood DEF on_server_read, ServerQuiet
  <1>2. /\ t \in ServerStream /\ t.reads = s.reads - 1 /\ t.starting = s.starting
        /\ t.writes = s.writes /\ t.wbuf = s.wbuf /\ t.said = s.said /\ t.got = s.got
        /\ t.closing = s.closing
    BY <1>1, ServerReadOk
  <1>3. c.phase \notin {"resolving", "connecting"}
    BY <1>1, SessionGood, NotConnecting
  <1>4. Exclusive(t, c) /\ Spoken(t, c, response[i])
    <2> HIDE DEF t
    <2>1. t.reads \leq s.reads /\ t.writes \leq s.writes /\ c.reads \leq c.reads
          /\ c.writes \leq c.writes
      <3>1. s.reads \in Nat /\ s.writes \in Nat
        BY <1>1 DEF ServerStream
      <3>2. c.reads \in Nat /\ c.writes \in Nat
        BY <1>1 DEF ClientStream
      <3>3. QED BY <1>2, <3>1, <3>2
    <2>2. Exclusive(t, c)
      BY <1>1, <1>2, <2>1, StillExclusive
    <2>3. Spoken(t, c, response[i])
      BY <1>1, <1>2, <2>1, StillSpoken
    <2>4. QED BY <2>2, <2>3
  <1>5. CASE session[i] = "HttpWaitRequest"
    <2>1. PICK kind \in Requests :
              CASE kind = "bad"       -> /\ stop(i, server_write(t, Message("500")), c)
                                         /\ UNCHANGED response
                [] kind = "valueless" -> Dies(i, t, c) /\ UNCHANGED response
                [] OTHER              ->
                       /\ response' = [response EXCEPT
                                           ![i] = IF kind = "connect" THEN "200" ELSE "request"]
                       /\ Handled(i, "HttpConnectionEstablished", t, TcpClientStream_start(c))
      BY <1>5 DEF on_server_read, HttpWaitRequest_handle_server_read
    <2>2. CASE kind = "valueless"
      <3>1. Dies(i, t, c) /\ UNCHANGED response
        BY <2>1, <2>2
      <3>2. t.closing = {}
        BY <1>2, <1>5, SessionGood DEF SessionInv, Erased
      <3>3. SessionInv("HttpWaitRequest", t, c, response[i])
        BY <1>1, <1>2, <1>3, <1>4, <3>2 DEF SessionInv, States, Erased
      <3>4. QED BY <1>1, <1>5, <3>1, <3>3, DiesKeeps
    <2>3. CASE kind = "bad"
      <3>1. stop(i, server_write(t, Message("500")), c) /\ UNCHANGED response
        BY <2>1, <2>3
      <3>2. running = "running"
        BY <3>1 DEF stop, StopBoth, Handled, Dies
      <3>3. Listening(s, c)
        BY <1>5, <3>2, SessionGood
      <3>4. c.made = TRUE
        BY <1>1, <3>3 DEF Listening, ServerStream
      <3>5. Handled(i, Erased, server_stop(server_write(t, Message("500"))), client_stop(c))
        BY <3>1, <3>4 DEF stop, StopBoth
      <3>6. SessionInv(Erased, server_stop(server_write(t, Message("500"))), client_stop(c),
                       response[i])
        BY <1>1, <3>3, RefusedGood
      <3>7. QED BY <1>1, <3>1, <3>5, <3>6, HandledKeeps DEF Erased
    <2>4. CASE kind \notin {"bad", "valueless"}
      <3> DEFINE r == IF kind = "connect" THEN "200" ELSE "request"
      <3>1. /\ response' = [response EXCEPT ![i] = r]
            /\ Handled(i, "HttpConnectionEstablished", t, TcpClientStream_start(c))
        BY <2>1, <2>4
      <3>2. Listening(s, c)
        BY <1>5, <3>1, SessionGood DEF Handled
      <3>3. r \in {"200", "request"}
        OBVIOUS
      <3> HIDE DEF r
      <3>4. SessionInv("HttpConnectionEstablished", t, TcpClientStream_start(c), r)
        BY <1>1, <3>2, <3>3, RequestGood
      <3>5. /\ response' \in [Ids -> Responses] /\ response'[i] = r
            /\ \A j \in Ids : j # i => response'[j] = response[j]
        BY <3>1, <3>3 DEF IInv, Responses
      <3>6. SessionInv("HttpConnectionEstablished", t, TcpClientStream_start(c), response'[i])
        BY <3>4, <3>5
      <3>7. QED BY <1>1, <3>1, <3>5, <3>6, HandledPreserves
    <2>5. QED BY <2>2, <2>3, <2>4
  <1>6. CASE session[i] = "HttpDataTransferMode"
    <2> DEFINE u == Take(t)
               d == client_write(c, Data(t.got + 1))
    <2>1. Handled(i, "HttpDataTransferMode", u, d) /\ UNCHANGED response
      BY <1>6 DEF on_server_read, HttpDataTransferMode_handle_server_read
    <2>2. SessionInv("HttpDataTransferMode", s, c, response[i]) /\ Relay(s, c)
      BY <1>6, SessionGood, IsRelay
    <2>3. Relay(u, d) /\ SameTalk(s, c, u, d)
      BY <1>1, <2>2, RelayServerRead
    <2> HIDE DEF u, d
    <2>4. SessionInv("HttpDataTransferMode", u, d, response[i])
      BY <2>2, <2>3, RelayKeeps
    <2>5. QED BY <1>1, <2>1, <2>4, HandledKeeps
  <1>7. CASE session[i] = Erased
    <2>1. Handled(i, Erased, t, c) /\ UNCHANGED response
      BY <1>7 DEF on_server_read, Ignored, Erased
    <2>2. QED BY <1>1, <1>2, <1>3, <1>4, <2>1, IgnoredErased
  <1>8. CASE session[i] \in {"HttpConnectionEstablished", "HttpReadyTransferData"}
    <2>1. s.reads = 0
      BY <1>8, SessionGood DEF SessionInv, Connecting, Replying
    <2>2. QED BY <1>1, <2>1
  <1>9. QED BY <1>5, <1>6, <1>7, <1>8, SessionGood DEF SessionInv, States

LEMMA ServerWriteStep ==
    ASSUME IInv, NEW i \in Ids, on_server_write(i), UNCHANGED response
    PROVE  IInv'
  <1> DEFINE s == server[i]
             c == client[i]
             t == server_write_ok(s)
  <1>1. /\ s \in ServerStream /\ c \in ClientStream /\ s.writes > 0 /\ i \leq stream_id
        /\ Exclusive(s, c) /\ Spoken(s, c, response[i])
    BY Accepted, SessionGood DEF on_server_write, ServerQuiet
  <1>2. CASE session[i] = "HttpReadyTransferData"
    <2>1. Handled(i, "HttpDataTransferMode", server_read(t), client_read(c))
      BY <1>2 DEF on_server_write, HttpReadyTransferData_handle_write
    <2>2. SessionInv("HttpDataTransferMode", server_read(t), client_read(c), response[i])
      BY <1>1, <1>2, SessionGood, AnsweredGood
    <2>3. QED BY <1>1, <2>1, <2>2, HandledKeeps
  <1>3. CASE session[i] = "HttpDataTransferMode"
    <2> DEFINE d == client_read(c)
    <2>1. Handled(i, "HttpDataTransferMode", t, d)
      BY <1>3 DEF on_server_write, HttpDataTransferMode_handle_server_write
    <2>2. SessionInv("HttpDataTransferMode", s, c, response[i]) /\ Relay(s, c)
      BY <1>3, SessionGood, IsRelay
    <2>3. Relay(t, d) /\ SameTalk(s, c, t, d)
      BY <1>1, <2>2, RelayServerWrite
    <2> HIDE DEF t, d
    <2>4. SessionInv("HttpDataTransferMode", t, d, response[i])
      BY <2>2, <2>3, RelayKeeps
    <2>5. QED BY <1>1, <2>1, <2>4, HandledKeeps
  <1>4. CASE session[i] = Erased
    <2>1. Handled(i, Erased, t, c)
      BY <1>4 DEF on_server_write, Ignored, Erased
    <2>2. t \in ServerStream /\ t.writes = s.writes - 1 /\ t.reads = s.reads
          /\ t.starting = s.starting
      BY <1>1, ServerWriteOk
    <2>3. Spoken(t, c, response[i]) /\ c.phase \notin {"resolving", "connecting"}
      BY <1>1, <1>4, ServerWrittenSpoken, SessionGood, NotConnecting
    <2> HIDE DEF t
    <2>4. Exclusive(t, c)
      BY <1>1, <2>2 DEF Exclusive, ServerStream
    <2>5. QED BY <1>1, <2>1, <2>2, <2>3, <2>4, IgnoredErased
  <1>5. CASE session[i] = "HttpConnectionEstablished"
    <2>1. s.writes = 0
      BY <1>5, SessionGood DEF SessionInv, Connecting
    <2>2. QED BY <1>1, <2>1
  <1>6. CASE session[i] = "HttpWaitRequest"
    <2>1. running = "running"
      BY <1>6 DEF on_server_write, Ignored, Handled
    <2>2. s.writes = 0
      BY <1>6, <2>1, SessionGood DEF Listening
    <2>3. QED BY <1>1, <2>2
  <1>7. QED BY <1>2, <1>3, <1>4, <1>5, <1>6, SessionGood DEF SessionInv, States

LEMMA ClientReadStep ==
    ASSUME IInv, NEW i \in Ids, on_client_read(i), UNCHANGED response
    PROVE  IInv'
  <1> DEFINE s == server[i]
             c == client[i]
             d == client_read_ok(c)
  <1>1. /\ s \in ServerStream /\ c \in ClientStream /\ c.reads > 0 /\ i \leq stream_id
        /\ Exclusive(s, c) /\ Spoken(s, c, response[i])
    BY Accepted, SessionGood DEF on_client_read, ClientQuiet
  <1>2. CASE session[i] = "HttpDataTransferMode"
    <2> DEFINE t == server_write(s, Data(d.got + 1))
               e == Take(d)
    <2>1. Handled(i, "HttpDataTransferMode", t, e)
      BY <1>2 DEF on_client_read, HttpDataTransferMode_handle_client_read
    <2>2. SessionInv("HttpDataTransferMode", s, c, response[i]) /\ Relay(s, c)
      BY <1>2, SessionGood, IsRelay
    <2>3. Relay(t, e) /\ SameTalk(s, c, t, e)
      BY <1>1, <2>2, RelayClientRead
    <2> HIDE DEF t, e
    <2>4. SessionInv("HttpDataTransferMode", t, e, response[i])
      BY <2>2, <2>3, RelayKeeps
    <2>5. QED BY <1>1, <2>1, <2>4, HandledKeeps
  <1>3. CASE session[i] = Erased
    <2>1. Handled(i, Erased, s, d)
      BY <1>3 DEF on_client_read, Ignored, Erased
    <2>2. /\ d \in ClientStream /\ d.reads = c.reads - 1
          /\ d.writes = c.writes /\ d.phase = c.phase /\ d.made = c.made
          /\ d.wbuf = c.wbuf /\ d.said = c.said /\ d.got = c.got
      BY <1>1, ClientReadOk
    <2>3. c.phase \notin {"resolving", "connecting"}
      BY <1>3, SessionGood, NotConnecting
    <2> HIDE DEF d
    <2>4. s.reads \leq s.reads /\ s.writes \leq s.writes /\ d.reads \leq c.reads
          /\ d.writes \leq c.writes
      <3>1. s.reads \in Nat /\ s.writes \in Nat
        BY <1>1 DEF ServerStream
      <3>2. c.reads \in Nat /\ c.writes \in Nat
        BY <1>1 DEF ClientStream
      <3>3. QED BY <2>2, <3>1, <3>2
    <2>5. Exclusive(s, d)
      BY <1>1, <2>2, <2>4, StillExclusive
    <2>6. Spoken(s, d, response[i])
      BY <1>1, <2>2, <2>4, StillSpoken
    <2>7. QED BY <1>1, <2>1, <2>2, <2>3, <2>5, <2>6, IgnoredErased
  <1>4. CASE session[i] \in {"HttpConnectionEstablished", "HttpReadyTransferData"}
    <2>1. c.reads = 0
      BY <1>4, SessionGood DEF SessionInv, Connecting, Replying
    <2>2. QED BY <1>1, <2>1
  <1>5. CASE session[i] = "HttpWaitRequest"
    <2>1. running = "running"
      BY <1>5 DEF on_client_read, Ignored, Handled
    <2>2. c.reads = 0
      BY <1>5, <2>1, SessionGood DEF Listening
    <2>3. QED BY <1>1, <2>2
  <1>6. QED BY <1>2, <1>3, <1>4, <1>5, SessionGood DEF SessionInv, States

LEMMA ClientWriteStep ==
    ASSUME IInv, NEW i \in Ids, on_client_write(i), UNCHANGED response
    PROVE  IInv'
  <1> DEFINE s == server[i]
             c == client[i]
             d == client_write_ok(c)
  <1>1. /\ s \in ServerStream /\ c \in ClientStream /\ c.writes > 0 /\ i \leq stream_id
        /\ Exclusive(s, c) /\ Spoken(s, c, response[i])
    BY Accepted, SessionGood DEF on_client_write, ClientQuiet
  <1>2. CASE session[i] = "HttpReadyTransferData"
    <2>1. Handled(i, "HttpDataTransferMode", server_read(s), client_read(d))
      BY <1>2 DEF on_client_write, HttpReadyTransferData_handle_write
    <2>2. SessionInv("HttpDataTransferMode", server_read(s), client_read(d), response[i])
      BY <1>1, <1>2, SessionGood, ForwardedGood
    <2>3. QED BY <1>1, <2>1, <2>2, HandledKeeps
  <1>3. CASE session[i] = "HttpDataTransferMode"
    <2> DEFINE t == server_read(s)
    <2>1. Handled(i, "HttpDataTransferMode", t, d)
      BY <1>3 DEF on_client_write, HttpDataTransferMode_handle_client_write
    <2>2. SessionInv("HttpDataTransferMode", s, c, response[i]) /\ Relay(s, c)
      BY <1>3, SessionGood, IsRelay
    <2>3. Relay(t, d) /\ SameTalk(s, c, t, d)
      BY <1>1, <2>2, RelayClientWrite
    <2> HIDE DEF t, d
    <2>4. SessionInv("HttpDataTransferMode", t, d, response[i])
      BY <2>2, <2>3, RelayKeeps
    <2>5. QED BY <1>1, <2>1, <2>4, HandledKeeps
  <1>4. CASE session[i] = Erased
    <2>1. Handled(i, Erased, s, d)
      BY <1>4 DEF on_client_write, Ignored, Erased
    <2>2. d \in ClientStream /\ d.writes = c.writes - 1 /\ d.reads = c.reads
          /\ d.phase = c.phase
      BY <1>1, ClientWriteOk
    <2>3. Spoken(s, d, response[i]) /\ c.phase \notin {"resolving", "connecting"}
      BY <1>1, <1>4, ClientWrittenSpoken, SessionGood, NotConnecting
    <2> HIDE DEF d
    <2>4. Exclusive(s, d)
      BY <1>1, <2>2 DEF Exclusive, ClientStream
    <2>5. QED BY <1>1, <2>1, <2>2, <2>3, <2>4, IgnoredErased
  <1>5. CASE session[i] = "HttpConnectionEstablished"
    <2>1. c.writes = 0
      BY <1>5, SessionGood DEF SessionInv, Connecting
    <2>2. QED BY <1>1, <2>1
  <1>6. CASE session[i] = "HttpWaitRequest"
    <2>1. running = "running"
      BY <1>6 DEF on_client_write, Ignored, Handled
    <2>2. c.writes = 0
      BY <1>6, <2>1, SessionGood DEF Listening
    <2>3. QED BY <1>1, <2>2
  <1>7. QED BY <1>2, <1>3, <1>4, <1>5, <1>6, SessionGood DEF SessionInv, States

LEMMA ServerErrorStep ==
    ASSUME IInv, NEW i \in Ids, on_server_error(i), UNCHANGED response
    PROVE  IInv'
  <1> DEFINE s == server[i]
             c == client[i]
  <1>1. PICK op \in ServerFailures(s) :
            IF Live(i) THEN handle_server_error(i, server_failed(s, op), c)
                       ELSE Ignored(i, server_failed(s, op), c)
    BY DEF on_server_error
  <1> DEFINE t == server_failed(s, op)
  <1>2. s.starting \/ s.reads > 0 \/ s.writes > 0
    BY <1>1 DEF ServerFailures
  <1>3. /\ s \in ServerStream /\ c \in ClientStream
        /\ Exclusive(s, c) /\ Spoken(s, c, response[i])
    BY SessionGood
  <1>4. i \leq stream_id
    BY <1>2, <1>3, Accepted DEF ServerQuiet, ServerStream
  <1>5. c.phase \notin {"resolving", "connecting"}
    BY <1>2, <1>3, SessionGood, NotConnecting DEF ServerStream
  <1>6. /\ t \in ServerStream /\ t.reads \leq s.reads /\ t.writes \leq s.writes
        /\ s.starting = FALSE => t.starting = FALSE
        /\ t.wbuf = s.wbuf /\ t.said = s.said /\ t.got = s.got /\ t.closing = s.closing
    BY <1>1, <1>3, ServerFailed
  <1>7. c.reads \leq c.reads /\ c.writes \leq c.writes
    BY <1>3 DEF ClientStream
  <1> HIDE DEF t
  <1>8. Exclusive(t, c)
    BY <1>3, <1>6, <1>7, StillExclusive
  <1>9. Spoken(t, c, response[i])
    BY <1>3, <1>6, <1>7, StillSpoken
  <1>10. CASE Live(i)
    <2>1. stop(i, t, c) /\ session[i] # Erased
      BY <1>1, <1>10 DEF handle_server_error, Live, t
    <2>2. QED BY <1>3, <1>4, <1>5, <1>6, <1>8, <1>9, <2>1, StopStep
  <1>11. CASE ~Live(i)
    <2>1. Handled(i, Erased, t, c)
      BY <1>1, <1>11 DEF Ignored, Live, t
    <2>2. QED BY <1>3, <1>4, <1>5, <1>6, <1>8, <1>9, <2>1, IgnoredErased
  <1>12. QED BY <1>10, <1>11

LEMMA ClientErrorStep ==
    ASSUME IInv, NEW i \in Ids, on_client_error(i), UNCHANGED response
    PROVE  IInv'
  <1> DEFINE s == server[i]
             c == client[i]
  <1>1. PICK op \in ClientFailures(c) :
            IF Live(i) THEN handle_client_error(i, s, client_failed(c, op))
                       ELSE Ignored(i, s, client_failed(c, op))
    BY DEF on_client_error
  <1> DEFINE d == client_failed(c, op)
  <1>2. /\ op = "connect" => c.phase \in {"resolving", "connecting"}
        /\ op # "connect" => c.reads > 0 \/ c.writes > 0
    BY <1>1 DEF ClientFailures
  <1>3. /\ s \in ServerStream /\ c \in ClientStream
        /\ Exclusive(s, c) /\ Spoken(s, c, response[i])
    BY SessionGood
  <1>4. i \leq stream_id
    BY <1>2, <1>3, Accepted DEF ClientQuiet, ClientStream
  <1>5. /\ d \in ClientStream /\ d.reads \leq c.reads /\ d.writes \leq c.writes
        /\ d.wbuf = c.wbuf /\ d.said = c.said /\ d.got = c.got /\ d.made = c.made
        /\ op = "connect" => d.phase = "failed"
        /\ op # "connect" => d.phase = c.phase
    BY <1>1, <1>3, ClientFailed
  <1>6. s.reads \leq s.reads /\ s.writes \leq s.writes
    BY <1>3 DEF ServerStream
  <1> HIDE DEF d
  <1>7. Exclusive(s, d)
    BY <1>3, <1>5, <1>6, StillExclusive
  <1>8. Spoken(s, d, response[i])
    <2>1. CASE op # "connect"
      BY <1>3, <1>5, <1>6, <2>1, StillSpoken
    <2>2. CASE op = "connect"
      <3>1. Untouched(s, c) /\ Connecting(s, c, response[i])
        BY <1>2, <2>2, SessionGood DEF SessionInv
      <3>2. d.writes = 0
        BY <1>5, <3>1 DEF Connecting, ClientStream
      <3>3. QED BY <1>5, <3>1, <3>2 DEF Spoken, Unopened, Connecting, Untouched
    <2>3. QED BY <2>1, <2>2
  <1>9. d.phase \notin {"resolving", "connecting"}
    <2>1. CASE op = "connect"
      BY <1>5, <2>1
    <2>2. CASE op # "connect"
      <3>1. CASE session[i] = "HttpConnectionEstablished"
        <4>1. c.reads = 0 /\ c.writes = 0
          BY <3>1, SessionGood DEF SessionInv, Connecting
        <4>2. QED BY <1>2, <2>2, <4>1
      <3>2. CASE session[i] # "HttpConnectionEstablished"
        BY <1>5, <2>2, <3>2, SessionGood DEF SessionInv
      <3>3. QED BY <3>1, <3>2
    <2>3. QED BY <2>1, <2>2
  <1>10. CASE Live(i)
    <2>1. stop(i, s, d) /\ session[i] # Erased
      BY <1>1, <1>10 DEF handle_client_error, Live, d
    <2>2. QED BY <1>3, <1>4, <1>5, <1>7, <1>8, <1>9, <2>1, StopStep
  <1>11. CASE ~Live(i)
    <2>1. Handled(i, Erased, s, d)
      BY <1>1, <1>11 DEF Ignored, Live, d
    <2>2. QED BY <1>3, <1>4, <1>5, <1>7, <1>8, <1>9, <2>1, IgnoredErased
  <1>12. QED BY <1>10, <1>11

LEMMA ServerClosedStep ==
    ASSUME IInv, NEW i \in Ids, on_server_closed(i), UNCHANGED response
    PROVE  IInv'
  <1> DEFINE s == server[i]
             c == client[i]
  <1>1. PICK op \in s.closing, failed \in BOOLEAN :
            IF failed /\ Live(i) THEN handle_server_error(i, server_closed(s, op), c)
                                 ELSE Ignored(i, server_closed(s, op), c)
    BY DEF on_server_closed
  <1> DEFINE t == server_closed(s, op)
  <1>2. /\ s \in ServerStream /\ c \in ClientStream
        /\ Exclusive(s, c) /\ Spoken(s, c, response[i])
    BY SessionGood
  <1>3. i \leq stream_id
    BY <1>1, Accepted DEF ServerQuiet
  <1>4. running = "running"
    BY <1>1 DEF handle_server_error, stop, StopBoth, Dies, Ignored, Handled
  <1>5. session[i] = Erased
    BY <1>1, <1>4, SessionGood DEF SessionInv, Listening
  <1>6. c.phase \notin {"resolving", "connecting"}
    BY <1>5, SessionGood, NotConnecting
  <1>7. /\ t \in ServerStream /\ t.starting = s.starting
        /\ t.reads = s.reads /\ t.writes = s.writes
        /\ t.wbuf = s.wbuf /\ t.said = s.said /\ t.got = s.got
    BY <1>2, ServerClosed
  <1> HIDE DEF t
  <1>8. t.reads \leq s.reads /\ t.writes \leq s.writes /\ c.reads \leq c.reads
        /\ c.writes \leq c.writes
    BY <1>2, <1>7 DEF ServerStream, ClientStream
  <1>9. Exclusive(t, c)
    BY <1>2, <1>7, <1>8, StillExclusive
  <1>10. Spoken(t, c, response[i])
    BY <1>2, <1>7, <1>8, StillSpoken
  <1>11. Handled(i, Erased, t, c)
    BY <1>1, <1>5 DEF Ignored, Live, t
  <1>12. QED BY <1>2, <1>3, <1>6, <1>7, <1>9, <1>10, <1>11, IgnoredErased

LEMMA SignalStep == IInv /\ signal /\ UNCHANGED response => IInv'
  BY DEF IInv, signal, CoreTypeOK, AllFresh, Fresh

LEMMA StutterStep == IInv /\ UNCHANGED vars => IInv'
  BY DEF IInv, vars, CoreTypeOK, AllFresh, Fresh

LEMMA StepGood == IInv /\ [Next]_vars => IInv'
  <1> SUFFICES ASSUME IInv, [Next]_vars PROVE IInv'
    OBVIOUS
  <1>1. CASE UNCHANGED vars
    BY <1>1, StutterStep
  <1>2. CASE signal /\ UNCHANGED response
    BY <1>2, SignalStep
  <1>3. ASSUME NEW i \in Ids,
               \/ ServerStep(i) \/ ClientStep(i)
               \/ (on_accept(i) \/ on_server_ready(i)) /\ UNCHANGED response
        PROVE  IInv'
    <2>1. CASE on_accept(i) /\ UNCHANGED response
      BY <2>1, AcceptStep
    <2>2. CASE on_server_ready(i) /\ UNCHANGED response
      BY <2>2, ReadyStep
    <2>3. CASE ServerStep(i)
      BY <2>3, ServerReadStep, ServerWriteStep, ServerErrorStep, ServerClosedStep DEF ServerStep
    <2>4. CASE ClientStep(i)
      BY <2>4, ResolvedStep, ConnectStep, ClientReadStep, ClientWriteStep, ClientErrorStep
         DEF ClientStep
    <2>5. QED BY <1>3, <2>1, <2>2, <2>3, <2>4
  <1>4. QED BY <1>1, <1>2, <1>3 DEF Next

-----------------------------------------------------------------------------
(* The invariant holds in every reachable state. *)
THEOREM Invariance == Spec => []IInv
  <1>1. QED BY InitGood, StepGood, PTL DEF Spec

(* The state of the HTTP mode keeps its types. *)
THEOREM TypeCorrect == Spec => []TypeOK
  <1>1. IInv => TypeOK
    BY DEF IInv, TypeOK, Responses
  <1>2. QED BY <1>1, Invariance, PTL

(* While the program runs, each state of a session in the map waits for     *)
(* exactly the callbacks that can move it on (http_state.cpp): the stream   *)
(* or the request, the connect, the one opening write, the relay.           *)
THEOREM AlwaysArmed == Spec => []Armed
  <1>1. ASSUME IInv, running # "crashed", NEW i \in Ids PROVE ArmedIn(i)
    <2> DEFINE s == server[i]
               c == client[i]
    <2>1. /\ SessionInv(session[i], s, c, response[i])
          /\ s \in ServerStream /\ c \in ClientStream
          /\ session[i] = "HttpWaitRequest" => Listening(s, c)
      BY <1>1, SessionGood DEF IInv
    <2>2. CASE session[i] = "HttpWaitRequest"
      <3>1. Listening(s, c)
        BY <2>1, <2>2
      <3> HIDE DEF s, c
      <3>2. QED BY <2>1, <2>2, <3>1
                DEF Listening, ArmedIn, OnlyServer, ClientQuiet, ServerStream, s, c
    <2>3. CASE session[i] = "HttpConnectionEstablished"
      <3>1. Connecting(s, c, response[i]) /\ s.closing = {}
        BY <2>1, <2>3 DEF SessionInv, Erased
      <3>2. QED BY <2>3, <3>1 DEF Connecting, ArmedIn, OnlyConnecting, ServerQuiet
    <2>4. CASE session[i] = "HttpReadyTransferData"
      <3>1. Replying(s, c, response[i]) /\ s.closing = {}
        BY <2>1, <2>4 DEF SessionInv, Erased
      <3>2. QED BY <2>4, <3>1 DEF Replying, ArmedIn
    <2>5. CASE session[i] = "HttpDataTransferMode"
      BY <2>1, <2>5 DEF SessionInv, ArmedIn, Relaying, RelayArmed
    <2>6. CASE session[i] = Erased
      BY <2>6 DEF ArmedIn, Erased
    <2>7. QED BY <2>1, <2>2, <2>3, <2>4, <2>5, <2>6 DEF SessionInv, States
  <1>2. IInv => Armed
    BY <1>1 DEF Armed
  <1>3. QED BY <1>2, Invariance, PTL

(* No buffer is used by two operations, whatever the state of its session,  *)
(* and the empty write of stop() is outstanding only once it is erased:     *)
(* then it may be a second one, beside a 500 or the last chunk.             *)
THEOREM AlwaysExclusive == Spec => []BuffersExclusive
  <1>1. ASSUME IInv, NEW i \in Ids PROVE OneOperation(i)
    <2>1. Exclusive(server[i], client[i]) /\ server[i] \in ServerStream
      BY <1>1, SessionGood
    <2>2. Live(i) => server[i].closing = {}
      BY <1>1, SessionGood DEF SessionInv, Live
    <2>3. QED BY <2>1, <2>2 DEF OneOperation, Exclusive, ServerStream
  <1>2. IInv => BuffersExclusive
    BY <1>1 DEF BuffersExclusive
  <1>3. QED BY <1>2, Invariance, PTL

(* A relaying session has lost no chunk. *)
THEOREM NeverLost == Spec => []NothingLost
  <1>1. IInv => NothingLost
    BY DEF IInv, SessionInv, Relaying, NothingLost, Conserved
  <1>2. QED BY <1>1, Invariance, PTL

(* The relay is opened by one message to one peer: 200 to the client, when  *)
(* the host is connected, or the request to the host; and a 500 is only     *)
(* ever sent without a connect.                                             *)
THEOREM AlwaysOpenedOnce == Spec => []OpenedOnce
  <1>1. IInv => OpenedOnce
    <2> SUFFICES ASSUME IInv, NEW i \in Ids
                 PROVE  /\ server[i].said \in {<<>>, <<"200">>, <<"500">>}
                        /\ client[i].said \in {<<>>, <<"request">>}
                        /\ server[i].said = <<"200">> =>
                               response[i] = "200" /\ client[i].phase = "connected"
                        /\ server[i].said = <<"500">> => client[i].phase = "idle"
                        /\ client[i].said # <<>> =>
                               response[i] = "request" /\ server[i].said = <<>>
                        /\ server[i].got + client[i].got > 0 =>
                               IF response[i] = "200" THEN server[i].said = <<"200">>
                                                      ELSE client[i].said = <<"request">>
      BY DEF OpenedOnce
    <2> DEFINE s == server[i]
               c == client[i]
               r == response[i]
    <2>1. Spoken(s, c, r)
      BY SessionGood
    <2>2. <<>> # <<"200">> /\ <<>> # <<"500">> /\ <<"200">> # <<"500">> /\ <<>> # <<"request">>
      OBVIOUS
    <2>3. CASE Unopened(s, c, r)
      <3>1. s.got + c.got = 0
        BY <2>3 DEF Unopened
      <3>2. QED BY <2>2, <2>3, <3>1 DEF Unopened
    <2>4. CASE Opened(s, c, r)
      BY <2>2, <2>4 DEF Opened
    <2>5. CASE Refused(s, c)
      <3>1. s.got + c.got = 0
        BY <2>5 DEF Refused
      <3>2. QED BY <2>2, <2>5, <3>1 DEF Refused
    <2>6. QED BY <2>1, <2>3, <2>4, <2>5 DEF Spoken
  <1>2. QED BY <1>1, Invariance, PTL

(* A TLS handshake that ends brings the stream to its first read: it has    *)
(* succeeded (do_handshake of tls_server_stream.cpp).                       *)
HandshakeSucceeds ==
    \A i \in Ids : server[i].starting /\ ~server'[i].starting => server'[i].reads > 0

(* As long as no handshake fails, and no first segment has a Host or        *)
(* Connection header with nothing after its name ("valueless"), nothing     *)
(* takes the program down: whenever anything else can fail, on_server_ready *)
(* (http_stream_manager.cpp) has already made the client stream that stop() *)
(* calls.  (Neither hypothesis can be dropped: run http_tls_auth shows the  *)
(* one, on_server_read of a "valueless" request the other.)                 *)
THEOREM AlwaysSurvives ==
    ASSUME "valueless" \notin Requests
    PROVE  Spec /\ [][Tls => HandshakeSucceeds]_vars => []Survives
  <1>0. "valueless" \notin Requests
    OBVIOUS
  <1>1. Init => Survives
    BY DEF Init, CoreInit, Survives
  <1>2. ASSUME IInv, Survives, [Next]_vars, [Tls => HandshakeSucceeds]_vars
        PROVE  Survives'
    <2>1. ASSUME NEW i \in Ids, NEW s, NEW c, stop(i, s, c), c.made
          PROVE  running' = running
      BY <2>1 DEF stop, StopBoth, Handled
    <2>2. ASSUME NEW i \in Ids, session[i] # Erased,
                 ~server[i].starting \/ server[i].reads > 0 \/ server[i].writes > 0
          PROVE  client[i].made = TRUE
      <3>1. CASE session[i] = "HttpWaitRequest"
        <4>1. Listening(server[i], client[i]) /\ server[i] \in ServerStream
          BY <1>2, <3>1, SessionGood DEF Survives, IInv
        <4>2. QED BY <2>2, <4>1 DEF Listening
      <3>2. CASE session[i] # "HttpWaitRequest"
        BY <1>2, <2>2, <3>2, SessionGood DEF SessionInv
      <3>3. QED BY <3>1, <3>2
    <2>3. ASSUME NEW i \in Ids, on_server_read(i) PROVE running' = running
      <3> DEFINE t == server_read_ok(server[i])
                 u == server_write(t, Message("500"))
      <3>1. CASE session[i] = "HttpWaitRequest"
        <4>1. PICK kind \in Requests :
                  CASE kind = "bad"      -> stop(i, u, client[i])
                    [] kind = "valueless" -> Dies(i, t, client[i])
                    [] OTHER              -> Handled(i, "HttpConnectionEstablished", t,
                                                    TcpClientStream_start(client[i]))
          BY <2>3, <3>1 DEF on_server_read, HttpWaitRequest_handle_server_read
        <4>2. server[i].reads > 0 /\ session[i] # Erased
          BY <2>3, <3>1 DEF on_server_read, Erased
        <4>3. client[i].made = TRUE
          BY <2>2, <4>2
        <4> HIDE DEF t, u
        <4>4. \/ stop(i, u, client[i])
              \/ Handled(i, "HttpConnectionEstablished", t, TcpClientStream_start(client[i]))
          BY <1>0, <4>1
        <4>5. QED BY <2>1, <4>3, <4>4 DEF Handled
      <3>2. CASE session[i] # "HttpWaitRequest"
        BY <2>3, <3>2
           DEF on_server_read, HttpDataTransferMode_handle_server_read, Ignored, Handled
      <3>3. QED BY <3>1, <3>2
    <2>4. ASSUME NEW i \in Ids, on_server_error(i) PROVE running' = running
      <3>1. PICK op \in ServerFailures(server[i]) :
                IF Live(i) THEN handle_server_error(i, server_failed(server[i], op), client[i])
                           ELSE Ignored(i, server_failed(server[i], op), client[i])
        BY <2>4 DEF on_server_error
      <3>2. CASE Live(i) /\ op = "start"
        <4> DEFINE t == server_ready(server[i])
        <4>1. stop(i, t, client[i]) /\ Tls /\ server[i].starting = TRUE
          BY <1>2, <3>1, <3>2, SessionGood
             DEF server_failed, handle_server_error, ServerFailures, ServerStream
        <4>2. t.starting = FALSE /\ t.reads = 0
          BY <1>2, <4>1, SessionGood, ServerReady DEF Exclusive
        <4> HIDE DEF t
        <4>3. CASE client[i].made
          BY <2>1, <4>1, <4>3
        <4>4. CASE ~client[i].made
          <5>1. server'[i] = t
            BY <1>2, <4>1, <4>4 DEF stop, Dies, IInv, CoreTypeOK
          <5>2. ~HandshakeSucceeds /\ server' # server
            BY <4>1, <4>2, <5>1 DEF HandshakeSucceeds
          <5>3. QED BY <1>2, <4>1, <5>2 DEF vars, coreVars
        <4>5. QED BY <4>3, <4>4
      <3>3. CASE Live(i) /\ op # "start"
        <4>1. server[i].reads > 0 \/ server[i].writes > 0
          BY <3>1, <3>3 DEF ServerFailures
        <4>2. QED BY <2>1, <2>2, <3>1, <3>3, <4>1 DEF Live, handle_server_error
      <3>4. CASE ~Live(i)
        BY <3>1, <3>4 DEF Ignored, Handled
      <3>5. QED BY <3>2, <3>3, <3>4
    <2>5. ASSUME NEW i \in Ids, on_client_error(i) PROVE running' = running
      <3>1. PICK op \in ClientFailures(client[i]) :
                IF Live(i) THEN handle_client_error(i, server[i], client_failed(client[i], op))
                           ELSE Ignored(i, server[i], client_failed(client[i], op))
        BY <2>5 DEF on_client_error
      <3>2. client[i] \in ClientStream
        BY <1>2, SessionGood
      <3>3. /\ client[i].phase # "idle" \/ client[i].reads > 0 \/ client[i].writes > 0
            /\ client_failed(client[i], op).made = client[i].made
        BY <3>1, <3>2, ClientFailed DEF ClientFailures
      <3>4. CASE Live(i)
        <4>1. session[i] # "HttpWaitRequest"
          BY <1>2, <3>3 DEF Survives, IInv, Listening
        <4>2. client[i].made = TRUE
          BY <1>2, <3>4, <4>1, SessionGood DEF SessionInv, Live
        <4>3. QED BY <2>1, <3>1, <3>3, <3>4, <4>2 DEF handle_client_error
      <3>5. CASE ~Live(i)
        BY <3>1, <3>5 DEF Ignored, Handled
      <3>6. QED BY <3>4, <3>5
    <2>6. ASSUME NEW i \in Ids, on_server_closed(i) PROVE running' = running
      <3>1. PICK op \in server[i].closing, failed \in BOOLEAN :
                IF failed /\ Live(i)
                THEN handle_server_error(i, server_closed(server[i], op), client[i])
                ELSE Ignored(i, server_closed(server[i], op), client[i])
        BY <2>6 DEF on_server_closed
      <3>2. ~Live(i)
        BY <1>2, <3>1, SessionGood DEF Survives, IInv, SessionInv, Listening, Live
      <3>3. QED BY <3>1, <3>2 DEF Ignored, Handled
    <2>7. ASSUME NEW i \in Ids,
                 \/ on_accept(i) \/ on_server_ready(i) \/ resolved(i) \/ on_connect(i)
                 \/ on_server_write(i) \/ on_client_read(i) \/ on_client_write(i)
          PROVE  running' = running
      BY <2>7 DEF on_accept, accept, on_server_ready, HttpWaitRequest_handle_on_accept,
                  resolved, on_connect, HttpConnectionEstablished_handle_client_connect,
                  on_server_write, HttpDataTransferMode_handle_server_write,
                  on_client_read, HttpDataTransferMode_handle_client_read,
                  on_client_write, HttpDataTransferMode_handle_client_write,
                  HttpReadyTransferData_handle_write, Ignored, Handled
    <2>8. CASE signal \/ UNCHANGED vars
      BY <1>2, <2>8 DEF signal, vars, Survives
    <2>9. QED BY <1>2, <2>3, <2>4, <2>5, <2>6, <2>7, <2>8
             DEF Next, ServerStep, ClientStep, Survives
  <1>3. QED BY <1>1, <1>2, Invariance, PTL DEF Spec

(* A resolution or a connect always belongs to a session that waits for it. *)
THEOREM AlwaysOwned == Spec => []ConnectOwned
  <1>1. IInv => ConnectOwned
    BY DEF IInv, SessionInv, ConnectOwned, ConnectStates
  <1>2. QED BY <1>1, Invariance, PTL

-----------------------------------------------------------------------------
(* What a step may never do to a session that was erased.  Only a           *)
(* completion of session j changes session j; if j is no longer in the map, *)
(* the handler finds nothing and leaves j as its stream left it: with one   *)
(* operation less.  A step that ends the program is one of a live session.  *)

LEMMA DiesQuiet ==
    ASSUME NEW S, CoreTypeOK(S), NEW i \in Ids, NEW j \in Ids, session[j] # Erased,
           NEW s, NEW c, Dies(j, s, c)
    PROVE  NoNewOperation(i)
  <1>1. SUFFICES ASSUME session[i] = Erased
                 PROVE  /\ session'[i] = Erased
                        /\ Shrinks(server[i], client[i], server'[i], client'[i])
    BY DEF NoNewOperation, Live, Shrinks
  <1>2. j # i
    BY <1>1
  <1>3. session'[i] = session[i] /\ server'[i] = server[i] /\ client'[i] = client[i]
    BY <1>2 DEF Dies, CoreTypeOK
  <1>4. server[i] \in ServerStream /\ client[i] \in ClientStream
    BY DEF CoreTypeOK
  <1>5. QED BY <1>1, <1>3, <1>4, CompletionShrinks

LEMMA StopQuiet ==
    ASSUME NEW S, CoreTypeOK(S), NEW i \in Ids, NEW j \in Ids, session[j] # Erased,
           NEW s, NEW c, stop(j, s, c)
    PROVE  NoNewOperation(i)
  BY DiesQuiet, QuietWhenLive DEF stop, StopBoth

LEMMA ReadyQuiet ==
    ASSUME IInv, NEW i \in Ids, NEW j \in Ids, on_server_ready(j)
    PROVE  NoNewOperation(i)
  <1>1. server[j] \in ServerStream /\ client[j] \in ClientStream /\ CoreTypeOK(States)
    BY DEF IInv, CoreTypeOK
  <1>2. CASE session[j] = Erased
    <2>1. Ignored(j, server_ready(server[j]), client[j])
      BY <1>2 DEF on_server_ready, Live, Erased
    <2>2. Shrinks(server[j], client[j], server_ready(server[j]), client[j])
      BY <1>1, CompletionShrinks
    <2>3. QED BY <1>1, <1>2, <2>1, <2>2, QuietWhenIgnored
  <1>3. CASE session[j] # Erased
    <2>1. \E st, s, c : Handled(j, st, s, c)
      BY <1>3 DEF on_server_ready, HttpWaitRequest_handle_on_accept, Ignored
    <2>2. QED BY <1>1, <1>3, <2>1, QuietWhenLive
  <1>4. QED BY <1>2, <1>3

(* Only a session that connects has a resolution that can go on to connect. *)
LEMMA ConnectingQuiet ==
    ASSUME IInv, NEW i \in Ids, NEW j \in Ids, resolved(j) \/ on_connect(j)
    PROVE  NoNewOperation(i)
  <1>1. session[j] = "HttpConnectionEstablished" /\ CoreTypeOK(States)
    BY DEF IInv, SessionInv, resolved, on_connect
  <1>2. \E st, s, c : Handled(j, st, s, c)
    BY <1>1 DEF resolved, Ignored, on_connect, HttpConnectionEstablished_handle_client_connect
  <1>3. QED BY <1>1, <1>2, QuietWhenLive DEF Erased

LEMMA ServerReadQuiet ==
    ASSUME IInv, NEW i \in Ids, NEW j \in Ids, on_server_read(j)
    PROVE  NoNewOperation(i)
  <1> DEFINE s == server_read_ok(server[j])
             c == client[j]
  <1>1. /\ server[j] \in ServerStream /\ client[j] \in ClientStream /\ CoreTypeOK(States)
        /\ server[j].reads > 0
    BY DEF IInv, CoreTypeOK, on_server_read
  <1>2. CASE session[j] = Erased
    <2>1. Ignored(j, s, c)
      BY <1>2 DEF on_server_read, Erased
    <2>2. Shrinks(server[j], client[j], s, c)
      BY <1>1, CompletionShrinks
    <2>3. QED BY <1>1, <1>2, <2>1, <2>2, QuietWhenIgnored
  <1>3. CASE session[j] = "HttpWaitRequest"
    <2>1. HttpWaitRequest_handle_server_read(j, s, c)
      BY <1>3 DEF on_server_read
    <2> HIDE DEF s, c
    <2>2. \/ \E t, d : stop(j, t, d)
          \/ \E t, d : Dies(j, t, d)
          \/ \E st, t, d : Handled(j, st, t, d)
      BY <2>1 DEF HttpWaitRequest_handle_server_read
    <2>3. session[j] # Erased
      BY <1>3 DEF Erased
    <2>4. QED BY <1>1, <2>2, <2>3, QuietWhenLive, StopQuiet, DiesQuiet
  <1>4. CASE session[j] \notin {Erased, "HttpWaitRequest"}
    <2>1. \E st, t, d : Handled(j, st, t, d)
      BY <1>4 DEF on_server_read, Ignored, HttpDataTransferMode_handle_server_read
    <2>2. QED BY <1>1, <1>4, <2>1, QuietWhenLive
  <1>5. QED BY <1>2, <1>3, <1>4

LEMMA ServerWriteQuiet ==
    ASSUME IInv, NEW i \in Ids, NEW j \in Ids, on_server_write(j)
    PROVE  NoNewOperation(i)
  <1>1. /\ server[j] \in ServerStream /\ client[j] \in ClientStream /\ CoreTypeOK(States)
        /\ server[j].writes > 0
    BY DEF IInv, CoreTypeOK, on_server_write
  <1>2. CASE session[j] = Erased
    <2>1. Ignored(j, server_write_ok(server[j]), client[j])
      BY <1>2 DEF on_server_write, Erased
    <2>2. Shrinks(server[j], client[j], server_write_ok(server[j]), client[j])
      BY <1>1, CompletionShrinks
    <2>3. QED BY <1>1, <1>2, <2>1, <2>2, QuietWhenIgnored
  <1>3. CASE session[j] # Erased
    <2>1. \E st, t, d : Handled(j, st, t, d)
      BY <1>3 DEF on_server_write, Ignored,
                      HttpReadyTransferData_handle_write, HttpDataTransferMode_handle_server_write
    <2>2. QED BY <1>1, <1>3, <2>1, QuietWhenLive
  <1>4. QED BY <1>2, <1>3

LEMMA ClientReadQuiet ==
    ASSUME IInv, NEW i \in Ids, NEW j \in Ids, on_client_read(j)
    PROVE  NoNewOperation(i)
  <1>1. /\ server[j] \in ServerStream /\ client[j] \in ClientStream /\ CoreTypeOK(States)
        /\ client[j].reads > 0
    BY DEF IInv, CoreTypeOK, on_client_read
  <1>2. CASE session[j] = Erased
    <2>1. Ignored(j, server[j], client_read_ok(client[j]))
      BY <1>2 DEF on_client_read, Erased
    <2>2. Shrinks(server[j], client[j], server[j], client_read_ok(client[j]))
      BY <1>1, CompletionShrinks
    <2>3. QED BY <1>1, <1>2, <2>1, <2>2, QuietWhenIgnored
  <1>3. CASE session[j] # Erased
    <2>1. \E st, t, d : Handled(j, st, t, d)
      BY <1>3 DEF on_client_read, Ignored, HttpDataTransferMode_handle_client_read
    <2>2. QED BY <1>1, <1>3, <2>1, QuietWhenLive
  <1>4. QED BY <1>2, <1>3

LEMMA ClientWriteQuiet ==
    ASSUME IInv, NEW i \in Ids, NEW j \in Ids, on_client_write(j)
    PROVE  NoNewOperation(i)
  <1>1. /\ server[j] \in ServerStream /\ client[j] \in ClientStream /\ CoreTypeOK(States)
        /\ client[j].writes > 0
    BY DEF IInv, CoreTypeOK, on_client_write
  <1>2. CASE session[j] = Erased
    <2>1. Ignored(j, server[j], client_write_ok(client[j]))
      BY <1>2 DEF on_client_write, Erased
    <2>2. Shrinks(server[j], client[j], server[j], client_write_ok(client[j]))
      BY <1>1, CompletionShrinks
    <2>3. QED BY <1>1, <1>2, <2>1, <2>2, QuietWhenIgnored
  <1>3. CASE session[j] # Erased
    <2>1. \E st, t, d : Handled(j, st, t, d)
      BY <1>3 DEF on_client_write, Ignored,
                      HttpReadyTransferData_handle_write, HttpDataTransferMode_handle_client_write
    <2>2. QED BY <1>1, <1>3, <2>1, QuietWhenLive
  <1>4. QED BY <1>2, <1>3

LEMMA ServerErrorQuiet ==
    ASSUME IInv, NEW i \in Ids, NEW j \in Ids, on_server_error(j)
    PROVE  NoNewOperation(i)
  <1>1. server[j] \in ServerStream /\ client[j] \in ClientStream /\ CoreTypeOK(States)
    BY DEF IInv, CoreTypeOK
  <1>2. PICK op \in ServerFailures(server[j]) :
            IF Live(j)
            THEN handle_server_error(j, server_failed(server[j], op), client[j])
            ELSE Ignored(j, server_failed(server[j], op), client[j])
    BY DEF on_server_error
  <1>3. CASE session[j] = Erased
    <2>1. Ignored(j, server_failed(server[j], op), client[j])
      BY <1>2, <1>3 DEF Live
    <2>2. Shrinks(server[j], client[j], server_failed(server[j], op), client[j])
      BY <1>1, CompletionShrinks
    <2>3. QED BY <1>1, <1>3, <2>1, <2>2, QuietWhenIgnored
  <1>4. CASE session[j] # Erased
    <2>1. stop(j, server_failed(server[j], op), client[j]) \/ Ignored(j, server_failed(server[j], op), client[j])
      BY <1>2 DEF handle_server_error
    <2>2. QED BY <1>1, <1>4, <2>1, StopQuiet, QuietWhenLive DEF Ignored
  <1>5. QED BY <1>3, <1>4

LEMMA ClientErrorQuiet ==
    ASSUME IInv, NEW i \in Ids, NEW j \in Ids, on_client_error(j)
    PROVE  NoNewOperation(i)
  <1>1. server[j] \in ServerStream /\ client[j] \in ClientStream /\ CoreTypeOK(States)
    BY DEF IInv, CoreTypeOK
  <1>2. PICK op \in ClientFailures(client[j]) :
            IF Live(j)
            THEN handle_client_error(j, server[j], client_failed(client[j], op))
            ELSE Ignored(j, server[j], client_failed(client[j], op))
    BY DEF on_client_error
  <1>3. CASE session[j] = Erased
    <2>1. Ignored(j, server[j], client_failed(client[j], op))
      BY <1>2, <1>3 DEF Live
    <2>2. Shrinks(server[j], client[j], server[j], client_failed(client[j], op))
      BY <1>1, CompletionShrinks
    <2>3. QED BY <1>1, <1>3, <2>1, <2>2, QuietWhenIgnored
  <1>4. CASE session[j] # Erased
    <2>1. stop(j, server[j], client_failed(client[j], op)) \/ Ignored(j, server[j], client_failed(client[j], op))
      BY <1>2 DEF handle_client_error
    <2>2. QED BY <1>1, <1>4, <2>1, StopQuiet, QuietWhenLive DEF Ignored
  <1>5. QED BY <1>3, <1>4

LEMMA ServerClosedQuiet ==
    ASSUME IInv, NEW i \in Ids, NEW j \in Ids, on_server_closed(j)
    PROVE  NoNewOperation(i)
  <1>1. server[j] \in ServerStream /\ client[j] \in ClientStream /\ CoreTypeOK(States)
    BY DEF IInv, CoreTypeOK
  <1>2. PICK op \in server[j].closing, failed \in BOOLEAN :
            IF failed /\ Live(j)
            THEN handle_server_error(j, server_closed(server[j], op), client[j])
            ELSE Ignored(j, server_closed(server[j], op), client[j])
    BY DEF on_server_closed
  <1>3. CASE session[j] = Erased
    <2>1. Ignored(j, server_closed(server[j], op), client[j])
      BY <1>2, <1>3 DEF Live
    <2>2. Shrinks(server[j], client[j], server_closed(server[j], op), client[j])
      BY <1>1, CompletionShrinks
    <2>3. QED BY <1>1, <1>3, <2>1, <2>2, QuietWhenIgnored
  <1>4. CASE session[j] # Erased
    <2>1. stop(j, server_closed(server[j], op), client[j]) \/ Ignored(j, server_closed(server[j], op), client[j])
      BY <1>2 DEF handle_server_error
    <2>2. QED BY <1>1, <1>4, <2>1, StopQuiet, QuietWhenLive DEF Ignored
  <1>5. QED BY <1>3, <1>4

LEMMA StepQuiet == IInv /\ Next => \A i \in Ids : NoNewOperation(i)
  <1> SUFFICES ASSUME IInv, Next, NEW i \in Ids PROVE NoNewOperation(i)
    OBVIOUS
  <1>1. CoreTypeOK(States)
    BY DEF IInv
  <1>2. CASE signal
    BY <1>1, <1>2, SignalQuiet
  <1>3. ASSUME NEW j \in Ids,
               on_accept(j) \/ on_server_ready(j) \/ ServerStep(j) \/ ClientStep(j)
        PROVE  NoNewOperation(i)
    <2>1. CASE on_accept(j)
      BY <1>1, <2>1, AcceptQuiet DEF on_accept
    <2>2. CASE on_server_ready(j)
      BY <2>2, ReadyQuiet
    <2>3. CASE ServerStep(j)
      BY <2>3, ServerReadQuiet, ServerWriteQuiet, ServerErrorQuiet, ServerClosedQuiet
         DEF ServerStep
    <2>4. CASE ClientStep(j)
      BY <2>4, ConnectingQuiet, ClientReadQuiet, ClientWriteQuiet, ClientErrorQuiet
         DEF ClientStep
    <2>5. QED BY <1>3, <2>1, <2>2, <2>3, <2>4
  <1>4. QED BY <1>2, <1>3 DEF Next

(* No step revives an erased session or starts an operation on its streams: *)
(* every callback of HttpStreamManager looks the session up before it acts, *)
(* and the write of a 500 that stop() overtook ends without a relay.        *)
THEOREM StaysQuiet == Spec => ClosedStaysQuiet
  <1>1. IInv /\ [Next]_vars => [\A i \in Ids : NoNewOperation(i)]_vars
    BY StepQuiet
  <1>2. QED BY <1>1, Invariance, PTL DEF Spec, ClosedStaysQuiet

-----------------------------------------------------------------------------
(* The HTTP proxy implements tunnels: each action advances one session      *)
(* (RelayProofs), and one that ends the program too.  A 500, a 200 and the *)
(* forwarded request are writes, but carry no chunk, so they leave the      *)
(* tunnel as it is.                                                         *)

LEMMA Pending ==
    ASSUME IInv, NEW i \in Ids, ~(ServerQuiet(server[i]) /\ ClientQuiet(client[i]))
    PROVE  /\ i \leq stream_id /\ CoreTypeOK(States)
           /\ server[i] \in ServerStream /\ client[i] \in ClientStream
           /\ Exclusive(server[i], client[i])
           /\ SessionInv(session[i], server[i], client[i], response[i])
  <1>1. i \leq stream_id
    BY Accepted
  <1>2. SessionInv(session[i], server[i], client[i], response[i]) /\ CoreTypeOK(States)
    BY DEF IInv
  <1>3. QED BY <1>1, <1>2 DEF SessionInv

LEMMA Opens ==
    ASSUME NEW st \in States \ {"HttpDataTransferMode"}
    PROVE  st \notin RelayStates \cup {Erased}
  BY DEF States, RelayStates, Erased

(* A stream of its own ends the program before its session is erased. *)
LEMMA StopOrDieMaps ==
    ASSUME NEW S, CoreTypeOK(S), InFlight, NEW i \in Ids, i \leq stream_id,
           NEW t \in ServerStream, NEW d \in ClientStream,
           stop(i, t, d) \/ Dies(i, t, d) \/ Ignored(i, t, d),
           Keeps(server[i], t), Keeps(client[i], d)
    PROVE  Refines
  <1>1. CASE StopBoth(i, t, d)
    BY <1>1, StopMaps
  <1>2. CASE Dies(i, t, d)
    <2>1. session = [session EXCEPT ![i] = session[i]]
      BY DEF CoreTypeOK
    <2>2. Changes(i, session[i], t, d)
      BY <1>2, <2>1 DEF Dies, Changes
    <2>3. QED BY <2>2, KeepsMaps, Phases
  <1>3. CASE Ignored(i, t, d)
    BY <1>3, IgnoredMaps
  <1>4. QED BY <1>1, <1>2, <1>3 DEF stop

LEMMA ReadyMaps ==
    ASSUME IInv, InFlight, NEW i \in Ids, on_server_ready(i)
    PROVE  Refines
  <1> DEFINE s == server[i]
             c == client[i]
             u == server_ready(s)
             t == server_read(u)
             d == TcpClientStream_create
  <1>1. s.starting = TRUE
    BY DEF on_server_ready, IInv, CoreTypeOK, ServerStream
  <1>2. /\ i \leq stream_id /\ CoreTypeOK(States) /\ s \in ServerStream /\ c \in ClientStream
    BY <1>1, Pending DEF ServerQuiet
  <1>3. Keeps(s, u) /\ Keeps(c, c) /\ u \in ServerStream
    BY <1>2, ServerKeeps, ClientKeeps, ServerReady
  <1>4. CASE session[i] = "HttpWaitRequest"
    <2>1. Handled(i, session[i], t, d)
      BY <1>4 DEF on_server_ready, HttpWaitRequest_handle_on_accept, Live, Erased
    <2>2. Untouched(s, c)
      BY <1>4, <2>1 DEF Handled, IInv, Listening
    <2>3. Keeps(s, t) /\ Keeps(c, d)
      BY <1>2, <1>3, <2>2, ServerKeeps, ClientKeeps, KeepsOn DEF Untouched
    <2>4. QED BY <1>2, <2>1, <2>3, HandledIsChange, KeepsMaps, Phases
  <1>5. CASE session[i] = Erased
    <2>1. Ignored(i, u, c)
      BY <1>5 DEF on_server_ready, Live, Erased
    <2>2. QED BY <1>2, <1>3, <2>1, IgnoredMaps
  <1>6. CASE session[i] \notin {"HttpWaitRequest", Erased}
    <2>1. SessionInv(session[i], s, c, response[i]) /\ session[i] \in States
      BY <1>6 DEF IInv, SessionInv
    <2>2. s.starting = FALSE
      BY <1>6, <2>1 DEF SessionInv, Connecting, Replying, Relaying, States
    <2>3. QED BY <1>1, <2>2
  <1>7. QED BY <1>4, <1>5, <1>6

LEMMA ResolvedMaps ==
    ASSUME IInv, InFlight, NEW i \in Ids, resolved(i)
    PROVE  Refines
  <1>1. client[i].phase = "resolving" /\ Ignored(i, server[i], client_resolved(client[i]))
    BY DEF resolved
  <1>2. /\ i \leq stream_id /\ CoreTypeOK(States)
        /\ server[i] \in ServerStream /\ client[i] \in ClientStream
    BY <1>1, Pending DEF ClientQuiet
  <1>3. Keeps(server[i], server[i]) /\ Keeps(client[i], client_resolved(client[i]))
    BY <1>2, ServerKeeps, ClientKeeps
  <1>4. QED BY <1>1, <1>2, <1>3, IgnoredMaps

(* The 200 is written to the client, or the request to the host. *)
LEMMA ConnectMaps ==
    ASSUME IInv, InFlight, NEW i \in Ids, on_connect(i)
    PROVE  Refines
  <1> DEFINE s == server[i]
             c == client[i]
             r == response[i]
             d == client_connected(c)
  <1>1. c.phase = "connecting"
    BY DEF on_connect
  <1>2. /\ i \leq stream_id /\ CoreTypeOK(States) /\ s \in ServerStream /\ c \in ClientStream
        /\ session[i] = "HttpConnectionEstablished" /\ r \in {"200", "request"}
    BY <1>1, Pending DEF ClientQuiet, SessionInv, Connecting
  <1>3. /\ Keeps(s, s) /\ Keeps(c, d) /\ d \in ClientStream
        /\ Keeps(s, server_write(s, Message(r)))
    BY <1>1, <1>2, ServerKeeps, ClientKeeps, ClientConnected DEF Kinds
  <1>4. Keeps(c, client_write(d, Message(r)))
    BY <1>2, <1>3, ClientKeeps, KeepsOn DEF Kinds
  <1>5. \/ Handled(i, "HttpReadyTransferData", server_write(s, Message(r)), d)
        \/ Handled(i, "HttpReadyTransferData", s, client_write(d, Message(r)))
    BY <1>2 DEF on_connect, HttpConnectionEstablished_handle_client_connect
  <1>6. PhaseStep(session[i], "HttpReadyTransferData")
    BY <1>2, Opens, Phases DEF States
  <1> HIDE DEF d
  <1>7. QED BY <1>2, <1>3, <1>4, <1>5, <1>6, HandledIsChange, KeepsMaps

(* The request, or a chunk is read. *)
LEMMA ServerReadMaps ==
    ASSUME IInv, InFlight, NEW i \in Ids, on_server_read(i)
    PROVE  Refines
  <1> DEFINE s == server[i]
             c == client[i]
             t == server_read_ok(s)
  <1>1. s.reads > 0
    BY DEF on_server_read
  <1>2. /\ i \leq stream_id /\ CoreTypeOK(States) /\ s \in ServerStream /\ c \in ClientStream
        /\ SessionInv(session[i], s, c, response[i])
    BY <1>1, Pending DEF ServerQuiet
  <1>3. Keeps(s, t) /\ Keeps(c, c) /\ t \in ServerStream
    BY <1>1, <1>2, ServerKeeps, ClientKeeps, ServerReadOk
  <1>4. CASE session[i] = "HttpWaitRequest"
    <2> DEFINE u == server_write(t, Message("500"))
               d == TcpClientStream_start(c)
    <2>1. PICK kind \in Requests :
              CASE kind = "bad"      -> stop(i, u, c)
                [] kind = "valueless" -> Dies(i, t, c)
                [] OTHER              -> Handled(i, "HttpConnectionEstablished", t, d)
      BY <1>4 DEF on_server_read, HttpWaitRequest_handle_server_read
    <2>2. stop(i, u, c) \/ Dies(i, t, c) \/ Handled(i, "HttpConnectionEstablished", t, d)
      BY <2>1
    <2>3. Keeps(s, u) /\ u \in ServerStream /\ Keeps(c, d)
      BY <1>2, <1>3, ServerKeeps, ClientKeeps, KeepsOn, WriteType, ContentType DEF Kinds
    <2>4. PhaseStep(session[i], "HttpConnectionEstablished")
      BY <1>4, Opens, Phases DEF States
    <2> HIDE DEF u, d
    <2>5. CASE stop(i, u, c)
      BY <1>2, <1>3, <2>3, <2>5, StopOrDieMaps
    <2>6. CASE Dies(i, t, c)
      BY <1>2, <1>3, <2>6, StopOrDieMaps
    <2>7. CASE Handled(i, "HttpConnectionEstablished", t, d)
      BY <1>2, <1>3, <2>3, <2>4, <2>7, HandledIsChange, KeepsMaps
    <2>8. QED BY <2>2, <2>5, <2>6, <2>7
  <1>5. CASE session[i] = "HttpDataTransferMode"
    <2>1. Handled(i, session[i], Take(t), client_write(c, Data(t.got + 1)))
      BY <1>5 DEF on_server_read, HttpDataTransferMode_handle_server_read
    <2>2. session[i] \in RelayStates
      BY <1>5 DEF RelayStates
    <2>3. QED BY <1>1, <1>2, <1>5, <2>1, <2>2, IsRelay, ReadUpMaps
  <1>6. CASE session[i] \notin {"HttpWaitRequest", "HttpDataTransferMode"}
    <2>1. Ignored(i, t, c)
      BY <1>6 DEF on_server_read
    <2>2. QED BY <1>2, <1>3, <2>1, IgnoredMaps
  <1>7. QED BY <1>4, <1>5, <1>6

LEMMA ClientReadMaps ==
    ASSUME IInv, InFlight, NEW i \in Ids, on_client_read(i)
    PROVE  Refines
  <1> DEFINE s == server[i]
             c == client[i]
             d == client_read_ok(c)
  <1>1. c.reads > 0
    BY DEF on_client_read
  <1>2. /\ i \leq stream_id /\ CoreTypeOK(States) /\ s \in ServerStream /\ c \in ClientStream
        /\ SessionInv(session[i], s, c, response[i])
    BY <1>1, Pending DEF ClientQuiet
  <1>3. CASE session[i] = "HttpDataTransferMode"
    <2>1. Handled(i, session[i], server_write(s, Data(d.got + 1)), Take(d))
      BY <1>3 DEF on_client_read, HttpDataTransferMode_handle_client_read
    <2>2. session[i] \in RelayStates
      BY <1>3 DEF RelayStates
    <2>3. QED BY <1>1, <1>2, <1>3, <2>1, <2>2, IsRelay, ReadDownMaps
  <1>4. CASE session[i] # "HttpDataTransferMode"
    <2>1. Ignored(i, s, d)
      BY <1>4 DEF on_client_read
    <2>2. Keeps(s, s) /\ Keeps(c, d)
      BY <1>1, <1>2, ServerKeeps, ClientKeeps
    <2>3. QED BY <1>2, <2>1, <2>2, IgnoredMaps
  <1>5. QED BY <1>3, <1>4

(* The 200 is written, or a chunk. *)
LEMMA ServerWriteMaps ==
    ASSUME IInv, InFlight, NEW i \in Ids, on_server_write(i)
    PROVE  Refines
  <1> DEFINE s == server[i]
             c == client[i]
             t == server_write_ok(s)
  <1>1. s.writes > 0
    BY DEF on_server_write
  <1>2. /\ i \leq stream_id /\ CoreTypeOK(States) /\ s \in ServerStream /\ c \in ClientStream
        /\ Exclusive(s, c) /\ SessionInv(session[i], s, c, response[i])
    BY <1>1, Pending DEF ServerQuiet
  <1>3. Keeps(c, c) /\ Keeps(c, client_read(c))
    BY <1>2, ClientKeeps
  <1>4. t \in ServerStream
    BY <1>1, <1>2, ServerWriteOk
  <1>5. CASE session[i] = "HttpReadyTransferData"
    <2>1. Changes(i, "HttpDataTransferMode", server_read(t), client_read(c))
      BY <1>5, HandledIsChange DEF on_server_write, HttpReadyTransferData_handle_write
    <2>2. s.wbuf.kind = "200"
      BY <1>1, <1>2, <1>5 DEF SessionInv, Replying
    <2>3. Keeps(s, t)
      BY <1>1, <1>2, <2>2, ServerKeeps
    <2>4. Keeps(s, server_read(t))
      BY <1>4, <2>3, ServerKeeps, KeepsOn
    <2>5. PhaseStep(session[i], "HttpDataTransferMode")
      BY <1>5, Opens, Phases DEF States
    <2>6. QED BY <1>2, <1>3, <2>1, <2>4, <2>5, KeepsMaps
  <1>6. CASE session[i] # "HttpReadyTransferData"
    <2>1. \E d \in {c, client_read(c)} : Handled(i, session[i], t, d)
      BY <1>6 DEF on_server_write, HttpDataTransferMode_handle_server_write, Ignored
    <2>2. QED BY <1>1, <1>2, <1>3, <2>1, WriteDownMaps
  <1>7. QED BY <1>5, <1>6

(* The request is forwarded, or a chunk. *)
LEMMA ClientWriteMaps ==
    ASSUME IInv, InFlight, NEW i \in Ids, on_client_write(i)
    PROVE  Refines
  <1> DEFINE s == server[i]
             c == client[i]
             d == client_write_ok(c)
  <1>1. c.writes > 0
    BY DEF on_client_write
  <1>2. /\ i \leq stream_id /\ CoreTypeOK(States) /\ s \in ServerStream /\ c \in ClientStream
        /\ Exclusive(s, c) /\ SessionInv(session[i], s, c, response[i])
    BY <1>1, Pending DEF ClientQuiet
  <1>3. Keeps(s, s) /\ Keeps(s, server_read(s))
    BY <1>2, ServerKeeps
  <1>4. d \in ClientStream
    BY <1>1, <1>2, ClientWriteOk
  <1>5. CASE session[i] = "HttpReadyTransferData"
    <2>1. Changes(i, "HttpDataTransferMode", server_read(s), client_read(d))
      BY <1>5, HandledIsChange DEF on_client_write, HttpReadyTransferData_handle_write
    <2>2. c.wbuf.kind = "request"
      BY <1>1, <1>2, <1>5 DEF SessionInv, Replying
    <2>3. Keeps(c, d)
      BY <1>1, <1>2, <2>2, ClientKeeps
    <2>4. Keeps(c, client_read(d))
      BY <1>4, <2>3, ClientKeeps, KeepsOn
    <2>5. PhaseStep(session[i], "HttpDataTransferMode")
      BY <1>5, Opens, Phases DEF States
    <2>6. QED BY <1>2, <1>3, <2>1, <2>4, <2>5, KeepsMaps
  <1>6. CASE session[i] # "HttpReadyTransferData"
    <2>1. \E t \in {s, server_read(s)} : Handled(i, session[i], t, d)
      BY <1>6 DEF on_client_write, HttpDataTransferMode_handle_client_write, Ignored
    <2>2. QED BY <1>1, <1>2, <1>3, <2>1, WriteUpMaps
  <1>7. QED BY <1>5, <1>6

LEMMA ServerErrorMaps ==
    ASSUME IInv, InFlight, NEW i \in Ids, on_server_error(i)
    PROVE  Refines
  <1> DEFINE s == server[i]
             c == client[i]
  <1>1. PICK op \in ServerFailures(s) :
            IF Live(i) THEN handle_server_error(i, server_failed(s, op), c)
                       ELSE Ignored(i, server_failed(s, op), c)
    BY DEF on_server_error
  <1> DEFINE t == server_failed(s, op)
  <1>2. ~ServerQuiet(s)
    <2>1. s \in ServerStream
      BY DEF IInv, CoreTypeOK
    <2>2. QED BY <1>1, <2>1 DEF ServerQuiet, ServerFailures, ServerStream
  <1>3. /\ i \leq stream_id /\ CoreTypeOK(States) /\ s \in ServerStream /\ c \in ClientStream
    BY <1>2, Pending
  <1>4. t \in ServerStream /\ Keeps(s, t) /\ Keeps(c, c)
    BY <1>1, <1>3, ServerFailed, ServerKeeps, ClientKeeps
  <1>5. stop(i, t, c) \/ Ignored(i, t, c)
    BY <1>1 DEF handle_server_error
  <1> HIDE DEF t
  <1>6. QED BY <1>3, <1>4, <1>5, StopOrDieMaps

LEMMA ClientErrorMaps ==
    ASSUME IInv, InFlight, NEW i \in Ids, on_client_error(i)
    PROVE  Refines
  <1> DEFINE s == server[i]
             c == client[i]
  <1>1. PICK op \in ClientFailures(c) :
            IF Live(i) THEN handle_client_error(i, s, client_failed(c, op))
                       ELSE Ignored(i, s, client_failed(c, op))
    BY DEF on_client_error
  <1> DEFINE d == client_failed(c, op)
  <1>2. ~ClientQuiet(c)
    <2>1. c \in ClientStream
      BY DEF IInv, CoreTypeOK
    <2>2. QED BY <1>1, <2>1 DEF ClientQuiet, ClientFailures, ClientStream
  <1>3. /\ i \leq stream_id /\ CoreTypeOK(States) /\ s \in ServerStream /\ c \in ClientStream
    BY <1>2, Pending
  <1>4. d \in ClientStream /\ Keeps(c, d) /\ Keeps(s, s)
    BY <1>1, <1>3, ClientFailed, ServerKeeps, ClientKeeps
  <1>5. stop(i, s, d) \/ Ignored(i, s, d)
    BY <1>1 DEF handle_client_error
  <1> HIDE DEF d
  <1>6. QED BY <1>3, <1>4, <1>5, StopOrDieMaps

LEMMA ServerClosedMaps ==
    ASSUME IInv, InFlight, NEW i \in Ids, on_server_closed(i)
    PROVE  Refines
  <1> DEFINE s == server[i]
             c == client[i]
  <1>1. PICK op \in s.closing, failed \in BOOLEAN :
            IF failed /\ Live(i) THEN handle_server_error(i, server_closed(s, op), c)
                                 ELSE Ignored(i, server_closed(s, op), c)
    BY DEF on_server_closed
  <1> DEFINE t == server_closed(s, op)
  <1>2. /\ i \leq stream_id /\ CoreTypeOK(States) /\ s \in ServerStream /\ c \in ClientStream
    BY <1>1, Pending DEF ServerQuiet
  <1>3. t \in ServerStream /\ Keeps(s, t) /\ Keeps(c, c)
    BY <1>2, ServerClosed, ServerKeeps, ClientKeeps
  <1>4. stop(i, t, c) \/ Ignored(i, t, c)
    BY <1>1 DEF handle_server_error
  <1> HIDE DEF t
  <1>5. QED BY <1>2, <1>3, <1>4, StopOrDieMaps

LEMMA StepRefines == IInv /\ InFlight /\ [Next]_vars => Refines
  <1> SUFFICES ASSUME IInv, InFlight, [Next]_vars PROVE Refines
    OBVIOUS
  <1>1. CASE signal \/ UNCHANGED vars
    BY <1>1, OtherMaps DEF signal, vars
  <1>2. ASSUME NEW i \in Ids,
               on_accept(i) \/ on_server_ready(i) \/ ServerStep(i) \/ ClientStep(i)
        PROVE  Refines
    <2>1. CASE on_accept(i)
      BY <2>1, AcceptMaps, Opens DEF IInv, on_accept, States
    <2>2. CASE on_server_ready(i)
      BY <2>2, ReadyMaps
    <2>3. CASE ServerStep(i)
      BY <2>3, ServerReadMaps, ServerWriteMaps, ServerErrorMaps, ServerClosedMaps DEF ServerStep
    <2>4. CASE ClientStep(i)
      BY <2>4, ResolvedMaps, ConnectMaps, ClientReadMaps, ClientWriteMaps, ClientErrorMaps
         DEF ClientStep
    <2>5. QED BY <1>2, <2>1, <2>2, <2>3, <2>4
  <1>3. QED BY <1>1, <1>2 DEF Next

(* Every behaviour of the HTTP proxy is one of the tunnels': neither the    *)
(* 200 or 500 nor the forwarded request is taken for a chunk, and what the  *)
(* relay handlers of http_state.cpp pass between the two streams arrives    *)
(* whole, once and in order, only after the opening write.                  *)
THEOREM Implementation == Spec => Implements
  <1>1. Init => InFlight /\ T!Init
    BY InitMaps DEF Init
  <1>2. IInv /\ InFlight /\ [Next]_vars => InFlight' /\ [T!Next]_(T!vars)
    BY StepRefines DEF Refines
  <1>3. QED BY <1>1, <1>2, Invariance, PTL DEF Spec, Implements, T!Spec

(* However a session ends, also with the program, it cuts off at most the   *)
(* last chunk of each direction.                                            *)
THEOREM CutsOneAtMost == Spec => []AtMostOneCut
  BY Implementation, TunnelsOrdered, PTL DEF Implements
=============================================================================
