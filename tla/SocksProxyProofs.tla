-------------------------- MODULE SocksProxyProofs ---------------------------
(***************************************************************************)
(* Safety of the SOCKS mode for every number of sessions and chunks, every *)
(* choice of greetings and requests, with and without TLS.                 *)
(*                                                                         *)
(* The invariant speaks of one session at a time.  To what each state      *)
(* waits for it adds what the client has heard and will hear when the      *)
(* pending write is done (Spoken): an answer is still to be written when   *)
(* its state is entered, and also when the session is already erased.      *)
(***************************************************************************)
EXTENDS SocksProxy, RelayProofs

Welcomes == {"NoAuth", "NotSupported"}
Greeted(said) == Len(said) = 1 /\ said[1] \in Welcomes

(* The answer to a request tells what became of the connect *)
Truthful(k, c) ==
    \/ k = "succeeded" /\ c.phase = "connected"
    \/ k = "failed" /\ c.phase = "failed"
    \/ k = "command_not_supported" /\ c.made = FALSE

Spoken(s, c) ==
    /\ c.said = <<>>
    /\ c.writes > 0 => c.wbuf.kind = "data"
    /\ \/ /\ s.said = <<>> /\ s.got = 0 /\ c.got = 0
          /\ s.writes > 0 => s.wbuf.kind \in Welcomes
       \/ /\ Greeted(s.said) /\ s.got = 0 /\ c.got = 0
          /\ s.writes > 0 => Truthful(s.wbuf.kind, c)
       \/ /\ Len(s.said) = 2 /\ s.said[1] \in Welcomes /\ Truthful(s.said[2], c)
          /\ s.writes > 0 => s.wbuf.kind = "data"
          /\ s.got + c.got > 0 => s.said[2] = "succeeded"

(* The client stream is not there yet *)
NotMade(c) == c.made = FALSE /\ c.phase = "idle" /\ c.reads = 0 /\ c.writes = 0

(* What each state waits for, and what the client has heard by then *)
Waiting(st, s, c) ==
    CASE st = "SocksWaitConnection" ->
             /\ s.starting = TRUE /\ s.reads = 0 /\ s.writes = 0
             /\ NotMade(c) /\ s.said = <<>>
      [] st = "SocksAuthRequest" ->
             /\ s.starting = FALSE /\ s.reads = 1 /\ s.writes = 0
             /\ NotMade(c) /\ s.said = <<>>
      [] st = "SocksConnectionRequest" ->
             /\ s.starting = FALSE /\ NotMade(c)
             /\ \/ s.reads = 0 /\ s.writes = 1 /\ s.said = <<>> /\ s.wbuf.kind \in Welcomes
                \/ s.reads = 1 /\ s.writes = 0 /\ Greeted(s.said)
      [] st = "SocksConnectionEstablished" ->
             /\ s.starting = FALSE /\ s.reads = 0 /\ c.reads = 0 /\ c.writes = 0
             /\ Greeted(s.said)
             /\ \/ s.writes = 0 /\ c.phase \in {"resolving", "connecting"}
                \/ s.writes = 1 /\ s.wbuf.kind = "failed" /\ c.phase = "failed"
      [] st = "SocksReadyTransferData" ->
             /\ s.starting = FALSE /\ s.reads = 0 /\ c.reads = 0 /\ c.writes = 0
             /\ Greeted(s.said)
             /\ s.writes = 1 /\ s.wbuf.kind = "succeeded" /\ c.phase = "connected"

Opening == States \ {"SocksDataTransferMode"}

SessionInv(st, s, c) ==
    /\ st \in States \cup {Erased} /\ s \in ServerStream /\ c \in ClientStream
    /\ Exclusive(s, c) /\ Spoken(s, c)
    /\ c.phase \in {"resolving", "connecting"} => st = "SocksConnectionEstablished"
    /\ st # Erased => Flagged(s, c) /\ s.closing = {}
    /\ st \in Opening => Untouched(s, c) /\ Waiting(st, s, c)
    /\ st = "SocksDataTransferMode" =>
           Relaying(s, c) /\ Len(s.said) = 2 /\ s.said[2] = "succeeded"

IInv ==
    /\ CoreTypeOK(States)
    /\ AllFresh
    /\ \A i \in Ids : SessionInv(session[i], server[i], client[i])

-----------------------------------------------------------------------------
(* A handler that leaves a good session leaves a good proxy. *)
LEMMA HandledPreserves ==
    ASSUME IInv, NEW i \in Ids, i \leq stream_id,
           NEW st, NEW s, NEW c, SessionInv(st, s, c), Handled(i, st, s, c)
    PROVE  IInv'
  <1>1. st \in States \cup {Erased} /\ s \in ServerStream /\ c \in ClientStream
    BY DEF SessionInv
  <1>2. /\ CoreTypeOK(States)' /\ running' = running /\ stream_id' = stream_id
        /\ session'[i] = st /\ server'[i] = s /\ client'[i] = c
        /\ \A j \in Ids : j # i => /\ session'[j] = session[j]
                                   /\ server'[j] = server[j] /\ client'[j] = client[j]
    BY <1>1, HandledChanges DEF IInv
  <1>3. \A j \in Ids : SessionInv(session'[j], server'[j], client'[j])
    BY <1>2 DEF IInv
  <1>4. AllFresh'
    <2>1. \A j \in Ids : j > stream_id => j # i /\ Fresh(j)
      BY BoundsAssumption DEF IInv, AllFresh, CoreTypeOK, Ids
    <2>2. QED BY <1>2, <2>1 DEF AllFresh, Fresh
  <1>5. QED BY <1>2, <1>3, <1>4 DEF IInv

LEMMA Accepted ==
    ASSUME IInv, NEW i \in Ids, ~(ServerQuiet(server[i]) /\ ClientQuiet(client[i]))
    PROVE  i \leq stream_id
  <1>1. AllFresh /\ stream_id \in 0..MaxSessions
    BY DEF IInv, CoreTypeOK
  <1>2. QED BY <1>1, PendingAccepted

(* What was said stays true when an operation of a stream ends or fails. *)
LEMMA StillSpoken ==
    ASSUME NEW s \in ServerStream, NEW c \in ClientStream, Spoken(s, c),
           NEW t \in ServerStream, NEW d \in ClientStream,
           t.writes \leq s.writes, t.wbuf = s.wbuf, t.said = s.said, t.got = s.got,
           d.writes \leq c.writes, d.wbuf = c.wbuf, d.said = c.said, d.got = c.got,
           d.phase = c.phase, d.made = c.made
    PROVE  Spoken(t, d)
  <1>1. s.writes \in Nat /\ t.writes \in Nat /\ c.writes \in Nat /\ d.writes \in Nat
    BY DEF ServerStream, ClientStream
  <1>2. (t.writes > 0 => s.writes > 0) /\ (d.writes > 0 => c.writes > 0)
    BY <1>1
  <1>3. QED BY <1>2 DEF Spoken, Truthful

(* The pending write of the server stream is done: the client has heard it. *)
LEMMA WrittenSpoken ==
    ASSUME NEW s \in ServerStream, NEW c \in ClientStream, Spoken(s, c), Exclusive(s, c),
           s.writes > 0
    PROVE  /\ Spoken(server_write_ok(s), c)
           /\ s.said = <<>> => Greeted(server_write_ok(s).said)
           /\ Greeted(s.said) => /\ Len(server_write_ok(s).said) = 2
                                 /\ server_write_ok(s).said[2] = s.wbuf.kind
  <1> DEFINE t == server_write_ok(s)
  <1>1. s.writes = 1 /\ s.said \in Seq(Kinds) /\ s.wbuf.kind \in Kinds
    BY DEF Exclusive, ServerStream, Content
  <1>2. /\ t \in ServerStream /\ t.writes = s.writes - 1 /\ t.wbuf = s.wbuf /\ t.got = s.got
        /\ s.wbuf.kind = "data" => t.said = s.said
        /\ s.wbuf.kind # "data" => t.said = Append(s.said, s.wbuf.kind)
    BY ServerWriteOk
  <1>3. t.writes = 0
    BY <1>1, <1>2
  <1> HIDE DEF t
  <1>4. CASE s.said = <<>>
    <2>1. s.wbuf.kind \in Welcomes
      BY <1>1, <1>4 DEF Spoken, Greeted
    <2>2. t.said = Append(s.said, s.wbuf.kind)
      BY <1>2, <2>1 DEF Welcomes
    <2>3. Greeted(t.said)
      BY <1>1, <1>4, <2>1, <2>2 DEF Greeted
    <2>4. s.got = 0 /\ c.got = 0
      BY <1>4 DEF Spoken, Greeted
    <2>5. Spoken(t, c)
      BY <1>2, <1>3, <2>3, <2>4 DEF Spoken
    <2>6. QED BY <1>4, <2>3, <2>5 DEF Greeted, t
  <1>5. CASE Greeted(s.said)
    <2>1. Truthful(s.wbuf.kind, c) /\ s.got = 0 /\ c.got = 0
      BY <1>1, <1>5 DEF Spoken, Greeted
    <2>2. t.said = Append(s.said, s.wbuf.kind)
      BY <1>2, <2>1 DEF Truthful
    <2>3. Len(t.said) = 2 /\ t.said[1] \in Welcomes /\ t.said[2] = s.wbuf.kind
      BY <1>1, <1>5, <2>2 DEF Greeted
    <2>4. Spoken(t, c)
      BY <1>2, <1>3, <2>1, <2>3 DEF Spoken
    <2>5. QED BY <1>5, <2>3, <2>4 DEF Greeted, t
  <1>6. CASE s.said # <<>> /\ ~Greeted(s.said)
    <2>1. /\ Len(s.said) = 2 /\ s.said[1] \in Welcomes /\ Truthful(s.said[2], c)
          /\ s.wbuf.kind = "data"
          /\ s.got + c.got > 0 => s.said[2] = "succeeded"
      BY <1>1, <1>6 DEF Spoken
    <2>2. t.said = s.said
      BY <1>2, <2>1
    <2>3. Spoken(t, c)
      BY <1>2, <1>3, <2>1, <2>2 DEF Spoken
    <2>4. QED BY <1>6, <2>3 DEF t
  <1>7. QED BY <1>4, <1>5, <1>6

(* What an erased session has to keep. *)
LEMMA ErasedGood ==
    ASSUME NEW s \in ServerStream, NEW c \in ClientStream, Exclusive(s, c), Spoken(s, c),
           c.phase \notin {"resolving", "connecting"}
    PROVE  SessionInv(Erased, s, c)
  BY DEF SessionInv, Erased, States, Opening

(* Stopping a session that is not connecting erases it for good. *)
LEMMA StopGood ==
    ASSUME NEW s \in ServerStream, NEW c \in ClientStream, Exclusive(s, c), Spoken(s, c),
           c.phase \notin {"resolving", "connecting"}
    PROVE  SessionInv(Erased, server_stop(s), client_stop(c))
  <1> DEFINE t == server_stop(s)
             d == client_stop(c)
  <1>1. /\ t \in ServerStream /\ t.starting = s.starting
        /\ t.reads = s.reads /\ t.writes = s.writes
        /\ t.wbuf = s.wbuf /\ t.said = s.said /\ t.got = s.got
    BY ServerStop
  <1>2. /\ d \in ClientStream /\ d.phase = c.phase
        /\ d.reads = c.reads /\ d.writes = c.writes
        /\ d.wbuf = c.wbuf /\ d.said = c.said /\ d.got = c.got /\ d.made = c.made
    BY ClientStop
  <1> HIDE DEF t, d
  <1>3. Exclusive(t, d)
    BY <1>1, <1>2 DEF Exclusive
  <1>4. Spoken(t, d)
    BY <1>1, <1>2 DEF Spoken, Truthful
  <1>5. SessionInv(Erased, t, d)
    BY <1>1, <1>2, <1>3, <1>4, ErasedGood
  <1>6. QED BY <1>5 DEF t, d

(* A session that has a server operation outstanding is not connecting; so  *)
(* its stop leaves no connect behind.                                       *)
LEMMA NotConnecting ==
    ASSUME NEW st, NEW s, NEW c, SessionInv(st, s, c),
           s.starting = TRUE \/ s.reads > 0 \/ s.writes > 0 \/ st = Erased
    PROVE  c.phase \notin {"resolving", "connecting"}
  <1>1. CASE st # "SocksConnectionEstablished"
    BY <1>1 DEF SessionInv
  <1>2. CASE st = "SocksConnectionEstablished"
    <2>1. s.starting = FALSE /\ s.reads = 0 /\ (s.writes = 0 \/ c.phase = "failed")
      BY <1>2 DEF SessionInv, Opening, States, Waiting
    <2>2. QED BY <1>2, <2>1 DEF Erased
  <1>3. QED BY <1>1, <1>2

-----------------------------------------------------------------------------
(* What each handler leaves, one lemma per callback. *)

LEMMA ReadyGood ==
    ASSUME NEW s, NEW c, SessionInv("SocksWaitConnection", s, c)
    PROVE  SessionInv("SocksAuthRequest", server_read(server_ready(s)), c)
  <1> DEFINE r == server_ready(s)
             t == server_read(r)
  <1>1. /\ s \in ServerStream /\ c \in ClientStream
        /\ s.reads = 0 /\ s.writes = 0 /\ s.closing = {} /\ s.said = <<>>
        /\ Flagged(s, c) /\ Untouched(s, c) /\ NotMade(c) /\ Spoken(s, c)
    BY DEF SessionInv, Opening, States, Waiting, Erased
  <1>2. /\ r \in ServerStream /\ r.starting = FALSE /\ r.closing = {}
        /\ r.reads = 0 /\ r.rip = s.rip /\ r.writes = 0 /\ r.wip = s.wip
        /\ r.got = s.got /\ r.put = s.put /\ r.said = s.said
    BY <1>1, ServerReady
  <1>3. Tls \/ r.rip = FALSE
    BY <1>1, <1>2, TlsAssumption DEF Flagged
  <1> HIDE DEF r
  <1>4. /\ t \in ServerStream /\ t.reads = r.reads + 1 /\ (~Tls => t.rip = TRUE)
        /\ t.starting = r.starting /\ t.closing = r.closing
        /\ t.writes = r.writes /\ t.wip = r.wip
        /\ t.got = r.got /\ t.put = r.put /\ t.said = r.said
    BY <1>2, <1>3, ServerRead
  <1> HIDE DEF t
  <1>5. t.reads = 1 /\ t.writes = 0 /\ t.starting = FALSE /\ t.closing = {}
    BY <1>2, <1>4
  <1>6. Exclusive(t, c) /\ Flagged(t, c) /\ Untouched(t, c)
    BY <1>1, <1>2, <1>4, <1>5 DEF Exclusive, Flagged, Untouched, NotMade
  <1>7. Spoken(t, c)
    BY <1>1, <1>2, <1>4, <1>5 DEF Spoken, Untouched
  <1>8. SessionInv("SocksAuthRequest", t, c)
    BY <1>1, <1>2, <1>4, <1>5, <1>6, <1>7
       DEF SessionInv, Opening, States, Waiting, NotMade, Erased
  <1>9. QED BY <1>8 DEF r, t

(* The greeting is answered. *)
LEMMA GreetingGood ==
    ASSUME NEW s, NEW c, SessionInv("SocksAuthRequest", s, c), NEW k \in Welcomes
    PROVE  SessionInv("SocksConnectionRequest", server_write(server_read_ok(s), Message(k)), c)
  <1> DEFINE r == server_read_ok(s)
             m == Message(k)
             t == server_write(r, m)
  <1>1. /\ s \in ServerStream /\ c \in ClientStream
        /\ s.starting = FALSE /\ s.reads = 1 /\ s.writes = 0 /\ s.closing = {} /\ s.said = <<>>
        /\ Flagged(s, c) /\ Untouched(s, c) /\ NotMade(c) /\ Spoken(s, c)
    BY DEF SessionInv, Opening, States, Waiting, Erased
  <1>2. /\ r \in ServerStream /\ r.starting = s.starting /\ r.closing = s.closing
        /\ r.reads = s.reads - 1 /\ r.rip = FALSE /\ r.writes = s.writes /\ r.wip = s.wip
        /\ r.got = s.got /\ r.put = s.put /\ r.said = s.said
    <2>1. s.reads > 0
      BY <1>1
    <2>2. QED BY <1>1, <2>1, ServerReadOk
  <1>3. m \in Content /\ m.kind = k
    BY ContentType DEF Welcomes, Kinds
  <1>4. Tls \/ r.wip = FALSE
    BY <1>1, <1>2, TlsAssumption DEF Flagged
  <1> HIDE DEF r, m
  <1>5. /\ t \in ServerStream /\ t.writes = r.writes + 1 /\ t.wbuf = m
        /\ ~Tls => t.wip = TRUE
        /\ t.starting = r.starting /\ t.closing = r.closing
        /\ t.reads = r.reads /\ t.rip = r.rip
        /\ t.got = r.got /\ t.put = r.put /\ t.said = r.said
    BY <1>2, <1>3, <1>4, ServerWrite
  <1> HIDE DEF t
  <1>6. /\ t.reads = 0 /\ t.writes = 1 /\ t.starting = FALSE /\ t.closing = {}
        /\ t.said = <<>> /\ t.wbuf.kind \in Welcomes
    BY <1>1, <1>2, <1>3, <1>5
  <1>7. Exclusive(t, c) /\ Flagged(t, c) /\ Untouched(t, c)
    BY <1>1, <1>2, <1>5, <1>6 DEF Exclusive, Flagged, Untouched, NotMade
  <1>8. Spoken(t, c)
    BY <1>1, <1>2, <1>5, <1>6 DEF Spoken, Untouched
  <1>9. SessionInv("SocksConnectionRequest", t, c)
    BY <1>1, <1>5, <1>6, <1>7, <1>8 DEF SessionInv, Opening, States, Waiting, NotMade, Erased
  <1>10. QED BY <1>9 DEF r, m, t

(* The greeting's answer is written, and the request is read. *)
LEMMA AnsweredGood ==
    ASSUME NEW s, NEW c, SessionInv("SocksConnectionRequest", s, c), s.writes > 0
    PROVE  SessionInv("SocksConnectionRequest", server_read(server_write_ok(s)), c)
  <1> DEFINE r == server_write_ok(s)
             t == server_read(r)
  <1>1. /\ s \in ServerStream /\ c \in ClientStream
        /\ s.starting = FALSE /\ s.reads = 0 /\ s.writes = 1 /\ s.closing = {}
        /\ s.said = <<>> /\ s.wbuf.kind \in Welcomes
        /\ Flagged(s, c) /\ Untouched(s, c) /\ NotMade(c) /\ Spoken(s, c) /\ Exclusive(s, c)
    BY DEF SessionInv, Opening, States, Waiting, Erased
  <1>2. /\ r \in ServerStream /\ r.starting = s.starting /\ r.closing = s.closing
        /\ r.reads = s.reads /\ r.rip = s.rip /\ r.writes = s.writes - 1 /\ r.wip = FALSE
        /\ r.wbuf = s.wbuf /\ r.got = s.got
        /\ s.wbuf.kind # "data" => r.put = s.put
    BY <1>1, ServerWriteOk
  <1>3. Spoken(r, c) /\ Greeted(r.said)
    BY <1>1, WrittenSpoken
  <1>4. (Tls \/ r.rip = FALSE) /\ r.put = s.put
    BY <1>1, <1>2, TlsAssumption DEF Flagged, Welcomes
  <1> HIDE DEF r
  <1>5. /\ t \in ServerStream /\ t.reads = r.reads + 1 /\ (~Tls => t.rip = TRUE)
        /\ t.starting = r.starting /\ t.closing = r.closing
        /\ t.writes = r.writes /\ t.wip = r.wip /\ t.wbuf = r.wbuf
        /\ t.got = r.got /\ t.put = r.put /\ t.said = r.said
    BY <1>2, <1>4, ServerRead
  <1> HIDE DEF t
  <1>6. t.reads = 1 /\ t.writes = 0 /\ t.starting = FALSE /\ t.closing = {} /\ Greeted(t.said)
    BY <1>1, <1>2, <1>3, <1>5
  <1>7. Exclusive(t, c) /\ Flagged(t, c) /\ Untouched(t, c)
    BY <1>1, <1>2, <1>4, <1>5, <1>6 DEF Exclusive, Flagged, Untouched, NotMade
  <1>8. Spoken(t, c)
    BY <1>3, <1>5 DEF Spoken
  <1>9. SessionInv("SocksConnectionRequest", t, c)
    BY <1>1, <1>5, <1>6, <1>7, <1>8 DEF SessionInv, Opening, States, Waiting, NotMade, Erased
  <1>10. QED BY <1>9 DEF r, t

(* A CONNECT request starts the resolution. *)
LEMMA RequestGood ==
    ASSUME NEW s, NEW c, SessionInv("SocksConnectionRequest", s, c), s.reads > 0
    PROVE  SessionInv("SocksConnectionEstablished", server_read_ok(s),
                      TcpClientStream_start(TcpClientStream_create))
  <1> DEFINE t == server_read_ok(s)
             b == TcpClientStream_create
             d == TcpClientStream_start(b)
  <1>1. /\ s \in ServerStream /\ c \in ClientStream
        /\ s.starting = FALSE /\ s.reads = 1 /\ s.writes = 0 /\ s.closing = {}
        /\ Greeted(s.said)
        /\ Flagged(s, c) /\ Untouched(s, c)
    BY DEF SessionInv, Opening, States, Waiting, Erased
  <1>2. /\ t \in ServerStream /\ t.starting = s.starting /\ t.closing = s.closing
        /\ t.reads = s.reads - 1 /\ t.rip = FALSE /\ t.writes = s.writes /\ t.wip = s.wip
        /\ t.got = s.got /\ t.put = s.put /\ t.said = s.said
    BY <1>1, ServerReadOk
  <1>3. /\ b \in ClientStream /\ b.reads = 0 /\ b.writes = 0 /\ b.rip = FALSE /\ b.wip = FALSE
        /\ b.got = 0 /\ b.put = <<>> /\ b.said = <<>>
    BY CreateType
  <1> HIDE DEF t, b
  <1>4. /\ d \in ClientStream /\ d.phase = "resolving"
        /\ d.reads = b.reads /\ d.rip = b.rip /\ d.writes = b.writes /\ d.wip = b.wip
        /\ d.got = b.got /\ d.put = b.put /\ d.said = b.said
    BY <1>3, ClientStart
  <1> HIDE DEF d
  <1>5. t.reads = 0 /\ t.writes = 0 /\ t.starting = FALSE /\ t.closing = {} /\ Greeted(t.said)
    BY <1>1, <1>2
  <1>6. Exclusive(t, d) /\ Flagged(t, d) /\ Untouched(t, d)
    BY <1>1, <1>2, <1>3, <1>4, <1>5 DEF Exclusive, Flagged, Untouched
  <1>7. Spoken(t, d)
    BY <1>1, <1>2, <1>3, <1>4, <1>5 DEF Spoken, Untouched
  <1>8. SessionInv("SocksConnectionEstablished", t, d)
    BY <1>2, <1>3, <1>4, <1>5, <1>6, <1>7 DEF SessionInv, Opening, States, Waiting, Erased
  <1>9. QED BY <1>8 DEF t, b, d

(* UDP ASSOCIATE is turned down: one more write, and the session ends. *)
LEMMA RefusedGood ==
    ASSUME NEW s, NEW c, SessionInv("SocksConnectionRequest", s, c), s.reads > 0
    PROVE  SessionInv(Erased,
                      server_stop(server_write(server_read_ok(s), Message("command_not_supported"))),
                      client_stop(c))
  <1> DEFINE r == server_read_ok(s)
             m == Message("command_not_supported")
             t == server_write(r, m)
  <1>1. /\ s \in ServerStream /\ c \in ClientStream
        /\ s.starting = FALSE /\ s.reads = 1 /\ s.writes = 0 /\ s.closing = {}
        /\ Greeted(s.said)
        /\ Flagged(s, c) /\ Untouched(s, c) /\ NotMade(c) /\ Spoken(s, c)
    BY DEF SessionInv, Opening, States, Waiting, Erased
  <1>2. /\ r \in ServerStream /\ r.starting = s.starting /\ r.closing = s.closing
        /\ r.reads = s.reads - 1 /\ r.rip = FALSE /\ r.writes = s.writes /\ r.wip = s.wip
        /\ r.got = s.got /\ r.put = s.put /\ r.said = s.said
    BY <1>1, ServerReadOk
  <1>3. m \in Content /\ m.kind = "command_not_supported"
    BY ContentType DEF Kinds
  <1>4. Tls \/ r.wip = FALSE
    BY <1>1, <1>2, TlsAssumption DEF Flagged
  <1> HIDE DEF r, m
  <1>5. /\ t \in ServerStream /\ t.writes = r.writes + 1 /\ t.wbuf = m
        /\ t.starting = r.starting /\ t.closing = r.closing
        /\ t.reads = r.reads /\ t.got = r.got /\ t.said = r.said
    BY <1>2, <1>3, <1>4, ServerWrite
  <1> HIDE DEF t
  <1>6. t.reads = 0 /\ t.writes = 1 /\ t.starting = FALSE /\ Greeted(t.said)
    BY <1>1, <1>2, <1>5
  <1>7. Exclusive(t, c)
    BY <1>1, <1>6 DEF Exclusive, NotMade
  <1>8. Spoken(t, c)
    BY <1>1, <1>2, <1>3, <1>5, <1>6 DEF Spoken, Untouched, Truthful, NotMade
  <1>9. c.phase \notin {"resolving", "connecting"}
    BY <1>1 DEF NotMade
  <1>10. SessionInv(Erased, server_stop(t), client_stop(c))
    BY <1>1, <1>5, <1>7, <1>8, <1>9, StopGood
  <1>11. QED BY <1>10 DEF r, m, t

LEMMA ResolvedGood ==
    ASSUME NEW st, NEW s, NEW c, SessionInv(st, s, c), c.phase = "resolving"
    PROVE  SessionInv(st, s, client_resolved(c))
  <1> DEFINE d == client_resolved(c)
  <1>1. st = "SocksConnectionEstablished"
    BY DEF SessionInv
  <1>2. /\ s \in ServerStream /\ c \in ClientStream
        /\ s.starting = FALSE /\ s.reads = 0 /\ s.writes = 0 /\ s.closing = {}
        /\ c.reads = 0 /\ c.writes = 0 /\ Greeted(s.said)
        /\ Flagged(s, c) /\ Untouched(s, c) /\ Spoken(s, c) /\ Exclusive(s, c)
    BY <1>1 DEF SessionInv, Opening, States, Waiting, Erased
  <1>3. /\ d \in ClientStream /\ d.phase = "connecting"
        /\ d.reads = c.reads /\ d.rip = c.rip /\ d.writes = c.writes /\ d.wip = c.wip
        /\ d.got = c.got /\ d.put = c.put /\ d.said = c.said
    BY <1>2, ClientResolved
  <1> HIDE DEF d
  <1>4. Exclusive(s, d) /\ Flagged(s, d) /\ Untouched(s, d)
    BY <1>2, <1>3 DEF Exclusive, Flagged, Untouched
  <1>5. Spoken(s, d)
    BY <1>2, <1>3 DEF Spoken, Untouched
  <1>6. SessionInv(st, s, d)
    BY <1>1, <1>2, <1>3, <1>4, <1>5 DEF SessionInv, Opening, States, Waiting, Erased
  <1>7. QED BY <1>6 DEF d

(* The answer to a connect, whether it succeeded or failed. *)
LEMMA AnswerWritten ==
    ASSUME NEW s \in ServerStream, NEW d \in ClientStream, NEW k \in {"succeeded", "failed"},
           s.starting = FALSE, s.reads = 0, s.writes = 0, s.closing = {}, Greeted(s.said),
           d.reads = 0, d.writes = 0, d.said = <<>>, Truthful(k, d),
           Flagged(s, d), Untouched(s, d)
    PROVE  LET t == server_write(s, Message(k))
           IN /\ t \in ServerStream /\ t.starting = FALSE /\ t.reads = 0 /\ t.closing = {}
              /\ t.writes = 1 /\ t.wbuf.kind = k /\ t.said = s.said
              /\ Exclusive(t, d) /\ Flagged(t, d) /\ Untouched(t, d) /\ Spoken(t, d)
  <1> DEFINE m == Message(k)
             t == server_write(s, m)
  <1>1. m \in Content /\ m.kind = k
    BY ContentType DEF Kinds
  <1>2. Tls \/ s.wip = FALSE
    BY TlsAssumption DEF Flagged
  <1> HIDE DEF m
  <1>3. /\ t \in ServerStream /\ t.writes = s.writes + 1 /\ t.wbuf = m
        /\ ~Tls => t.wip = TRUE
        /\ t.starting = s.starting /\ t.closing = s.closing
        /\ t.reads = s.reads /\ t.rip = s.rip
        /\ t.got = s.got /\ t.put = s.put /\ t.said = s.said
    BY <1>1, <1>2, ServerWrite
  <1> HIDE DEF t
  <1>4. t.writes = 1 /\ t.wbuf.kind = k
    BY <1>1, <1>3
  <1>5. Exclusive(t, d) /\ Flagged(t, d) /\ Untouched(t, d)
    BY <1>3, <1>4 DEF Exclusive, Flagged, Untouched
  <1>6. Spoken(t, d)
    BY <1>3, <1>4 DEF Spoken, Untouched
  <1>7. QED BY <1>3, <1>4, <1>5, <1>6 DEF m, t

LEMMA ConnectGood ==
    ASSUME NEW s, NEW c, SessionInv("SocksConnectionEstablished", s, c), c.phase = "connecting"
    PROVE  SessionInv("SocksReadyTransferData", server_write(s, Message("succeeded")),
                      client_connected(c))
  <1> DEFINE t == server_write(s, Message("succeeded"))
             d == client_connected(c)
  <1>1. /\ s \in ServerStream /\ c \in ClientStream
        /\ s.starting = FALSE /\ s.reads = 0 /\ s.writes = 0 /\ s.closing = {}
        /\ c.reads = 0 /\ c.writes = 0 /\ Greeted(s.said) /\ c.said = <<>>
        /\ Flagged(s, c) /\ Untouched(s, c)
    BY DEF SessionInv, Opening, States, Waiting, Erased, Spoken
  <1>2. /\ d \in ClientStream /\ d.phase = "connected"
        /\ d.reads = c.reads /\ d.rip = c.rip /\ d.writes = c.writes /\ d.wip = c.wip
        /\ d.got = c.got /\ d.put = c.put /\ d.said = c.said
    BY <1>1, ClientConnected
  <1> HIDE DEF d
  <1>3. Flagged(s, d) /\ Untouched(s, d) /\ Truthful("succeeded", d)
    BY <1>1, <1>2 DEF Flagged, Untouched, Truthful
  <1>4. /\ t \in ServerStream /\ t.starting = FALSE /\ t.reads = 0 /\ t.closing = {}
        /\ t.writes = 1 /\ t.wbuf.kind = "succeeded" /\ t.said = s.said
        /\ Exclusive(t, d) /\ Flagged(t, d) /\ Untouched(t, d) /\ Spoken(t, d)
    <2>1. d.reads = 0 /\ d.writes = 0 /\ d.said = <<>>
      BY <1>1, <1>2
    <2>2. QED BY <1>1, <1>2, <1>3, <2>1, AnswerWritten
  <1> HIDE DEF t
  <1>5. SessionInv("SocksReadyTransferData", t, d)
    BY <1>1, <1>2, <1>4 DEF SessionInv, Opening, States, Waiting, Erased
  <1>6. QED BY <1>5 DEF t, d

LEMMA ConnectFailedGood ==
    ASSUME NEW s, NEW c, SessionInv("SocksConnectionEstablished", s, c),
           NEW op \in ClientFailures(c)
    PROVE  SessionInv("SocksConnectionEstablished", server_write(s, Message("failed")),
                      client_failed(c, op))
  <1> DEFINE t == server_write(s, Message("failed"))
             d == client_failed(c, op)
  <1>1. /\ s \in ServerStream /\ c \in ClientStream
        /\ s.starting = FALSE /\ s.reads = 0 /\ s.closing = {}
        /\ s.writes = 0 \/ c.phase = "failed"
        /\ c.reads = 0 /\ c.writes = 0 /\ Greeted(s.said) /\ c.said = <<>>
        /\ Flagged(s, c) /\ Untouched(s, c)
    BY DEF SessionInv, Opening, States, Waiting, Erased, Spoken
  <1>2. op = "connect" /\ s.writes = 0
    BY <1>1 DEF ClientFailures
  <1>3. d = [c EXCEPT !.phase = "failed"]
    BY <1>2 DEF client_failed
  <1>4. /\ d \in ClientStream /\ d.phase = "failed"
        /\ d.reads = c.reads /\ d.rip = c.rip /\ d.writes = c.writes /\ d.wip = c.wip
        /\ d.got = c.got /\ d.put = c.put /\ d.said = c.said
    BY <1>1, <1>3 DEF ClientStream
  <1> HIDE DEF d
  <1>5. Flagged(s, d) /\ Untouched(s, d) /\ Truthful("failed", d)
    BY <1>1, <1>4 DEF Flagged, Untouched, Truthful
  <1>6. /\ t \in ServerStream /\ t.starting = FALSE /\ t.reads = 0 /\ t.closing = {}
        /\ t.writes = 1 /\ t.wbuf.kind = "failed" /\ t.said = s.said
        /\ Exclusive(t, d) /\ Flagged(t, d) /\ Untouched(t, d) /\ Spoken(t, d)
    BY <1>1, <1>2, <1>4, <1>5, AnswerWritten
  <1> HIDE DEF t
  <1>7. SessionInv("SocksConnectionEstablished", t, d)
    BY <1>1, <1>4, <1>6 DEF SessionInv, Opening, States, Waiting, Erased
  <1>8. QED BY <1>7 DEF t, d

(* A relay that the client was told of. *)
LEMMA RelaySpoken ==
    ASSUME NEW s, NEW c, Relay(s, c), c.said = <<>>,
           Len(s.said) = 2, s.said[1] \in Welcomes, s.said[2] = "succeeded"
    PROVE  SessionInv("SocksDataTransferMode", s, c)
  <1>1. /\ s \in ServerStream /\ c \in ClientStream
        /\ Exclusive(s, c) /\ Flagged(s, c) /\ Relaying(s, c)
    BY DEF Relay
  <1>2. (s.writes > 0 => s.wbuf.kind = "data") /\ (c.writes > 0 => c.wbuf.kind = "data")
    <2>1. s.writes \in Nat /\ c.writes \in Nat
      BY <1>1 DEF ServerStream, ClientStream
    <2>2. QED BY <1>1, <2>1 DEF Relaying, Exclusive
  <1>3. Truthful(s.said[2], c)
    BY <1>1 DEF Truthful, Relaying
  <1>4. Spoken(s, c)
    BY <1>2, <1>3 DEF Spoken
  <1>5. c.phase = "connected" /\ s.closing = {}
    BY <1>1 DEF Relaying
  <1>6. QED BY <1>1, <1>4, <1>5 DEF SessionInv, Opening, States, Erased

(* What a relaying session has said. *)
LEMMA RelayTold ==
    ASSUME NEW s, NEW c, SessionInv("SocksDataTransferMode", s, c)
    PROVE  /\ Relay(s, c) /\ c.said = <<>>
           /\ Len(s.said) = 2 /\ s.said[1] \in Welcomes /\ s.said[2] = "succeeded"
  <1>1. /\ Relay(s, c) /\ Spoken(s, c) /\ Len(s.said) = 2 /\ s.said[2] = "succeeded"
    BY DEF SessionInv, Relay, Erased
  <1>2. s.said \in Seq(Kinds)
    BY <1>1 DEF Relay, ServerStream
  <1>3. s.said # <<>> /\ ~Greeted(s.said)
    BY <1>1, <1>2 DEF Greeted
  <1>4. QED BY <1>1, <1>3 DEF Spoken

(* The answer to a successful connect is written, and the relay starts. *)
LEMMA RelayGood ==
    ASSUME NEW s, NEW c, SessionInv("SocksReadyTransferData", s, c)
    PROVE  SessionInv("SocksDataTransferMode", server_read(server_write_ok(s)), client_read(c))
  <1> DEFINE r == server_write_ok(s)
             t == server_read(r)
             d == client_read(c)
  <1>1. /\ s \in ServerStream /\ c \in ClientStream /\ Exclusive(s, c)
        /\ s.starting = FALSE /\ s.reads = 0 /\ s.writes = 1 /\ s.closing = {}
        /\ s.wbuf.kind = "succeeded" /\ Greeted(s.said)
        /\ c.phase = "connected" /\ c.reads = 0 /\ c.writes = 0
        /\ Flagged(s, c) /\ Untouched(s, c) /\ Spoken(s, c)
    BY DEF SessionInv, Opening, States, Waiting, Erased
  <1>2. /\ r \in ServerStream /\ r.starting = s.starting /\ r.closing = s.closing
        /\ r.reads = s.reads /\ r.rip = s.rip /\ r.writes = s.writes - 1 /\ r.wip = FALSE
        /\ r.got = s.got
        /\ s.wbuf.kind # "data" => r.put = s.put
    <2>1. s.writes > 0
      BY <1>1
    <2>2. QED BY <1>1, <2>1, ServerWriteOk
  <1>3. Spoken(r, c) /\ Len(r.said) = 2 /\ r.said[2] = "succeeded"
    <2>1. s.writes > 0
      BY <1>1
    <2>2. QED BY <1>1, <2>1, WrittenSpoken
  <1> HIDE DEF r
  <1>4. Flagged(r, c) /\ Untouched(r, c) /\ r.writes = 0 /\ r.reads = 0
    BY <1>1, <1>2 DEF Flagged, Untouched
  <1>5. Relay(t, d) /\ SameTalk(r, c, t, d)
    BY <1>1, <1>2, <1>4, RelayStarts
  <1> HIDE DEF t, d
  <1>6. SessionInv("SocksDataTransferMode", t, d)
    <2>1. r.said \in Seq(Kinds) /\ r.said # <<>> /\ ~Greeted(r.said)
      BY <1>2, <1>3 DEF ServerStream, Greeted
    <2>2. r.said[1] \in Welcomes /\ c.said = <<>>
      BY <1>3, <2>1 DEF Spoken
    <2>3. QED BY <1>3, <1>5, <2>2, RelaySpoken DEF SameTalk
  <1>7. QED BY <1>6 DEF r, t, d

-----------------------------------------------------------------------------
(* Every action keeps the invariant, one lemma per action. *)

LEMMA InitGood == Init => IInv
  <1> SUFFICES ASSUME Init PROVE IInv
    OBVIOUS
  <1>1. AllFresh
    BY DEF Init, CoreInit, AllFresh, Fresh
  <1>2. SessionInv(Erased, NoServer, NoClient)
    <2>1. /\ Exclusive(NoServer, NoClient) /\ NoClient.phase \notin {"resolving", "connecting"}
          /\ Spoken(NoServer, NoClient)
      BY InitialType DEF Exclusive, Spoken, ServerQuiet, ClientQuiet
    <2>2. QED BY <2>1, InitialType, ErasedGood
  <1>3. CoreTypeOK(States)
    BY InitialType, BoundsAssumption DEF Init, CoreInit, CoreTypeOK
  <1>4. QED BY <1>1, <1>2, <1>3 DEF Init, CoreInit, IInv

LEMMA AcceptStep ==
    ASSUME IInv, NEW i \in Ids, on_accept(i)
    PROVE  IInv'
  <1>1. CoreTypeOK(States) /\ "SocksWaitConnection" \in States
    BY DEF IInv, States
  <1>2. /\ CoreTypeOK(States)' /\ running' = running /\ stream_id' = i /\ i = stream_id + 1
        /\ session'[i] = "SocksWaitConnection" /\ server'[i] = ServerStream_start
        /\ client'[i] = client[i]
        /\ \A j \in Ids : j # i => /\ session'[j] = session[j]
                                   /\ server'[j] = server[j] /\ client'[j] = client[j]
    BY <1>1, AcceptChanges DEF on_accept
  <1>3. stream_id \in Nat
    BY BoundsAssumption DEF IInv, CoreTypeOK
  <1>4. client[i] = NoClient
    BY <1>2, <1>3 DEF IInv, AllFresh, Fresh
  <1>5. SessionInv("SocksWaitConnection", ServerStream_start, NoClient)
    BY StartType, InitialType
       DEF SessionInv, Exclusive, Flagged, Untouched, Spoken, Waiting, NotMade, ClientQuiet,
           Opening, States, Erased
  <1>6. \A j \in Ids : SessionInv(session'[j], server'[j], client'[j])
    BY <1>2, <1>4, <1>5 DEF IInv
  <1>7. AllFresh'
    <2>1. \A j \in Ids : j > stream_id' => j # i /\ j > stream_id
      BY <1>2, <1>3 DEF Ids
    <2>2. QED BY <1>2, <2>1 DEF IInv, AllFresh, Fresh
  <1>8. QED BY <1>2, <1>6, <1>7 DEF IInv

(* The completion of an erased session's operation leaves it erased. *)
LEMMA IgnoredErased ==
    ASSUME IInv, NEW i \in Ids, i \leq stream_id, session[i] = Erased,
           NEW t \in ServerStream, NEW d \in ClientStream,
           Exclusive(t, d), Spoken(t, d), d.phase \notin {"resolving", "connecting"},
           Handled(i, Erased, t, d)
    PROVE  IInv'
  BY ErasedGood, HandledPreserves

LEMMA ReadyStep ==
    ASSUME IInv, NEW i \in Ids, on_server_ready(i)
    PROVE  IInv'
  <1> DEFINE s == server[i]
             c == client[i]
             t == server_ready(s)
  <1>1. SessionInv(session[i], s, c) /\ s.starting /\ i \leq stream_id
    BY Accepted DEF IInv, on_server_ready, ServerQuiet
  <1>2. /\ s \in ServerStream /\ c \in ClientStream /\ s.starting = TRUE
        /\ Exclusive(s, c) /\ Spoken(s, c)
    BY <1>1 DEF SessionInv, ServerStream
  <1>3. CASE session[i] = "SocksWaitConnection"
    <2>1. Handled(i, "SocksAuthRequest", server_read(t), c)
      BY <1>3 DEF on_server_ready, SocksWaitConnection_handle_on_accept
    <2>2. SessionInv("SocksAuthRequest", server_read(t), c)
      BY <1>1, <1>3, ReadyGood
    <2>3. QED BY <1>1, <2>1, <2>2, HandledPreserves
  <1>4. CASE session[i] = Erased
    <2>1. Handled(i, Erased, t, c)
      BY <1>4 DEF on_server_ready, Ignored, Erased
    <2>2. /\ t \in ServerStream /\ t.starting = FALSE
          /\ t.reads = s.reads /\ t.writes = s.writes
          /\ t.wbuf = s.wbuf /\ t.said = s.said /\ t.got = s.got
      BY <1>2, ServerReady
    <2>3. c.phase \notin {"resolving", "connecting"}
      BY <1>1, <1>4, NotConnecting
    <2>4. Exclusive(t, c) /\ Spoken(t, c)
      BY <1>2, <2>2 DEF Exclusive, Spoken
    <2>5. QED BY <1>1, <1>2, <1>4, <2>1, <2>2, <2>3, <2>4, IgnoredErased
  <1>5. CASE session[i] \notin {"SocksWaitConnection", Erased}
    <2>1. s.starting = FALSE
      BY <1>1, <1>5 DEF SessionInv, Opening, Waiting, Relaying, States
    <2>2. QED BY <1>2, <2>1
  <1>6. QED BY <1>3, <1>4, <1>5

LEMMA ResolvedStep ==
    ASSUME IInv, NEW i \in Ids, resolved(i)
    PROVE  IInv'
  <1>1. /\ SessionInv(session[i], server[i], client[i]) /\ i \leq stream_id
        /\ client[i].phase = "resolving"
    BY Accepted DEF IInv, resolved, ClientQuiet
  <1>2. Handled(i, session[i], server[i], client_resolved(client[i]))
    BY DEF resolved, Ignored
  <1>3. QED BY <1>1, <1>2, ResolvedGood, HandledPreserves

LEMMA ConnectStep ==
    ASSUME IInv, NEW i \in Ids, on_connect(i)
    PROVE  IInv'
  <1>1. /\ SessionInv(session[i], server[i], client[i]) /\ i \leq stream_id
        /\ session[i] = "SocksConnectionEstablished" /\ client[i].phase = "connecting"
    BY Accepted DEF IInv, on_connect, ClientQuiet, SessionInv
  <1>2. Handled(i, "SocksReadyTransferData", server_write(server[i], Message("succeeded")),
                client_connected(client[i]))
    BY <1>1 DEF on_connect, SocksConnectionEstablished_handle_client_connect
  <1>3. QED BY <1>1, <1>2, ConnectGood, HandledPreserves

LEMMA ServerReadStep ==
    ASSUME IInv, NEW i \in Ids, on_server_read(i)
    PROVE  IInv'
  <1> DEFINE s == server[i]
             c == client[i]
             t == server_read_ok(s)
  <1>1. SessionInv(session[i], s, c) /\ s.reads > 0 /\ i \leq stream_id
    BY Accepted DEF IInv, on_server_read, ServerQuiet
  <1>2. /\ s \in ServerStream /\ c \in ClientStream /\ Exclusive(s, c) /\ Spoken(s, c)
        /\ s.reads \in Nat
    BY <1>1 DEF SessionInv, ServerStream
  <1>3. /\ t \in ServerStream /\ t.reads = s.reads - 1 /\ t.starting = s.starting
        /\ t.writes = s.writes /\ t.wbuf = s.wbuf /\ t.said = s.said /\ t.got = s.got
    BY <1>1, <1>2, ServerReadOk
  <1>4. c.phase \notin {"resolving", "connecting"}
    BY <1>1, NotConnecting
  <1>5. Exclusive(t, c) /\ Spoken(t, c)
    <2> HIDE DEF t
    <2>1. t.reads \leq s.reads /\ t.writes \leq s.writes
      BY <1>2, <1>3 DEF ServerStream
    <2>2. c.reads \leq c.reads /\ c.writes \leq c.writes
      BY <1>2 DEF ClientStream
    <2>3. Exclusive(t, c)
      BY <1>2, <1>3, <2>1, <2>2, StillExclusive
    <2>4. Spoken(t, c)
      BY <1>2, <1>3, <2>1, <2>2, StillSpoken
    <2>5. QED BY <2>3, <2>4
  <1>6. CASE session[i] = "SocksAuthRequest"
    <2>1. PICK greeting \in Greetings :
              Handled(i, "SocksConnectionRequest",
                      server_write(t, Message(IF greeting = "noauth" THEN "NoAuth"
                                                                     ELSE "NotSupported")), c)
      BY <1>6 DEF on_server_read, SocksAuthRequest_handle_server_read, Erased
    <2> DEFINE k == IF greeting = "noauth" THEN "NoAuth" ELSE "NotSupported"
    <2>2. k \in Welcomes
      BY DEF Welcomes
    <2>3. SessionInv("SocksConnectionRequest", server_write(t, Message(k)), c)
      BY <1>1, <1>6, <2>2, GreetingGood
    <2>4. QED BY <1>1, <2>1, <2>3, HandledPreserves
  <1>7. CASE session[i] = "SocksConnectionRequest"
    <2>1. PICK request \in Requests :
              CASE request = "connect" ->
                       Handled(i, "SocksConnectionEstablished", t,
                               TcpClientStream_start(IF c.made THEN c ELSE TcpClientStream_create))
                [] request = "udp" ->
                       stop(i, server_write(t, Message("command_not_supported")), c)
                [] request = "bad" -> stop(i, t, c)
      BY <1>7 DEF on_server_read, SocksConnectionRequest_handle_server_read, Erased
    <2>2. request \in RequestKinds
      BY InputsAssumption
    <2>3. c.made = FALSE
      BY <1>1, <1>7 DEF SessionInv, Opening, States, Waiting, NotMade
    <2>4. CASE request = "connect"
      <3>1. Handled(i, "SocksConnectionEstablished", t,
                    TcpClientStream_start(TcpClientStream_create))
        BY <2>1, <2>3, <2>4
      <3>2. QED BY <1>1, <1>7, <3>1, RequestGood, HandledPreserves
    <2>5. CASE request = "udp"
      <3>1. Handled(i, Erased, server_stop(server_write(t, Message("command_not_supported"))),
                    client_stop(c))
        BY <2>1, <2>5 DEF stop, StopBoth
      <3>2. QED BY <1>1, <1>7, <3>1, RefusedGood, HandledPreserves
    <2>6. CASE request = "bad"
      <3>1. Handled(i, Erased, server_stop(t), client_stop(c))
        BY <2>1, <2>6 DEF stop, StopBoth
      <3>2. SessionInv(Erased, server_stop(t), client_stop(c))
        BY <1>2, <1>3, <1>4, <1>5, StopGood
      <3>3. QED BY <1>1, <3>1, <3>2, HandledPreserves
    <2>7. QED BY <2>2, <2>4, <2>5, <2>6 DEF RequestKinds
  <1>8. CASE session[i] = "SocksDataTransferMode"
    <2> DEFINE u == Take(t)
               d == client_write(c, Data(t.got + 1))
    <2>1. Handled(i, "SocksDataTransferMode", u, d)
      BY <1>8 DEF on_server_read, SocksDataTransferMode_handle_server_read, Erased
    <2>2. /\ Relay(s, c) /\ c.said = <<>>
          /\ Len(s.said) = 2 /\ s.said[1] \in Welcomes /\ s.said[2] = "succeeded"
      BY <1>1, <1>8, RelayTold
    <2>3. Relay(u, d) /\ SameTalk(s, c, u, d)
      BY <1>1, <2>2, RelayServerRead
    <2> HIDE DEF u, d
    <2>4. SessionInv("SocksDataTransferMode", u, d)
      BY <2>2, <2>3, RelaySpoken DEF SameTalk
    <2>5. QED BY <1>1, <2>1, <2>4, HandledPreserves
  <1>9. CASE session[i] = Erased
    <2>1. Handled(i, Erased, t, c)
      BY <1>9 DEF on_server_read, Ignored, Erased
    <2>2. QED BY <1>1, <1>2, <1>3, <1>4, <1>5, <1>9, <2>1, IgnoredErased
  <1>10. CASE session[i] \in {"SocksWaitConnection", "SocksConnectionEstablished",
                              "SocksReadyTransferData"}
    <2>1. s.reads = 0
      BY <1>1, <1>10 DEF SessionInv, Opening, States, Waiting
    <2>2. QED BY <1>1, <2>1
  <1>11. QED BY <1>1, <1>6, <1>7, <1>8, <1>9, <1>10 DEF SessionInv, States

LEMMA ServerWriteStep ==
    ASSUME IInv, NEW i \in Ids, on_server_write(i)
    PROVE  IInv'
  <1> DEFINE s == server[i]
             c == client[i]
             t == server_write_ok(s)
  <1>1. SessionInv(session[i], s, c) /\ s.writes > 0 /\ i \leq stream_id
    BY Accepted DEF IInv, on_server_write, ServerQuiet
  <1>2. /\ s \in ServerStream /\ c \in ClientStream /\ Exclusive(s, c) /\ Spoken(s, c)
        /\ s.writes \in Nat
    BY <1>1 DEF SessionInv, ServerStream
  <1>3. /\ t \in ServerStream /\ t.writes = s.writes - 1
        /\ t.reads = s.reads /\ t.starting = s.starting
    BY <1>1, <1>2, ServerWriteOk
  <1>4. c.phase \notin {"resolving", "connecting"}
    BY <1>1, NotConnecting
  <1>5. Exclusive(t, c)
    BY <1>2, <1>3 DEF Exclusive
  <1>6. Spoken(t, c)
    BY <1>1, <1>2, WrittenSpoken
  <1>7. CASE session[i] = "SocksConnectionRequest"
    <2>1. Handled(i, "SocksConnectionRequest", server_read(t), c)
      BY <1>7 DEF on_server_write, SocksConnectionRequest_handle_server_write
    <2>2. SessionInv("SocksConnectionRequest", server_read(t), c)
      BY <1>1, <1>7, AnsweredGood
    <2>3. QED BY <1>1, <2>1, <2>2, HandledPreserves
  <1>8. CASE session[i] = "SocksConnectionEstablished"
    <2>1. Handled(i, Erased, server_stop(t), client_stop(c))
      BY <1>8 DEF on_server_write, SocksConnectionEstablished_handle_server_write, stop, StopBoth
    <2>2. SessionInv(Erased, server_stop(t), client_stop(c))
      BY <1>2, <1>3, <1>4, <1>5, <1>6, StopGood
    <2>3. QED BY <1>1, <2>1, <2>2, HandledPreserves
  <1>9. CASE session[i] = "SocksReadyTransferData"
    <2>1. Handled(i, "SocksDataTransferMode", server_read(t), client_read(c))
      BY <1>9 DEF on_server_write, SocksReadyTransferData_handle_server_write
    <2>2. SessionInv("SocksDataTransferMode", server_read(t), client_read(c))
      BY <1>1, <1>9, RelayGood
    <2>3. QED BY <1>1, <2>1, <2>2, HandledPreserves
  <1>10. CASE session[i] = "SocksDataTransferMode"
    <2> DEFINE d == client_read(c)
    <2>1. Handled(i, "SocksDataTransferMode", t, d)
      BY <1>10 DEF on_server_write, SocksDataTransferMode_handle_server_write
    <2>2. /\ Relay(s, c) /\ c.said = <<>>
          /\ Len(s.said) = 2 /\ s.said[1] \in Welcomes /\ s.said[2] = "succeeded"
      BY <1>1, <1>10, RelayTold
    <2>3. Relay(t, d) /\ SameTalk(s, c, t, d)
      BY <1>1, <2>2, RelayServerWrite
    <2> HIDE DEF t, d
    <2>4. SessionInv("SocksDataTransferMode", t, d)
      BY <2>2, <2>3, RelaySpoken DEF SameTalk
    <2>5. QED BY <1>1, <2>1, <2>4, HandledPreserves
  <1>11. CASE session[i] = Erased
    <2>1. Handled(i, Erased, t, c)
      BY <1>11 DEF on_server_write, Ignored, Erased
    <2>2. QED BY <1>1, <1>2, <1>3, <1>4, <1>5, <1>6, <1>11, <2>1, IgnoredErased
  <1>12. CASE session[i] \in {"SocksWaitConnection", "SocksAuthRequest"}
    <2>1. s.writes = 0
      BY <1>1, <1>12 DEF SessionInv, Opening, States, Waiting
    <2>2. QED BY <1>1, <2>1
  <1>13. QED BY <1>1, <1>7, <1>8, <1>9, <1>10, <1>11, <1>12 DEF SessionInv, States

LEMMA ClientReadStep ==
    ASSUME IInv, NEW i \in Ids, on_client_read(i)
    PROVE  IInv'
  <1> DEFINE s == server[i]
             c == client[i]
             d == client_read_ok(c)
  <1>1. SessionInv(session[i], s, c) /\ c.reads > 0 /\ i \leq stream_id
    BY Accepted DEF IInv, on_client_read, ClientQuiet
  <1>2. /\ s \in ServerStream /\ c \in ClientStream /\ Exclusive(s, c) /\ Spoken(s, c)
        /\ c.reads \in Nat
    BY <1>1 DEF SessionInv, ClientStream
  <1>3. CASE session[i] = "SocksDataTransferMode"
    <2> DEFINE t == server_write(s, Data(d.got + 1))
               e == Take(d)
    <2>1. Handled(i, "SocksDataTransferMode", t, e)
      BY <1>3 DEF on_client_read, SocksDataTransferMode_handle_client_read
    <2>2. /\ Relay(s, c) /\ c.said = <<>>
          /\ Len(s.said) = 2 /\ s.said[1] \in Welcomes /\ s.said[2] = "succeeded"
      BY <1>1, <1>3, RelayTold
    <2>3. Relay(t, e) /\ SameTalk(s, c, t, e)
      BY <1>1, <2>2, RelayClientRead
    <2> HIDE DEF t, e
    <2>4. SessionInv("SocksDataTransferMode", t, e)
      BY <2>2, <2>3, RelaySpoken DEF SameTalk
    <2>5. QED BY <1>1, <2>1, <2>4, HandledPreserves
  <1>4. CASE session[i] = Erased
    <2>1. Handled(i, Erased, s, d)
      BY <1>4 DEF on_client_read, Ignored, Erased
    <2>2. /\ d \in ClientStream /\ d.reads = c.reads - 1
          /\ d.writes = c.writes /\ d.phase = c.phase /\ d.made = c.made
          /\ d.wbuf = c.wbuf /\ d.said = c.said /\ d.got = c.got
      BY <1>1, <1>2, ClientReadOk
    <2>3. c.phase \notin {"resolving", "connecting"}
      BY <1>1, <1>4, NotConnecting
    <2> HIDE DEF d
    <2>4. Exclusive(s, d) /\ Spoken(s, d)
      BY <1>2, <2>2 DEF Exclusive, Spoken, Truthful
    <2>5. QED BY <1>1, <1>2, <1>4, <2>1, <2>2, <2>3, <2>4, IgnoredErased
  <1>5. CASE session[i] \in Opening
    <2>1. c.reads = 0
      BY <1>1, <1>5 DEF SessionInv, Opening, States, Waiting, NotMade
    <2>2. QED BY <1>1, <2>1
  <1>6. QED BY <1>1, <1>3, <1>4, <1>5 DEF SessionInv, Opening

LEMMA ClientWriteStep ==
    ASSUME IInv, NEW i \in Ids, on_client_write(i)
    PROVE  IInv'
  <1> DEFINE s == server[i]
             c == client[i]
             d == client_write_ok(c)
  <1>1. SessionInv(session[i], s, c) /\ c.writes > 0 /\ i \leq stream_id
    BY Accepted DEF IInv, on_client_write, ClientQuiet
  <1>2. /\ s \in ServerStream /\ c \in ClientStream /\ Exclusive(s, c) /\ Spoken(s, c)
        /\ c.writes \in Nat
    BY <1>1 DEF SessionInv, ClientStream
  <1>3. CASE session[i] = "SocksDataTransferMode"
    <2> DEFINE t == server_read(s)
    <2>1. Handled(i, "SocksDataTransferMode", t, d)
      BY <1>3 DEF on_client_write, SocksDataTransferMode_handle_client_write
    <2>2. /\ Relay(s, c) /\ c.said = <<>>
          /\ Len(s.said) = 2 /\ s.said[1] \in Welcomes /\ s.said[2] = "succeeded"
      BY <1>1, <1>3, RelayTold
    <2>3. Relay(t, d) /\ SameTalk(s, c, t, d)
      BY <1>1, <2>2, RelayClientWrite
    <2> HIDE DEF t, d
    <2>4. SessionInv("SocksDataTransferMode", t, d)
      BY <2>2, <2>3, RelaySpoken DEF SameTalk
    <2>5. QED BY <1>1, <2>1, <2>4, HandledPreserves
  <1>4. CASE session[i] = Erased
    <2>1. Handled(i, Erased, s, d)
      BY <1>4 DEF on_client_write, Ignored, Erased
    <2>2. c.wbuf.kind = "data"
      BY <1>1, <1>2 DEF Spoken
    <2>3. /\ d \in ClientStream /\ d.writes = c.writes - 1
          /\ d.reads = c.reads /\ d.phase = c.phase /\ d.made = c.made
          /\ d.wbuf = c.wbuf /\ d.said = c.said /\ d.got = c.got
      BY <1>1, <1>2, <2>2, ClientWriteOk
    <2>4. c.phase \notin {"resolving", "connecting"}
      BY <1>1, <1>4, NotConnecting
    <2> HIDE DEF d
    <2>5. Exclusive(s, d) /\ Spoken(s, d)
      BY <1>2, <2>2, <2>3 DEF Exclusive, Spoken, Truthful
    <2>6. QED BY <1>1, <1>2, <1>4, <2>1, <2>3, <2>4, <2>5, IgnoredErased
  <1>5. CASE session[i] \in Opening
    <2>1. c.writes = 0
      BY <1>1, <1>5 DEF SessionInv, Opening, States, Waiting, NotMade
    <2>2. QED BY <1>1, <2>1
  <1>6. QED BY <1>1, <1>3, <1>4, <1>5 DEF SessionInv, Opening

LEMMA ServerErrorStep ==
    ASSUME IInv, NEW i \in Ids, on_server_error(i)
    PROVE  IInv'
  <1> DEFINE s == server[i]
             c == client[i]
  <1>1. PICK op \in ServerFailures(s) :
            IF Live(i) THEN SocksState_handle_server_error(i, server_failed(s, op), c)
                       ELSE Ignored(i, server_failed(s, op), c)
    BY DEF on_server_error
  <1> DEFINE t == server_failed(s, op)
  <1>2. s.starting \/ s.reads > 0 \/ s.writes > 0
    BY <1>1 DEF ServerFailures
  <1>3. /\ SessionInv(session[i], s, c) /\ s \in ServerStream /\ c \in ClientStream
        /\ Exclusive(s, c) /\ Spoken(s, c)
    BY DEF IInv, SessionInv
  <1>4. i \leq stream_id
    BY <1>2, Accepted, <1>3 DEF ServerQuiet, ServerStream
  <1>5. c.phase \notin {"resolving", "connecting"}
    BY <1>2, <1>3, NotConnecting DEF ServerStream
  <1>6. /\ t \in ServerStream /\ t.reads \leq s.reads /\ t.writes \leq s.writes
        /\ s.starting = FALSE => t.starting = FALSE
        /\ t.wbuf = s.wbuf /\ t.said = s.said /\ t.got = s.got
    BY <1>1, <1>3, ServerFailed
  <1>7. c.reads \leq c.reads /\ c.writes \leq c.writes
    BY <1>3 DEF ClientStream
  <1> HIDE DEF t
  <1>8. Exclusive(t, c)
    BY <1>3, <1>6, <1>7, StillExclusive
  <1>9. Spoken(t, c)
    BY <1>3, <1>6, <1>7, StillSpoken
  <1>10. CASE Live(i)
    <2>1. Handled(i, Erased, server_stop(t), client_stop(c))
      BY <1>1, <1>10 DEF SocksState_handle_server_error, stop, StopBoth, t
    <2>2. SessionInv(Erased, server_stop(t), client_stop(c))
      BY <1>3, <1>5, <1>6, <1>8, <1>9, StopGood
    <2>3. QED BY <1>4, <2>1, <2>2, HandledPreserves
  <1>11. CASE ~Live(i)
    <2>1. Handled(i, Erased, t, c) /\ session[i] = Erased
      BY <1>1, <1>11 DEF Ignored, Live, t
    <2>2. QED BY <1>3, <1>4, <1>5, <1>6, <1>8, <1>9, <2>1, IgnoredErased
  <1>12. QED BY <1>10, <1>11

LEMMA ClientErrorStep ==
    ASSUME IInv, NEW i \in Ids, on_client_error(i)
    PROVE  IInv'
  <1> DEFINE s == server[i]
             c == client[i]
  <1>1. PICK op \in ClientFailures(c) :
            CASE session[i] = "SocksConnectionEstablished" ->
                     SocksConnectionEstablished_handle_client_error(i, s, client_failed(c, op))
              [] session[i] = Erased -> Ignored(i, s, client_failed(c, op))
              [] OTHER -> SocksState_handle_client_error(i, s, client_failed(c, op))
    BY DEF on_client_error
  <1> DEFINE d == client_failed(c, op)
  <1>2. /\ op = "connect" => c.phase \in {"resolving", "connecting"}
        /\ op # "connect" => c.reads > 0 \/ c.writes > 0
    BY <1>1 DEF ClientFailures
  <1>3. /\ SessionInv(session[i], s, c) /\ s \in ServerStream /\ c \in ClientStream
        /\ Exclusive(s, c) /\ Spoken(s, c)
    BY DEF IInv, SessionInv
  <1>4. i \leq stream_id
    BY <1>2, <1>3, Accepted DEF ClientQuiet, ClientStream
  <1>5. CASE session[i] = "SocksConnectionEstablished"
    <2>1. Handled(i, "SocksConnectionEstablished", server_write(s, Message("failed")), d)
      <3>1. SocksConnectionEstablished_handle_client_error(i, s, d)
        BY <1>1, <1>5 DEF Erased
      <3> HIDE DEF s, d
      <3>2. Handled(i, session[i], server_write(s, Message("failed")), d)
        BY <3>1 DEF SocksConnectionEstablished_handle_client_error
      <3>3. QED BY <1>5, <3>2
    <2>2. SessionInv("SocksConnectionEstablished", server_write(s, Message("failed")), d)
      BY <1>1, <1>3, <1>5, ConnectFailedGood
    <2>3. QED BY <1>4, <2>1, <2>2, HandledPreserves
  <1>6. CASE session[i] # "SocksConnectionEstablished"
    <2>1. c.phase \notin {"resolving", "connecting"} /\ op # "connect"
      BY <1>2, <1>3, <1>6 DEF SessionInv
    <2>2. /\ d \in ClientStream /\ d.reads \leq c.reads /\ d.writes \leq c.writes
          /\ d.wbuf = c.wbuf /\ d.said = c.said /\ d.got = c.got /\ d.made = c.made
          /\ d.phase = c.phase
      BY <1>1, <1>3, <2>1, ClientFailed
    <2>3. s.reads \leq s.reads /\ s.writes \leq s.writes
      BY <1>3 DEF ServerStream
    <2> HIDE DEF d
    <2>4. Exclusive(s, d)
      BY <1>3, <2>2, <2>3, StillExclusive
    <2>5. Spoken(s, d)
      BY <1>3, <2>2, <2>3, StillSpoken
    <2>6. CASE session[i] = Erased
      <3>1. Handled(i, Erased, s, d)
        BY <1>1, <1>6, <2>6 DEF Ignored, Erased, d
      <3>2. QED BY <1>3, <1>4, <2>1, <2>2, <2>4, <2>5, <2>6, <3>1, IgnoredErased
    <2>7. CASE session[i] # Erased
      <3>1. Handled(i, Erased, server_stop(s), client_stop(d))
        BY <1>1, <1>6, <2>7 DEF SocksState_handle_client_error, stop, StopBoth, d
      <3>2. SessionInv(Erased, server_stop(s), client_stop(d))
        BY <1>3, <2>1, <2>2, <2>4, <2>5, StopGood
      <3>3. QED BY <1>4, <3>1, <3>2, HandledPreserves
    <2>8. QED BY <2>6, <2>7
  <1>7. QED BY <1>5, <1>6

LEMMA ServerClosedStep ==
    ASSUME IInv, NEW i \in Ids, on_server_closed(i)
    PROVE  IInv'
  <1> DEFINE s == server[i]
             c == client[i]
  <1>1. PICK op \in s.closing, failed \in BOOLEAN :
            IF failed /\ Live(i) THEN SocksState_handle_server_error(i, server_closed(s, op), c)
                                 ELSE Ignored(i, server_closed(s, op), c)
    BY DEF on_server_closed
  <1> DEFINE t == server_closed(s, op)
  <1>2. /\ SessionInv(session[i], s, c) /\ s \in ServerStream /\ c \in ClientStream
        /\ Exclusive(s, c) /\ Spoken(s, c)
    BY DEF IInv, SessionInv
  <1>3. i \leq stream_id
    BY <1>1, Accepted DEF ServerQuiet
  <1>4. session[i] = Erased
    BY <1>1, <1>2 DEF SessionInv
  <1>5. c.phase \notin {"resolving", "connecting"}
    BY <1>2, <1>4, NotConnecting
  <1>6. /\ t \in ServerStream /\ t.starting = s.starting
        /\ t.reads = s.reads /\ t.writes = s.writes
        /\ t.wbuf = s.wbuf /\ t.said = s.said /\ t.got = s.got
    BY <1>2, ServerClosed
  <1> HIDE DEF t
  <1>7. Exclusive(t, c) /\ Spoken(t, c)
    BY <1>2, <1>6 DEF Exclusive, Spoken
  <1>8. Handled(i, Erased, t, c)
    BY <1>1, <1>4 DEF Ignored, Live, t
  <1>9. QED BY <1>2, <1>3, <1>4, <1>5, <1>6, <1>7, <1>8, IgnoredErased

LEMMA SignalStep == IInv /\ signal => IInv'
  BY DEF IInv, signal, CoreTypeOK, AllFresh, Fresh

LEMMA StutterStep == IInv /\ UNCHANGED vars => IInv'
  BY DEF IInv, vars, coreVars, CoreTypeOK, AllFresh, Fresh

LEMMA StepGood == IInv /\ [Next]_vars => IInv'
  <1> SUFFICES ASSUME IInv, [Next]_vars PROVE IInv'
    OBVIOUS
  <1>1. CASE UNCHANGED vars
    BY <1>1, StutterStep
  <1>2. CASE signal
    BY <1>2, SignalStep
  <1>3. ASSUME NEW i \in Ids,
               on_accept(i) \/ on_server_ready(i) \/ ServerStep(i) \/ ClientStep(i)
        PROVE  IInv'
    <2>1. CASE on_accept(i)
      BY <2>1, AcceptStep
    <2>2. CASE on_server_ready(i)
      BY <2>2, ReadyStep
    <2>3. CASE ServerStep(i)
      BY <2>3, ServerReadStep, ServerWriteStep, ServerErrorStep, ServerClosedStep DEF ServerStep
    <2>4. CASE ClientStep(i)
      BY <2>4, ResolvedStep, ConnectStep, ClientReadStep, ClientWriteStep, ClientErrorStep
         DEF ClientStep
    <2>5. QED BY <1>3, <2>1, <2>2, <2>3, <2>4
  <1>4. QED BY <1>1, <1>2, <1>3 DEF Next

-----------------------------------------------------------------------------
(* The invariant holds in every reachable state. *)
THEOREM Invariance == Spec => []IInv
  <1>1. QED BY InitGood, StepGood, PTL DEF Spec

(* The state of the SOCKS mode keeps its types. *)
THEOREM TypeCorrect == Spec => []TypeOK
  <1>1. IInv => TypeOK
    BY DEF IInv, TypeOK
  <1>2. QED BY <1>1, Invariance, PTL

(* Each state of a session in the map waits for exactly the callbacks that  *)
(* can move it on, from the posted start through greeting, request, connect *)
(* and answer to the relay (socks_state.cpp).                               *)
THEOREM AlwaysArmed == Spec => []Armed
  <1>1. ASSUME IInv, NEW i \in Ids PROVE ArmedIn(i)
    <2>1. SessionInv(session[i], server[i], client[i])
      BY <1>1 DEF IInv
    <2>2. CASE session[i] \in Opening
      <3>1. /\ server[i].closing = {} /\ Waiting(session[i], server[i], client[i])
        BY <2>1, <2>2 DEF SessionInv, Opening, States, Erased
      <3> DEFINE s == server[i]
                 c == client[i]
      <3>2. s.closing = {} /\ Waiting(session[i], s, c) /\ s \in ServerStream /\ c \in ClientStream
        BY <2>1, <3>1 DEF SessionInv
      <3> HIDE DEF s, c
      <3>3. CASE session[i] = "SocksWaitConnection"
        BY <3>2, <3>3 DEF Waiting, NotMade, ArmedIn, OnlyServer, OnlyReply,
                          OnlyConnecting, ClientQuiet, ServerQuiet, ServerStream, ClientStream, s, c
      <3>4. CASE session[i] = "SocksAuthRequest"
        BY <3>2, <3>4 DEF Waiting, NotMade, ArmedIn, OnlyServer, OnlyReply,
                          OnlyConnecting, ClientQuiet, ServerQuiet, ServerStream, ClientStream, s, c
      <3>5. CASE session[i] = "SocksConnectionRequest"
        BY <3>2, <3>5 DEF Waiting, NotMade, ArmedIn, OnlyServer, OnlyReply,
                          OnlyConnecting, ClientQuiet, ServerQuiet, ServerStream, ClientStream, s, c
      <3>6. CASE session[i] = "SocksConnectionEstablished"
        BY <3>2, <3>6 DEF Waiting, NotMade, ArmedIn, OnlyServer, OnlyReply,
                          OnlyConnecting, ClientQuiet, ServerQuiet, ServerStream, ClientStream, s, c
      <3>7. CASE session[i] = "SocksReadyTransferData"
        BY <3>2, <3>7 DEF Waiting, NotMade, ArmedIn, OnlyServer, OnlyReply,
                          OnlyConnecting, ClientQuiet, ServerQuiet, ServerStream, ClientStream, s, c
      <3>8. QED BY <2>2, <3>3, <3>4, <3>5, <3>6, <3>7 DEF Opening, States
    <2>3. CASE session[i] = "SocksDataTransferMode"
      BY <2>1, <2>3 DEF SessionInv, ArmedIn, Relaying, RelayArmed
    <2>4. CASE session[i] = Erased
      BY <2>4 DEF ArmedIn, Erased
    <2>5. QED BY <2>1, <2>2, <2>3, <2>4 DEF SessionInv, Opening
  <1>2. IInv => Armed
    BY <1>1 DEF Armed
  <1>3. QED BY <1>2, Invariance, PTL

(* No buffer is used by two operations, whatever the state of its session,  *)
(* and the empty write of stop() is outstanding only once it is erased:     *)
(* then it may be a second one, beside a refusal or the last chunk.         *)
THEOREM AlwaysExclusive == Spec => []BuffersExclusive
  <1>1. ASSUME IInv, NEW i \in Ids PROVE OneOperation(i)
    <2>1. Exclusive(server[i], client[i]) /\ server[i] \in ServerStream
      BY <1>1 DEF IInv, SessionInv
    <2>2. Live(i) => server[i].closing = {}
      BY <1>1 DEF IInv, SessionInv, Live
    <2>3. QED BY <2>1, <2>2 DEF OneOperation, Exclusive, ServerStream
  <1>2. IInv => BuffersExclusive
    BY <1>1 DEF BuffersExclusive
  <1>3. QED BY <1>2, Invariance, PTL

(* A relaying session has lost no chunk. *)
THEOREM NeverLost == Spec => []NothingLost
  <1>1. IInv => NothingLost
    BY DEF IInv, SessionInv, Relaying, NothingLost, Conserved
  <1>2. QED BY <1>1, Invariance, PTL

(* The client hears at most two answers, the second tells what became of    *)
(* its request, and chunks pass only after "succeeded".                     *)
THEOREM AlwaysTruthful == Spec => []Transcript
  <1>1. IInv => Transcript
    <2> SUFFICES ASSUME IInv, NEW i \in Ids
                 PROVE  /\ Len(server[i].said) \leq 2
                        /\ Len(server[i].said) > 0 => server[i].said[1] \in Welcomes
                        /\ Len(server[i].said) = 2 => Truthful(server[i].said[2], client[i])
                        /\ server[i].got + client[i].got > 0 =>
                               Len(server[i].said) = 2 /\ server[i].said[2] = "succeeded"
                        /\ client[i].said = <<>>
      BY DEF Transcript, Truthful, Welcomes
    <2>1. Spoken(server[i], client[i])
      BY DEF IInv, SessionInv
    <2> DEFINE s == server[i]
               c == client[i]
               said == server[i].said
    <2>2. /\ Spoken(s, c) /\ s.got \in Nat /\ c.got \in Nat /\ said \in Seq(Kinds)
          /\ s.said = said
      BY <2>1 DEF IInv, SessionInv, ServerStream, ClientStream
    <2>3. QED
      <3> HIDE DEF s, c, said
      <3> SUFFICES /\ Len(said) \leq 2
                   /\ Len(said) > 0 => said[1] \in Welcomes
                   /\ Len(said) = 2 => Truthful(said[2], c)
                   /\ s.got + c.got > 0 => Len(said) = 2 /\ said[2] = "succeeded"
                   /\ c.said = <<>>
        BY DEF s, c, said
      <3>1. CASE said = <<>> /\ s.got = 0 /\ c.got = 0
        <4>1. Len(said) = 0 /\ s.got + c.got = 0
          BY <3>1
        <4>2. QED BY <2>2, <4>1 DEF Spoken
      <3>2. CASE Greeted(said) /\ s.got = 0 /\ c.got = 0
        <4>1. Len(said) = 1 /\ said[1] \in Welcomes /\ s.got + c.got = 0
          BY <3>2 DEF Greeted
        <4>2. QED BY <2>2, <4>1 DEF Spoken
      <3>3. CASE /\ Len(said) = 2 /\ said[1] \in Welcomes /\ Truthful(said[2], c)
                 /\ s.got + c.got > 0 => said[2] = "succeeded"
        BY <2>2, <3>3 DEF Spoken
      <3>4. QED BY <2>2, <3>1, <3>2, <3>3 DEF Spoken
  <1>2. QED BY <1>1, Invariance, PTL

(* A resolution or a connect always belongs to a session that waits for it. *)
THEOREM AlwaysOwned == Spec => []ConnectOwned
  <1>1. IInv => ConnectOwned
    BY DEF IInv, SessionInv, ConnectOwned, ConnectStates
  <1>2. QED BY <1>1, Invariance, PTL

-----------------------------------------------------------------------------
(* What a step may never do to a session that was erased.  Only a           *)
(* completion of session j changes session j; if j is no longer in the map, *)
(* the handler finds nothing and leaves j as its stream left it: with one   *)
(* operation less.                                                          *)

LEMMA ReadyQuiet ==
    ASSUME IInv, NEW i \in Ids, NEW j \in Ids, on_server_ready(j)
    PROVE  NoNewOperation(i)
  <1>1. server[j] \in ServerStream /\ client[j] \in ClientStream /\ CoreTypeOK(States)
    BY DEF IInv, CoreTypeOK
  <1>2. CASE session[j] = Erased
    <2>1. Ignored(j, server_ready(server[j]), client[j])
      BY <1>2 DEF on_server_ready, Erased
    <2>2. Shrinks(server[j], client[j], server_ready(server[j]), client[j])
      BY <1>1, CompletionShrinks
    <2>3. QED BY <1>1, <1>2, <2>1, <2>2, QuietWhenIgnored
  <1>3. CASE session[j] # Erased
    BY <1>1, <1>3, QuietWhenLive DEF on_server_ready, SocksWaitConnection_handle_on_accept, Ignored
  <1>4. QED BY <1>2, <1>3

(* Only a session that connects has a resolution that can go on to connect. *)
LEMMA ConnectingQuiet ==
    ASSUME IInv, NEW i \in Ids, NEW j \in Ids, resolved(j) \/ on_connect(j)
    PROVE  NoNewOperation(i)
  <1>1. session[j] = "SocksConnectionEstablished" /\ CoreTypeOK(States)
    BY DEF IInv, SessionInv, resolved, on_connect
  <1>2. CASE resolved(j)
    BY <1>1, <1>2, QuietWhenLive DEF resolved, Ignored, Erased
  <1>3. CASE on_connect(j)
    BY <1>1, <1>3, QuietWhenLive
       DEF on_connect, SocksConnectionEstablished_handle_client_connect, Erased
  <1>4. QED BY <1>2, <1>3

LEMMA ServerReadQuiet ==
    ASSUME IInv, NEW i \in Ids, NEW j \in Ids, on_server_read(j)
    PROVE  NoNewOperation(i)
  <1>1. /\ server[j] \in ServerStream /\ client[j] \in ClientStream /\ CoreTypeOK(States)
        /\ server[j].reads > 0
    BY DEF IInv, CoreTypeOK, on_server_read
  <1>2. CASE session[j] = Erased
    <2>1. Ignored(j, server_read_ok(server[j]), client[j])
      BY <1>2 DEF on_server_read, Erased
    <2>2. Shrinks(server[j], client[j], server_read_ok(server[j]), client[j])
      BY <1>1, CompletionShrinks
    <2>3. QED BY <1>1, <1>2, <2>1, <2>2, QuietWhenIgnored
  <1> DEFINE s == server_read_ok(server[j])
             c == client[j]
  <1>3. CASE session[j] # Erased
    <2>1. CASE session[j] = "SocksAuthRequest"
      <3>1. SocksAuthRequest_handle_server_read(j, s, c)
        BY <2>1 DEF on_server_read
      <3> HIDE DEF s, c
      <3>2. \E st, t, d : Handled(j, st, t, d)
        BY <3>1 DEF SocksAuthRequest_handle_server_read
      <3>3. QED BY <1>1, <1>3, <3>2, QuietWhenLive
    <2>2. CASE session[j] = "SocksConnectionRequest"
      <3>1. SocksConnectionRequest_handle_server_read(j, s, c)
        BY <2>2 DEF on_server_read
      <3> HIDE DEF s, c
      <3>2. \E st, t, d : Handled(j, st, t, d)
        BY <3>1, InputsAssumption
           DEF SocksConnectionRequest_handle_server_read, stop, StopBoth, RequestKinds
      <3>3. QED BY <1>1, <1>3, <3>2, QuietWhenLive
    <2>3. CASE session[j] = "SocksDataTransferMode"
      <3>1. SocksDataTransferMode_handle_server_read(j, s, c)
        BY <2>3 DEF on_server_read
      <3> HIDE DEF s, c
      <3>2. \E st, t, d : Handled(j, st, t, d)
        BY <3>1 DEF SocksDataTransferMode_handle_server_read
      <3>3. QED BY <1>1, <1>3, <3>2, QuietWhenLive
    <2>4. CASE session[j] \notin {"SocksAuthRequest", "SocksConnectionRequest", "SocksDataTransferMode"}
      BY <1>1, <1>3, <2>4, QuietWhenLive DEF on_server_read, Ignored
    <2>5. QED BY <2>1, <2>2, <2>3, <2>4
  <1>4. QED BY <1>2, <1>3

LEMMA ServerWriteQuiet ==
    ASSUME IInv, NEW i \in Ids, NEW j \in Ids, on_server_write(j)
    PROVE  NoNewOperation(i)
  <1>1. /\ server[j] \in ServerStream /\ client[j] \in ClientStream /\ CoreTypeOK(States)
        /\ server[j].writes > 0
    BY DEF IInv, CoreTypeOK, on_server_write
  <1>2. CASE session[j] = Erased
    <2>1. Ignored(j, server_write_ok(server[j]), client[j])
      BY <1>2 DEF on_server_write, Erased
    <2>2. Shrinks(server[j], client[j], server_write_ok(server[j]), client[j])
      BY <1>1, CompletionShrinks
    <2>3. QED BY <1>1, <1>2, <2>1, <2>2, QuietWhenIgnored
  <1>3. CASE session[j] # Erased
    BY <1>1, <1>3, QuietWhenLive
       DEF on_server_write, Ignored, stop, StopBoth, SocksConnectionRequest_handle_server_write,
           SocksConnectionEstablished_handle_server_write,
           SocksReadyTransferData_handle_server_write, SocksDataTransferMode_handle_server_write
  <1>4. QED BY <1>2, <1>3

LEMMA ClientReadQuiet ==
    ASSUME IInv, NEW i \in Ids, NEW j \in Ids, on_client_read(j)
    PROVE  NoNewOperation(i)
  <1>1. /\ server[j] \in ServerStream /\ client[j] \in ClientStream /\ CoreTypeOK(States)
        /\ client[j].reads > 0
    BY DEF IInv, CoreTypeOK, on_client_read
  <1>2. CASE session[j] = Erased
    <2>1. Ignored(j, server[j], client_read_ok(client[j]))
      BY <1>2 DEF on_client_read, Erased
    <2>2. Shrinks(server[j], client[j], server[j], client_read_ok(client[j]))
      BY <1>1, CompletionShrinks
    <2>3. QED BY <1>1, <1>2, <2>1, <2>2, QuietWhenIgnored
  <1>3. CASE session[j] # Erased
    BY <1>1, <1>3, QuietWhenLive
       DEF on_client_read, Ignored, SocksDataTransferMode_handle_client_read
  <1>4. QED BY <1>2, <1>3

LEMMA ClientWriteQuiet ==
    ASSUME IInv, NEW i \in Ids, NEW j \in Ids, on_client_write(j)
    PROVE  NoNewOperation(i)
  <1>1. /\ server[j] \in ServerStream /\ client[j] \in ClientStream /\ CoreTypeOK(States)
        /\ client[j].writes > 0
    BY DEF IInv, CoreTypeOK, on_client_write
  <1>2. CASE session[j] = Erased
    <2>1. Ignored(j, server[j], client_write_ok(client[j]))
      BY <1>2 DEF on_client_write, Erased
    <2>2. Shrinks(server[j], client[j], server[j], client_write_ok(client[j]))
      BY <1>1, CompletionShrinks
    <2>3. QED BY <1>1, <1>2, <2>1, <2>2, QuietWhenIgnored
  <1>3. CASE session[j] # Erased
    BY <1>1, <1>3, QuietWhenLive
       DEF on_client_write, Ignored, SocksDataTransferMode_handle_client_write
  <1>4. QED BY <1>2, <1>3

LEMMA ServerErrorQuiet ==
    ASSUME IInv, NEW i \in Ids, NEW j \in Ids, on_server_error(j)
    PROVE  NoNewOperation(i)
  <1>1. server[j] \in ServerStream /\ client[j] \in ClientStream /\ CoreTypeOK(States)
    BY DEF IInv, CoreTypeOK
  <1>2. PICK op \in ServerFailures(server[j]) :
            IF Live(j) THEN SocksState_handle_server_error(j, server_failed(server[j], op), client[j])
                       ELSE Ignored(j, server_failed(server[j], op), client[j])
    BY DEF on_server_error
  <1>3. CASE session[j] = Erased
    <2>1. Ignored(j, server_failed(server[j], op), client[j])
      BY <1>2, <1>3 DEF Live
    <2>2. Shrinks(server[j], client[j], server_failed(server[j], op), client[j])
      BY <1>1, CompletionShrinks
    <2>3. QED BY <1>1, <1>3, <2>1, <2>2, QuietWhenIgnored
  <1>4. CASE session[j] # Erased
    BY <1>1, <1>2, <1>4, QuietWhenLive DEF Live, SocksState_handle_server_error, stop, StopBoth
  <1>5. QED BY <1>3, <1>4

LEMMA ClientErrorQuiet ==
    ASSUME IInv, NEW i \in Ids, NEW j \in Ids, on_client_error(j)
    PROVE  NoNewOperation(i)
  <1>1. server[j] \in ServerStream /\ client[j] \in ClientStream /\ CoreTypeOK(States)
    BY DEF IInv, CoreTypeOK
  <1>2. PICK op \in ClientFailures(client[j]) :
            CASE session[j] = "SocksConnectionEstablished" ->
                     SocksConnectionEstablished_handle_client_error(j, server[j], client_failed(client[j], op))
              [] session[j] = Erased -> Ignored(j, server[j], client_failed(client[j], op))
              [] OTHER -> SocksState_handle_client_error(j, server[j], client_failed(client[j], op))
    BY DEF on_client_error
  <1>3. CASE session[j] = Erased
    <2>1. Ignored(j, server[j], client_failed(client[j], op))
      BY <1>2, <1>3 DEF Erased
    <2>2. Shrinks(server[j], client[j], server[j], client_failed(client[j], op))
      BY <1>1, CompletionShrinks
    <2>3. QED BY <1>1, <1>3, <2>1, <2>2, QuietWhenIgnored
  <1>4. CASE session[j] # Erased
    BY <1>1, <1>2, <1>4, QuietWhenLive
       DEF SocksConnectionEstablished_handle_client_error, SocksState_handle_client_error, stop, StopBoth
  <1>5. QED BY <1>3, <1>4

LEMMA ServerClosedQuiet ==
    ASSUME IInv, NEW i \in Ids, NEW j \in Ids, on_server_closed(j)
    PROVE  NoNewOperation(i)
  <1>1. server[j] \in ServerStream /\ client[j] \in ClientStream /\ CoreTypeOK(States)
    BY DEF IInv, CoreTypeOK
  <1>2. PICK op \in server[j].closing, failed \in BOOLEAN :
            IF failed /\ Live(j) THEN SocksState_handle_server_error(j, server_closed(server[j], op), client[j])
                                 ELSE Ignored(j, server_closed(server[j], op), client[j])
    BY DEF on_server_closed
  <1>3. CASE session[j] = Erased
    <2>1. Ignored(j, server_closed(server[j], op), client[j])
      BY <1>2, <1>3 DEF Live
    <2>2. Shrinks(server[j], client[j], server_closed(server[j], op), client[j])
      BY <1>1, CompletionShrinks
    <2>3. QED BY <1>1, <1>3, <2>1, <2>2, QuietWhenIgnored
  <1>4. CASE session[j] # Erased
    BY <1>1, <1>2, <1>4, QuietWhenLive DEF Live, SocksState_handle_server_error, stop, StopBoth, Ignored
  <1>5. QED BY <1>3, <1>4

LEMMA StepQuiet == IInv /\ Next => \A i \in Ids : NoNewOperation(i)
  <1> SUFFICES ASSUME IInv, Next, NEW i \in Ids PROVE NoNewOperation(i)
    OBVIOUS
  <1>1. CoreTypeOK(States)
    BY DEF IInv
  <1>2. CASE signal
    BY <1>1, <1>2, SignalQuiet
  <1>3. ASSUME NEW j \in Ids,
               on_accept(j) \/ on_server_ready(j) \/ ServerStep(j) \/ ClientStep(j)
        PROVE  NoNewOperation(i)
    <2>1. CASE on_accept(j)
      BY <1>1, <2>1, AcceptQuiet DEF on_accept
    <2>2. CASE on_server_ready(j)
      BY <2>2, ReadyQuiet
    <2>3. CASE ServerStep(j)
      BY <2>3, ServerReadQuiet, ServerWriteQuiet, ServerErrorQuiet, ServerClosedQuiet
         DEF ServerStep
    <2>4. CASE ClientStep(j)
      BY <2>4, ConnectingQuiet, ClientReadQuiet, ClientWriteQuiet, ClientErrorQuiet
         DEF ClientStep
    <2>5. QED BY <1>3, <2>1, <2>2, <2>3, <2>4
  <1>4. QED BY <1>2, <1>3 DEF Next

(* No step revives an erased session or starts an operation on its streams: *)
(* every callback of SocksStreamManager looks the session up before it acts.  *)
THEOREM StaysQuiet == Spec => ClosedStaysQuiet
  <1>1. IInv /\ [Next]_vars => [\A i \in Ids : NoNewOperation(i)]_vars
    BY StepQuiet
  <1>2. QED BY <1>1, Invariance, PTL DEF Spec, ClosedStaysQuiet
-----------------------------------------------------------------------------
(* The SOCKS proxy implements tunnels: each action advances one session     *)
(* (RelayProofs).  The answers that open a relay are writes too, but carry *)
(* no chunk, so they leave the tunnel as it is.                             *)

LEMMA Pending ==
    ASSUME IInv, NEW i \in Ids, ~(ServerQuiet(server[i]) /\ ClientQuiet(client[i]))
    PROVE  /\ i \leq stream_id /\ CoreTypeOK(States)
           /\ server[i] \in ServerStream /\ client[i] \in ClientStream
           /\ Exclusive(server[i], client[i])
           /\ SessionInv(session[i], server[i], client[i])
  <1>1. i \leq stream_id
    BY Accepted
  <1>2. SessionInv(session[i], server[i], client[i]) /\ CoreTypeOK(States)
    BY DEF IInv
  <1>3. QED BY <1>1, <1>2 DEF SessionInv

LEMMA IsRelay ==
    ASSUME NEW st, NEW s, NEW c, SessionInv(st, s, c), st = "SocksDataTransferMode"
    PROVE  Relay(s, c) /\ st \in RelayStates
  BY DEF SessionInv, Relay, RelayStates, Erased

LEMMA Opens ==
    ASSUME NEW st \in Opening
    PROVE  st \notin RelayStates \cup {Erased}
  BY DEF Opening, States, RelayStates, Erased

LEMMA ReadyMaps ==
    ASSUME IInv, InFlight, NEW i \in Ids, on_server_ready(i)
    PROVE  Refines
  <1> DEFINE s == server[i]
             c == client[i]
             r == server_ready(s)
             t == server_read(r)
  <1>1. s.starting = TRUE
    BY DEF on_server_ready, IInv, CoreTypeOK, ServerStream
  <1>2. /\ i \leq stream_id /\ CoreTypeOK(States) /\ s \in ServerStream /\ c \in ClientStream
    BY <1>1, Pending DEF ServerQuiet
  <1>3. Keeps(s, r) /\ Keeps(c, c) /\ r \in ServerStream
    BY <1>2, ServerKeeps, ClientKeeps, ServerReady
  <1>4. CASE session[i] = "SocksWaitConnection"
    <2>1. Changes(i, "SocksAuthRequest", t, c)
      BY <1>4, HandledIsChange DEF on_server_ready, SocksWaitConnection_handle_on_accept
    <2>2. Keeps(s, t)
      BY <1>3, ServerKeeps, KeepsOn
    <2>3. PhaseStep(session[i], "SocksAuthRequest")
      BY <1>4, Opens, Phases DEF Opening, States
    <2>4. QED BY <1>2, <1>3, <2>1, <2>2, <2>3, KeepsMaps
  <1>5. CASE session[i] # "SocksWaitConnection"
    <2>1. Ignored(i, r, c)
      BY <1>5 DEF on_server_ready
    <2>2. QED BY <1>2, <1>3, <2>1, IgnoredMaps
  <1>6. QED BY <1>4, <1>5

LEMMA ResolvedMaps ==
    ASSUME IInv, InFlight, NEW i \in Ids, resolved(i)
    PROVE  Refines
  <1>1. client[i].phase = "resolving" /\ Ignored(i, server[i], client_resolved(client[i]))
    BY DEF resolved
  <1>2. /\ i \leq stream_id /\ CoreTypeOK(States)
        /\ server[i] \in ServerStream /\ client[i] \in ClientStream
    BY <1>1, Pending DEF ClientQuiet
  <1>3. Keeps(server[i], server[i]) /\ Keeps(client[i], client_resolved(client[i]))
    BY <1>2, ServerKeeps, ClientKeeps
  <1>4. QED BY <1>1, <1>2, <1>3, IgnoredMaps

LEMMA ConnectMaps ==
    ASSUME IInv, InFlight, NEW i \in Ids, on_connect(i)
    PROVE  Refines
  <1> DEFINE s == server[i]
             c == client[i]
             t == server_write(s, Message("succeeded"))
             d == client_connected(c)
  <1>1. c.phase = "connecting"
    BY DEF on_connect
  <1>2. /\ i \leq stream_id /\ CoreTypeOK(States) /\ s \in ServerStream /\ c \in ClientStream
        /\ session[i] = "SocksConnectionEstablished"
    BY <1>1, Pending DEF ClientQuiet, SessionInv
  <1>3. Changes(i, "SocksReadyTransferData", t, d)
    BY <1>2, HandledIsChange DEF on_connect, SocksConnectionEstablished_handle_client_connect
  <1>4. Keeps(s, t) /\ Keeps(c, d)
    BY <1>2, ServerKeeps, ClientKeeps DEF Kinds
  <1>5. PhaseStep(session[i], "SocksReadyTransferData")
    BY <1>2, Opens, Phases DEF Opening, States
  <1>6. QED BY <1>2, <1>3, <1>4, <1>5, KeepsMaps

(* The greeting, the request, or a chunk is read. *)
LEMMA ServerReadMaps ==
    ASSUME IInv, InFlight, NEW i \in Ids, on_server_read(i)
    PROVE  Refines
  <1> DEFINE s == server[i]
             c == client[i]
             t == server_read_ok(s)
  <1>1. s.reads > 0
    BY DEF on_server_read
  <1>2. /\ i \leq stream_id /\ CoreTypeOK(States) /\ s \in ServerStream /\ c \in ClientStream
        /\ SessionInv(session[i], s, c)
    BY <1>1, Pending DEF ServerQuiet
  <1>3. Keeps(s, t) /\ Keeps(c, c) /\ t \in ServerStream
    BY <1>1, <1>2, ServerKeeps, ClientKeeps, ServerReadOk
  <1>4. \A k \in Kinds \ {"data"} :
            Keeps(s, server_write(t, Message(k))) /\ server_write(t, Message(k)) \in ServerStream
    BY <1>3, ServerKeeps, KeepsOn, WriteType, ContentType
  <1>5. CASE session[i] = "SocksAuthRequest"
    <2>1. PICK greeting \in Greetings :
              Handled(i, "SocksConnectionRequest",
                      server_write(t, Message(IF greeting = "noauth" THEN "NoAuth"
                                                                     ELSE "NotSupported")), c)
      BY <1>5 DEF on_server_read, SocksAuthRequest_handle_server_read
    <2>2. PICK k \in {"NoAuth", "NotSupported"} :
              Handled(i, "SocksConnectionRequest", server_write(t, Message(k)), c)
      BY <2>1
    <2>3. Keeps(s, server_write(t, Message(k)))
      BY <1>4 DEF Kinds
    <2>4. PhaseStep(session[i], "SocksConnectionRequest")
      BY <1>5, Opens, Phases DEF Opening, States
    <2>5. QED BY <1>2, <1>3, <2>2, <2>3, <2>4, KeepsMaps, HandledIsChange
  <1>6. CASE session[i] = "SocksConnectionRequest"
    <2> DEFINE b == IF c.made THEN c ELSE TcpClientStream_create
               d == TcpClientStream_start(b)
               u == server_write(t, Message("command_not_supported"))
    <2>1. \/ Handled(i, "SocksConnectionEstablished", t, d)
          \/ StopBoth(i, u, c)
          \/ StopBoth(i, t, c)
      BY <1>6, InputsAssumption
         DEF on_server_read, SocksConnectionRequest_handle_server_read, stop, RequestKinds
    <2>2. c.got = 0 /\ c.put = <<>>
      BY <1>2, <1>6 DEF SessionInv, Opening, States, Untouched
    <2>3. b \in ClientStream /\ Keeps(c, b)
      BY <1>2, <1>3, <2>2, CreateType, ClientKeeps
    <2>4. Keeps(c, d)
      <3>1. Keeps(b, d)
        BY <2>3, ClientKeeps
      <3>2. QED BY <2>3, <3>1, KeepsOn
    <2>5. u \in ServerStream /\ Keeps(s, u)
      BY <1>4 DEF Kinds
    <2>6. PhaseStep(session[i], "SocksConnectionEstablished")
      BY <1>6, Opens, Phases DEF Opening, States
    <2> HIDE DEF b, d, u, t
    <2>7. CASE Handled(i, "SocksConnectionEstablished", t, d)
      BY <1>2, <1>3, <2>4, <2>6, <2>7, KeepsMaps, HandledIsChange
    <2>8. CASE StopBoth(i, u, c)
      BY <1>2, <1>3, <2>5, <2>8, StopMaps
    <2>9. CASE StopBoth(i, t, c)
      BY <1>2, <1>3, <2>9, StopMaps
    <2>10. QED BY <2>1, <2>7, <2>8, <2>9
  <1>7. CASE session[i] = "SocksDataTransferMode"
    <2>1. Handled(i, session[i], Take(t), client_write(c, Data(t.got + 1)))
      BY <1>7 DEF on_server_read, SocksDataTransferMode_handle_server_read
    <2>2. QED BY <1>1, <1>2, <1>7, <2>1, IsRelay, ReadUpMaps
  <1>8. CASE session[i] \notin {"SocksAuthRequest", "SocksConnectionRequest", "SocksDataTransferMode"}
    <2>1. Ignored(i, t, c)
      BY <1>8 DEF on_server_read
    <2>2. QED BY <1>2, <1>3, <2>1, IgnoredMaps
  <1>9. QED BY <1>5, <1>6, <1>7, <1>8

LEMMA ClientReadMaps ==
    ASSUME IInv, InFlight, NEW i \in Ids, on_client_read(i)
    PROVE  Refines
  <1> DEFINE s == server[i]
             c == client[i]
             d == client_read_ok(c)
  <1>1. c.reads > 0
    BY DEF on_client_read
  <1>2. /\ i \leq stream_id /\ CoreTypeOK(States) /\ s \in ServerStream /\ c \in ClientStream
        /\ SessionInv(session[i], s, c)
    BY <1>1, Pending DEF ClientQuiet
  <1>3. CASE session[i] = "SocksDataTransferMode"
    <2>1. Handled(i, session[i], server_write(s, Data(d.got + 1)), Take(d))
      BY <1>3 DEF on_client_read, SocksDataTransferMode_handle_client_read
    <2>2. QED BY <1>1, <1>2, <1>3, <2>1, IsRelay, ReadDownMaps
  <1>4. CASE session[i] # "SocksDataTransferMode"
    <2>1. Ignored(i, s, d)
      BY <1>4 DEF on_client_read
    <2>2. Keeps(s, s) /\ Keeps(c, d)
      BY <1>1, <1>2, ServerKeeps, ClientKeeps
    <2>3. QED BY <1>2, <2>1, <2>2, IgnoredMaps
  <1>5. QED BY <1>3, <1>4

(* An answer is written, or a chunk. *)
LEMMA ServerWriteMaps ==
    ASSUME IInv, InFlight, NEW i \in Ids, on_server_write(i)
    PROVE  Refines
  <1> DEFINE s == server[i]
             c == client[i]
             t == server_write_ok(s)
  <1>1. s.writes > 0
    BY DEF on_server_write
  <1>2. /\ i \leq stream_id /\ CoreTypeOK(States) /\ s \in ServerStream /\ c \in ClientStream
        /\ Exclusive(s, c) /\ SessionInv(session[i], s, c)
    BY <1>1, Pending DEF ServerQuiet
  <1>3. Keeps(c, c) /\ Keeps(c, client_read(c))
    BY <1>2, ClientKeeps
  <1>4. t \in ServerStream
    BY <1>1, <1>2, ServerWriteOk
  <1>5. ASSUME session[i] \in {"SocksConnectionRequest", "SocksConnectionEstablished",
                              "SocksReadyTransferData"}
        PROVE  Keeps(s, t) /\ Keeps(s, server_read(t))
    <2>1. s.wbuf.kind \in {"NoAuth", "NotSupported", "failed", "succeeded"}
      <3>1. Waiting(session[i], s, c)
        BY <1>2, <1>5 DEF SessionInv, Opening, States
      <3>2. CASE session[i] = "SocksConnectionRequest"
        BY <1>1, <3>1, <3>2 DEF Waiting, Welcomes
      <3>3. CASE session[i] = "SocksConnectionEstablished"
        BY <1>1, <3>1, <3>3 DEF Waiting
      <3>4. CASE session[i] = "SocksReadyTransferData"
        BY <1>1, <3>1, <3>4 DEF Waiting
      <3>5. QED BY <1>5, <3>2, <3>3, <3>4
    <2>2. Keeps(s, t)
      BY <1>1, <1>2, <2>1, ServerKeeps
    <2>3. QED BY <1>4, <2>2, ServerKeeps, KeepsOn
  <1>6. CASE session[i] = "SocksConnectionRequest"
    <2>1. Changes(i, session[i], server_read(t), c)
      BY <1>6, HandledIsChange DEF on_server_write, SocksConnectionRequest_handle_server_write
    <2>2. QED BY <1>2, <1>3, <1>5, <1>6, <2>1, KeepsMaps, Phases
  <1>7. CASE session[i] = "SocksConnectionEstablished"
    <2>1. StopBoth(i, t, c)
      BY <1>7 DEF on_server_write, SocksConnectionEstablished_handle_server_write, stop
    <2>2. QED BY <1>2, <1>3, <1>4, <1>5, <1>7, <2>1, StopMaps
  <1>8. CASE session[i] = "SocksReadyTransferData"
    <2>1. Changes(i, "SocksDataTransferMode", server_read(t), client_read(c))
      BY <1>8, HandledIsChange DEF on_server_write, SocksReadyTransferData_handle_server_write
    <2>2. PhaseStep(session[i], "SocksDataTransferMode")
      BY <1>8, Opens, Phases DEF Opening, States
    <2>3. QED BY <1>2, <1>3, <1>5, <1>8, <2>1, <2>2, KeepsMaps
  <1>9. CASE session[i] \notin {"SocksConnectionRequest", "SocksConnectionEstablished",
                                "SocksReadyTransferData"}
    <2>1. \E d \in {c, client_read(c)} : Handled(i, session[i], t, d)
      BY <1>9 DEF on_server_write, SocksDataTransferMode_handle_server_write, Ignored
    <2>2. QED BY <1>1, <1>2, <1>3, <2>1, WriteDownMaps
  <1>10. QED BY <1>6, <1>7, <1>8, <1>9

LEMMA ClientWriteMaps ==
    ASSUME IInv, InFlight, NEW i \in Ids, on_client_write(i)
    PROVE  Refines
  <1> DEFINE s == server[i]
             c == client[i]
             d == client_write_ok(c)
  <1>1. c.writes > 0
    BY DEF on_client_write
  <1>2. /\ i \leq stream_id /\ CoreTypeOK(States) /\ s \in ServerStream /\ Exclusive(s, c)
    BY <1>1, Pending DEF ClientQuiet
  <1>3. \E t \in {s, server_read(s)} : Handled(i, session[i], t, d)
    BY DEF on_client_write, SocksDataTransferMode_handle_client_write, Ignored
  <1>4. Keeps(s, s) /\ Keeps(s, server_read(s))
    BY <1>2, ServerKeeps
  <1>5. QED BY <1>1, <1>2, <1>3, <1>4, WriteUpMaps

LEMMA ServerErrorMaps ==
    ASSUME IInv, InFlight, NEW i \in Ids, on_server_error(i)
    PROVE  Refines
  <1> DEFINE s == server[i]
             c == client[i]
  <1>1. PICK op \in ServerFailures(s) :
            IF Live(i) THEN SocksState_handle_server_error(i, server_failed(s, op), c)
                       ELSE Ignored(i, server_failed(s, op), c)
    BY DEF on_server_error
  <1> DEFINE t == server_failed(s, op)
  <1>2. ~ServerQuiet(s)
    <2>1. s \in ServerStream
      BY DEF IInv, CoreTypeOK
    <2>2. QED BY <1>1, <2>1 DEF ServerQuiet, ServerFailures, ServerStream
  <1>3. /\ i \leq stream_id /\ CoreTypeOK(States) /\ s \in ServerStream /\ c \in ClientStream
    BY <1>2, Pending
  <1>4. t \in ServerStream /\ Keeps(s, t) /\ Keeps(c, c)
    BY <1>1, <1>3, ServerFailed, ServerKeeps, ClientKeeps
  <1>5. StopBoth(i, t, c) \/ Ignored(i, t, c)
    BY <1>1 DEF SocksState_handle_server_error, stop
  <1> HIDE DEF t
  <1>6. QED BY <1>3, <1>4, <1>5, StopMaps, IgnoredMaps

(* A failed connect is answered before the session ends. *)
LEMMA ClientErrorMaps ==
    ASSUME IInv, InFlight, NEW i \in Ids, on_client_error(i)
    PROVE  Refines
  <1> DEFINE s == server[i]
             c == client[i]
  <1>1. PICK op \in ClientFailures(c) :
            LET d == client_failed(c, op)
            IN CASE session[i] = "SocksConnectionEstablished" ->
                        SocksConnectionEstablished_handle_client_error(i, s, d)
                 [] session[i] = Erased -> Ignored(i, s, d)
                 [] OTHER -> SocksState_handle_client_error(i, s, d)
    BY DEF on_client_error
  <1> DEFINE d == client_failed(c, op)
             t == server_write(s, Message("failed"))
  <1>2. ~ClientQuiet(c)
    <2>1. c \in ClientStream
      BY DEF IInv, CoreTypeOK
    <2>2. QED BY <1>1, <2>1 DEF ClientQuiet, ClientFailures, ClientStream
  <1>3. /\ i \leq stream_id /\ CoreTypeOK(States) /\ s \in ServerStream /\ c \in ClientStream
    BY <1>2, Pending
  <1>4. /\ d \in ClientStream /\ Keeps(c, d) /\ Keeps(s, s) /\ Keeps(s, t)
    BY <1>1, <1>3, ClientFailed, ServerKeeps, ClientKeeps DEF Kinds
  <1>5. \/ Handled(i, session[i], t, d) \/ StopBoth(i, s, d) \/ Ignored(i, s, d)
    BY <1>1 DEF SocksConnectionEstablished_handle_client_error,
                SocksState_handle_client_error, stop, Erased
  <1> HIDE DEF d, t
  <1>6. CASE Handled(i, session[i], t, d)
    BY <1>3, <1>4, <1>6, KeepsMaps, HandledIsChange, Phases
  <1>7. CASE StopBoth(i, s, d)
    BY <1>3, <1>4, <1>7, StopMaps
  <1>8. CASE Ignored(i, s, d)
    BY <1>3, <1>4, <1>8, IgnoredMaps
  <1>9. QED BY <1>5, <1>6, <1>7, <1>8

LEMMA ServerClosedMaps ==
    ASSUME IInv, InFlight, NEW i \in Ids, on_server_closed(i)
    PROVE  Refines
  <1> DEFINE s == server[i]
             c == client[i]
  <1>1. PICK op \in s.closing, failed \in BOOLEAN :
            IF failed /\ Live(i) THEN SocksState_handle_server_error(i, server_closed(s, op), c)
                                 ELSE Ignored(i, server_closed(s, op), c)
    BY DEF on_server_closed
  <1> DEFINE t == server_closed(s, op)
  <1>2. /\ i \leq stream_id /\ CoreTypeOK(States) /\ s \in ServerStream /\ c \in ClientStream
    BY <1>1, Pending DEF ServerQuiet
  <1>3. t \in ServerStream /\ Keeps(s, t) /\ Keeps(c, c)
    BY <1>2, ServerClosed, ServerKeeps, ClientKeeps
  <1>4. StopBoth(i, t, c) \/ Ignored(i, t, c)
    BY <1>1 DEF SocksState_handle_server_error, stop
  <1> HIDE DEF t
  <1>5. QED BY <1>2, <1>3, <1>4, StopMaps, IgnoredMaps

LEMMA StepRefines == IInv /\ InFlight /\ [Next]_vars => Refines
  <1> SUFFICES ASSUME IInv, InFlight, [Next]_vars PROVE Refines
    OBVIOUS
  <1>1. CASE signal \/ UNCHANGED vars
    BY <1>1, OtherMaps DEF signal, vars, coreVars
  <1>2. ASSUME NEW i \in Ids,
               on_accept(i) \/ on_server_ready(i) \/ ServerStep(i) \/ ClientStep(i)
        PROVE  Refines
    <2>1. CASE on_accept(i)
      BY <2>1, AcceptMaps, Opens DEF IInv, on_accept, Opening, States
    <2>2. CASE on_server_ready(i)
      BY <2>2, ReadyMaps
    <2>3. CASE ServerStep(i)
      BY <2>3, ServerReadMaps, ServerWriteMaps, ServerErrorMaps, ServerClosedMaps DEF ServerStep
    <2>4. CASE ClientStep(i)
      BY <2>4, ResolvedMaps, ConnectMaps, ClientReadMaps, ClientWriteMaps, ClientErrorMaps
         DEF ClientStep
    <2>5. QED BY <1>2, <2>1, <2>2, <2>3, <2>4
  <1>3. QED BY <1>1, <1>2 DEF Next

(* Every behaviour of the SOCKS proxy is one of the tunnels': no answer of  *)
(* the proxy is taken for a chunk, and what the relay handlers of           *)
(* socks_state.cpp pass between the two streams arrives whole, once and in  *)
(* order, only after the request was answered.                              *)
THEOREM Implementation == Spec => Implements
  <1>1. Init => InFlight /\ T!Init
    BY InitMaps DEF Init
  <1>2. IInv /\ InFlight /\ [Next]_vars => InFlight' /\ [T!Next]_(T!vars)
    BY StepRefines DEF Refines
  <1>3. QED BY <1>1, <1>2, Invariance, PTL DEF Spec, Implements, T!Spec

(* However a session ends, it cuts off at most the last chunk of each       *)
(* direction, also over TLS, where no flag guards the write buffer.         *)
THEOREM CutsOneAtMost == Spec => []AtMostOneCut
  BY Implementation, TunnelsOrdered, PTL DEF Implements
=============================================================================
