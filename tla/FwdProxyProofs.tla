--------------------------- MODULE FwdProxyProofs ----------------------------
(***************************************************************************)
(* Safety of the tunnelling proxy for every number of sessions and chunks, *)
(* with and without TLS.                                                   *)
(*                                                                         *)
(* Armed is not inductive: whether a read or a write is really started     *)
(* depends on the flags rip and wip of TCP streams, so the invariant ties  *)
(* the flags to the counts; an error is only harmless because nothing but  *)
(* the connect is outstanding while the session connects; and the streams  *)
(* of an id that is still to be given to a connection must be untouched.   *)
(* The invariant speaks of one session at a time (SessionInv), and every   *)
(* action changes one session (HandledPreserves), so what is left for each *)
(* action is a fact about a state name and two records, without primes.    *)
(***************************************************************************)
EXTENDS FwdProxy, RelayProofs

SessionInv(st, s, c) ==
    /\ st \in States \cup {Erased} /\ s \in ServerStream /\ c \in ClientStream
    /\ Exclusive(s, c)
    /\ c.phase \in {"resolving", "connecting"} => st = "FwdConnectionEstablished"
    /\ st # Erased => Flagged(s, c)
    /\ st = "FwdWaitConnection" =>
           /\ s.starting = TRUE /\ s.reads = 0 /\ s.writes = 0 /\ s.closing = {}
           /\ c.reads = 0 /\ c.writes = 0
           /\ Untouched(s, c)
    /\ st = "FwdConnectionEstablished" =>
           /\ s.starting = FALSE /\ s.reads = 0 /\ s.writes = 0 /\ s.closing = {}
           /\ c.phase \in {"resolving", "connecting"} /\ c.reads = 0 /\ c.writes = 0
           /\ Untouched(s, c)
    /\ st = "FwdDataTransferMode" => Relaying(s, c)

IInv ==
    /\ CoreTypeOK(States)
    /\ AllFresh
    /\ \A i \in Ids : SessionInv(session[i], server[i], client[i])

-----------------------------------------------------------------------------
(* A handler that leaves a good session leaves a good proxy. *)
LEMMA HandledPreserves ==
    ASSUME IInv, NEW i \in Ids, i \leq stream_id,
           NEW st, NEW s, NEW c, SessionInv(st, s, c), Handled(i, st, s, c)
    PROVE  IInv'
  <1>1. st \in States \cup {Erased} /\ s \in ServerStream /\ c \in ClientStream
    BY DEF SessionInv
  <1>2. /\ CoreTypeOK(States)' /\ running' = running /\ stream_id' = stream_id
        /\ session'[i] = st /\ server'[i] = s /\ client'[i] = c
        /\ \A j \in Ids : j # i => /\ session'[j] = session[j]
                                   /\ server'[j] = server[j] /\ client'[j] = client[j]
    BY <1>1, HandledChanges DEF IInv
  <1>3. \A j \in Ids : SessionInv(session'[j], server'[j], client'[j])
    BY <1>2 DEF IInv
  <1>4. AllFresh'
    <2>1. \A j \in Ids : j > stream_id => j # i /\ Fresh(j)
      BY BoundsAssumption DEF IInv, AllFresh, CoreTypeOK, Ids
    <2>2. QED BY <1>2, <2>1 DEF AllFresh, Fresh
  <1>5. QED BY <1>2, <1>3, <1>4 DEF IInv

LEMMA Accepted ==
    ASSUME IInv, NEW i \in Ids, ~(ServerQuiet(server[i]) /\ ClientQuiet(client[i]))
    PROVE  i \leq stream_id
  <1>1. AllFresh /\ stream_id \in 0..MaxSessions
    BY DEF IInv, CoreTypeOK
  <1>2. QED BY <1>1, PendingAccepted

(* Stopping a session that is not connecting erases it for good. *)
LEMMA StopGood ==
    ASSUME NEW s \in ServerStream, NEW c \in ClientStream, Exclusive(s, c),
           c.phase \notin {"resolving", "connecting"}
    PROVE  SessionInv(Erased, server_stop(s), client_stop(c))
  <1>1. /\ server_stop(s) \in ServerStream /\ server_stop(s).starting = s.starting
        /\ server_stop(s).reads = s.reads /\ server_stop(s).writes = s.writes
    BY ServerStop
  <1>2. /\ client_stop(c) \in ClientStream /\ client_stop(c).phase = c.phase
        /\ client_stop(c).reads = c.reads /\ client_stop(c).writes = c.writes
    BY ClientStop
  <1>3. QED BY <1>1, <1>2 DEF SessionInv, Exclusive, Erased, States

-----------------------------------------------------------------------------
(* What each handler leaves, one lemma per callback. *)

LEMMA ReadyGood ==
    ASSUME NEW s, NEW c, SessionInv("FwdWaitConnection", s, c)
    PROVE  SessionInv("FwdConnectionEstablished", server_ready(s),
                      TcpClientStream_start(TcpClientStream_create))
  <1> DEFINE d == TcpClientStream_create
  <1>1. /\ s \in ServerStream /\ s.reads = 0 /\ s.writes = 0 /\ s.closing = {}
        /\ s.got = 0 /\ s.put = <<>>
        /\ ~Tls => s.rip = FALSE /\ s.wip = FALSE
    BY DEF SessionInv, Untouched, Flagged, Erased
  <1>2. /\ server_ready(s) \in ServerStream
        /\ server_ready(s).starting = FALSE /\ server_ready(s).closing = s.closing
        /\ server_ready(s).reads = s.reads /\ server_ready(s).rip = s.rip
        /\ server_ready(s).writes = s.writes /\ server_ready(s).wip = s.wip
        /\ server_ready(s).got = s.got /\ server_ready(s).put = s.put
    BY <1>1, ServerReady
  <1>3. /\ d \in ClientStream /\ d.reads = 0 /\ d.writes = 0 /\ d.rip = FALSE /\ d.wip = FALSE
        /\ d.got = 0 /\ d.put = <<>>
    BY CreateType
  <1> HIDE DEF d
  <1>4. /\ TcpClientStream_start(d) \in ClientStream
        /\ TcpClientStream_start(d).phase = "resolving"
        /\ TcpClientStream_start(d).reads = 0 /\ TcpClientStream_start(d).rip = FALSE
        /\ TcpClientStream_start(d).writes = 0 /\ TcpClientStream_start(d).wip = FALSE
        /\ TcpClientStream_start(d).got = 0 /\ TcpClientStream_start(d).put = <<>>
    BY <1>3, ClientStart
  <1>5. SessionInv("FwdConnectionEstablished", server_ready(s), TcpClientStream_start(d))
    BY <1>1, <1>2, <1>4 DEF SessionInv, Exclusive, Flagged, Untouched, States, Erased
  <1>6. QED BY <1>5 DEF d

LEMMA ResolvedGood ==
    ASSUME NEW st, NEW s, NEW c, SessionInv(st, s, c), c.phase = "resolving"
    PROVE  SessionInv(st, s, client_resolved(c))
  <1>1. c \in ClientStream /\ st = "FwdConnectionEstablished"
    BY DEF SessionInv
  <1>2. /\ client_resolved(c) \in ClientStream /\ client_resolved(c).phase = "connecting"
        /\ client_resolved(c).reads = c.reads /\ client_resolved(c).rip = c.rip
        /\ client_resolved(c).writes = c.writes /\ client_resolved(c).wip = c.wip
        /\ client_resolved(c).got = c.got /\ client_resolved(c).put = c.put
    BY <1>1, ClientResolved
  <1>3. QED BY <1>1, <1>2 DEF SessionInv, Exclusive, Flagged, Untouched

(* In FwdDataTransferMode a session is a relay, and nothing else. *)
LEMMA RelayGood ==
    ASSUME NEW s, NEW c
    PROVE  Relay(s, c) <=> SessionInv("FwdDataTransferMode", s, c)
  BY DEF Relay, SessionInv, Relaying, States, Erased

LEMMA ConnectGood ==
    ASSUME NEW s, NEW c, SessionInv("FwdConnectionEstablished", s, c)
    PROVE  SessionInv("FwdDataTransferMode", server_read(s), client_read(client_connected(c)))
  <1> DEFINE d == client_connected(c)
  <1>1. /\ s \in ServerStream /\ c \in ClientStream
        /\ s.starting = FALSE /\ s.closing = {} /\ s.reads = 0 /\ s.writes = 0
        /\ c.reads = 0 /\ c.writes = 0
        /\ Untouched(s, c) /\ Flagged(s, c)
    BY DEF SessionInv, Erased
  <1>2. /\ d \in ClientStream /\ d.phase = "connected"
        /\ d.reads = c.reads /\ d.rip = c.rip /\ d.writes = c.writes /\ d.wip = c.wip
        /\ d.got = c.got /\ d.put = c.put
    BY <1>1, ClientConnected
  <1> HIDE DEF d
  <1>3. Untouched(s, d) /\ Flagged(s, d) /\ d.reads = 0 /\ d.writes = 0
    BY <1>1, <1>2 DEF Untouched, Flagged
  <1>4. Relay(server_read(s), client_read(d))
    BY <1>1, <1>2, <1>3, RelayStarts
  <1>5. QED BY <1>4, RelayGood DEF d

-----------------------------------------------------------------------------
(* Completions with an error, and completions of erased sessions. *)

(* What an erased session has to keep. *)
LEMMA ErasedGood ==
    ASSUME NEW s \in ServerStream, NEW c \in ClientStream, Exclusive(s, c),
           c.phase \notin {"resolving", "connecting"}
    PROVE  SessionInv(Erased, s, c)
  BY DEF SessionInv, Erased, States

(* A session that has a server operation outstanding is not connecting; so  *)
(* its stop leaves no connect behind.                                       *)
LEMMA NotConnecting ==
    ASSUME NEW st, NEW s, NEW c, SessionInv(st, s, c),
           s.starting = TRUE \/ s.reads > 0 \/ s.writes > 0 \/ s.closing # {} \/ st = Erased
    PROVE  c.phase \notin {"resolving", "connecting"}
  BY DEF SessionInv, Erased

-----------------------------------------------------------------------------
(* Every action keeps the invariant, one lemma per action. *)

LEMMA InitGood == Init => IInv
  <1> SUFFICES ASSUME Init PROVE IInv
    OBVIOUS
  <1>1. AllFresh
    BY DEF Init, CoreInit, AllFresh, Fresh
  <1>2. SessionInv(Erased, NoServer, NoClient)
    <2>1. Exclusive(NoServer, NoClient) /\ NoClient.phase \notin {"resolving", "connecting"}
      BY InitialType DEF Exclusive, ServerQuiet, ClientQuiet
    <2>2. QED BY <2>1, InitialType, ErasedGood
  <1>3. CoreTypeOK(States)
    BY InitialType, BoundsAssumption DEF Init, CoreInit, CoreTypeOK
  <1>4. QED BY <1>1, <1>2, <1>3 DEF Init, CoreInit, IInv

LEMMA AcceptStep ==
    ASSUME IInv, NEW i \in Ids, on_accept(i)
    PROVE  IInv'
  <1>1. CoreTypeOK(States) /\ "FwdWaitConnection" \in States
    BY DEF IInv, States
  <1>2. /\ CoreTypeOK(States)' /\ running' = running /\ stream_id' = i /\ i = stream_id + 1
        /\ session'[i] = "FwdWaitConnection" /\ server'[i] = ServerStream_start
        /\ client'[i] = client[i]
        /\ \A j \in Ids : j # i => /\ session'[j] = session[j]
                                   /\ server'[j] = server[j] /\ client'[j] = client[j]
    BY <1>1, AcceptChanges DEF on_accept
  <1>3. stream_id \in Nat
    BY BoundsAssumption DEF IInv, CoreTypeOK
  <1>4. client[i] = NoClient
    BY <1>2, <1>3 DEF IInv, AllFresh, Fresh
  <1>5. SessionInv("FwdWaitConnection", ServerStream_start, NoClient)
    BY StartType, InitialType
       DEF SessionInv, Exclusive, Flagged, Untouched, ClientQuiet, States, Erased
  <1>6. \A j \in Ids : SessionInv(session'[j], server'[j], client'[j])
    BY <1>2, <1>4, <1>5 DEF IInv
  <1>7. AllFresh'
    <2>1. \A j \in Ids : j > stream_id' => j # i /\ j > stream_id
      BY <1>2, <1>3 DEF Ids
    <2>2. QED BY <1>2, <2>1 DEF IInv, AllFresh, Fresh
  <1>8. QED BY <1>2, <1>6, <1>7 DEF IInv

LEMMA ReadyStep ==
    ASSUME IInv, NEW i \in Ids, on_server_ready(i)
    PROVE  IInv'
  <1> DEFINE s == server[i]
             c == client[i]
  <1>1. SessionInv(session[i], s, c) /\ s.starting /\ i \leq stream_id
    BY Accepted DEF IInv, on_server_ready, ServerQuiet
  <1>2. s \in ServerStream /\ c \in ClientStream /\ s.starting = TRUE
    BY <1>1 DEF SessionInv, ServerStream
  <1>3. CASE session[i] = "FwdWaitConnection"
    <2>1. Handled(i, "FwdConnectionEstablished", server_ready(s),
                  TcpClientStream_start(TcpClientStream_create))
      BY <1>3 DEF on_server_ready, FwdWaitConnection_handle_on_accept, Live, Erased
    <2>2. QED BY <1>1, <1>3, <2>1, ReadyGood, HandledPreserves
  <1>4. CASE session[i] = Erased
    <2>1. Handled(i, Erased, server_ready(s), c)
      BY <1>4 DEF on_server_ready, Ignored, Live, Erased
    <2>2. /\ server_ready(s) \in ServerStream /\ server_ready(s).starting = FALSE
          /\ server_ready(s).reads = s.reads /\ server_ready(s).writes = s.writes
      BY <1>2, ServerReady
    <2>3. Exclusive(server_ready(s), c) /\ c.phase \notin {"resolving", "connecting"}
      BY <1>1, <1>4, <2>2, NotConnecting DEF SessionInv, Exclusive
    <2>4. QED BY <1>1, <1>2, <2>1, <2>2, <2>3, ErasedGood, HandledPreserves
  <1>5. CASE session[i] \in {"FwdConnectionEstablished", "FwdDataTransferMode"}
    BY <1>1, <1>2, <1>5 DEF SessionInv, Relaying
  <1>6. QED BY <1>1, <1>3, <1>4, <1>5 DEF SessionInv, States

LEMMA ResolvedStep ==
    ASSUME IInv, NEW i \in Ids, resolved(i)
    PROVE  IInv'
  <1>1. /\ SessionInv(session[i], server[i], client[i]) /\ i \leq stream_id
        /\ client[i].phase = "resolving"
    BY Accepted DEF IInv, resolved, ClientQuiet
  <1>2. Handled(i, session[i], server[i], client_resolved(client[i]))
    BY DEF resolved, Ignored
  <1>3. QED BY <1>1, <1>2, ResolvedGood, HandledPreserves

LEMMA ConnectStep ==
    ASSUME IInv, NEW i \in Ids, on_connect(i)
    PROVE  IInv'
  <1>1. /\ SessionInv(session[i], server[i], client[i]) /\ i \leq stream_id
        /\ session[i] = "FwdConnectionEstablished"
    BY Accepted DEF IInv, on_connect, ClientQuiet, SessionInv
  <1>2. Handled(i, "FwdDataTransferMode", server_read(server[i]),
                client_read(client_connected(client[i])))
    BY <1>1 DEF on_connect, FwdConnectionEstablished_handle_client_connect
  <1>3. QED BY <1>1, <1>2, ConnectGood, HandledPreserves

LEMMA ServerReadStep ==
    ASSUME IInv, NEW i \in Ids, on_server_read(i)
    PROVE  IInv'
  <1> DEFINE s == server[i]
             c == client[i]
             t == server_read_ok(s)
  <1>1. SessionInv(session[i], s, c) /\ s.reads > 0 /\ i \leq stream_id
    BY Accepted DEF IInv, on_server_read, ServerQuiet
  <1>2. s \in ServerStream /\ c \in ClientStream /\ Exclusive(s, c) /\ s.reads \in Nat
    BY <1>1 DEF SessionInv, ServerStream
  <1>3. CASE session[i] = "FwdDataTransferMode"
    <2>1. Handled(i, "FwdDataTransferMode", Take(t), client_write(c, Data(t.got + 1)))
      BY <1>3 DEF on_server_read, FwdDataTransferMode_handle_server_read
    <2>2. SessionInv("FwdDataTransferMode", Take(t), client_write(c, Data(t.got + 1)))
      BY <1>1, <1>3, RelayGood, RelayServerRead
    <2>3. QED BY <1>1, <2>1, <2>2, HandledPreserves
  <1>4. CASE session[i] = Erased
    <2>1. Handled(i, Erased, t, c)
      BY <1>4 DEF on_server_read, Ignored, Erased
    <2>2. /\ t \in ServerStream /\ t.reads = s.reads - 1
          /\ t.writes = s.writes /\ t.starting = s.starting
      BY <1>1, <1>2, ServerReadOk
    <2>3. c.phase \notin {"resolving", "connecting"}
      BY <1>1, <1>4, NotConnecting
    <2>4. Exclusive(t, c)
      BY <1>2, <2>2 DEF Exclusive, ServerStream
    <2>5. SessionInv(Erased, t, c)
      BY <1>2, <2>2, <2>3, <2>4, ErasedGood
    <2>6. QED BY <1>1, <2>1, <2>5, HandledPreserves
  <1>5. CASE session[i] \in {"FwdWaitConnection", "FwdConnectionEstablished"}
    BY <1>1, <1>2, <1>5 DEF SessionInv
  <1>6. QED BY <1>1, <1>3, <1>4, <1>5 DEF SessionInv, States

LEMMA ServerWriteStep ==
    ASSUME IInv, NEW i \in Ids, on_server_write(i)
    PROVE  IInv'
  <1> DEFINE s == server[i]
             c == client[i]
             t == server_write_ok(s)
  <1>1. SessionInv(session[i], s, c) /\ s.writes > 0 /\ i \leq stream_id
    BY Accepted DEF IInv, on_server_write, ServerQuiet
  <1>2. s \in ServerStream /\ c \in ClientStream /\ Exclusive(s, c) /\ s.writes \in Nat
    BY <1>1 DEF SessionInv, ServerStream
  <1>3. CASE session[i] = "FwdDataTransferMode"
    <2>1. Handled(i, "FwdDataTransferMode", t, client_read(c))
      BY <1>3 DEF on_server_write, FwdDataTransferMode_handle_server_write
    <2>2. SessionInv("FwdDataTransferMode", t, client_read(c))
      BY <1>1, <1>3, RelayGood, RelayServerWrite
    <2>3. QED BY <1>1, <2>1, <2>2, HandledPreserves
  <1>4. CASE session[i] = Erased
    <2>1. Handled(i, Erased, t, c)
      BY <1>4 DEF on_server_write, Ignored, Erased
    <2>2. /\ t \in ServerStream /\ t.writes = s.writes - 1
          /\ t.reads = s.reads /\ t.starting = s.starting
      BY <1>1, <1>2, ServerWriteOk
    <2>3. c.phase \notin {"resolving", "connecting"}
      BY <1>1, <1>4, NotConnecting
    <2>4. Exclusive(t, c)
      BY <1>2, <2>2 DEF Exclusive, ServerStream
    <2>5. SessionInv(Erased, t, c)
      BY <1>2, <2>2, <2>3, <2>4, ErasedGood
    <2>6. QED BY <1>1, <2>1, <2>5, HandledPreserves
  <1>5. CASE session[i] \in {"FwdWaitConnection", "FwdConnectionEstablished"}
    BY <1>1, <1>2, <1>5 DEF SessionInv
  <1>6. QED BY <1>1, <1>3, <1>4, <1>5 DEF SessionInv, States

LEMMA ClientReadStep ==
    ASSUME IInv, NEW i \in Ids, on_client_read(i)
    PROVE  IInv'
  <1> DEFINE s == server[i]
             c == client[i]
             d == client_read_ok(c)
  <1>1. SessionInv(session[i], s, c) /\ c.reads > 0 /\ i \leq stream_id
    BY Accepted DEF IInv, on_client_read, ClientQuiet
  <1>2. s \in ServerStream /\ c \in ClientStream /\ Exclusive(s, c) /\ c.reads \in Nat
    BY <1>1 DEF SessionInv, ClientStream
  <1>3. CASE session[i] = "FwdDataTransferMode"
    <2>1. Handled(i, "FwdDataTransferMode", server_write(s, Data(d.got + 1)), Take(d))
      BY <1>3 DEF on_client_read, FwdDataTransferMode_handle_client_read
    <2>2. SessionInv("FwdDataTransferMode", server_write(s, Data(d.got + 1)), Take(d))
      BY <1>1, <1>3, RelayGood, RelayClientRead
    <2>3. QED BY <1>1, <2>1, <2>2, HandledPreserves
  <1>4. CASE session[i] = Erased
    <2>1. Handled(i, Erased, s, d)
      BY <1>4 DEF on_client_read, Ignored, Erased
    <2>2. /\ d \in ClientStream /\ d.reads = c.reads - 1
          /\ d.writes = c.writes /\ d.phase = c.phase
      BY <1>1, <1>2, ClientReadOk
    <2>3. c.phase \notin {"resolving", "connecting"}
      BY <1>1, <1>4, NotConnecting
    <2>4. Exclusive(s, d)
      BY <1>2, <2>2 DEF Exclusive, ClientStream
    <2>5. SessionInv(Erased, s, d)
      BY <1>2, <2>2, <2>3, <2>4, ErasedGood
    <2>6. QED BY <1>1, <2>1, <2>5, HandledPreserves
  <1>5. CASE session[i] \in {"FwdWaitConnection", "FwdConnectionEstablished"}
    BY <1>1, <1>2, <1>5 DEF SessionInv
  <1>6. QED BY <1>1, <1>3, <1>4, <1>5 DEF SessionInv, States

LEMMA ClientWriteStep ==
    ASSUME IInv, NEW i \in Ids, on_client_write(i)
    PROVE  IInv'
  <1> DEFINE s == server[i]
             c == client[i]
             d == client_write_ok(c)
  <1>1. SessionInv(session[i], s, c) /\ c.writes > 0 /\ i \leq stream_id
    BY Accepted DEF IInv, on_client_write, ClientQuiet
  <1>2. s \in ServerStream /\ c \in ClientStream /\ Exclusive(s, c) /\ c.writes \in Nat
    BY <1>1 DEF SessionInv, ClientStream
  <1>3. CASE session[i] = "FwdDataTransferMode"
    <2>1. Handled(i, "FwdDataTransferMode", server_read(s), d)
      BY <1>3 DEF on_client_write, FwdDataTransferMode_handle_client_write
    <2>2. SessionInv("FwdDataTransferMode", server_read(s), d)
      BY <1>1, <1>3, RelayGood, RelayClientWrite
    <2>3. QED BY <1>1, <2>1, <2>2, HandledPreserves
  <1>4. CASE session[i] = Erased
    <2>1. Handled(i, Erased, s, d)
      BY <1>4 DEF on_client_write, Ignored, Erased
    <2>2. /\ d \in ClientStream /\ d.writes = c.writes - 1
          /\ d.reads = c.reads /\ d.phase = c.phase
      BY <1>1, <1>2, ClientWriteOk
    <2>3. c.phase \notin {"resolving", "connecting"}
      BY <1>1, <1>4, NotConnecting
    <2>4. Exclusive(s, d)
      BY <1>2, <2>2 DEF Exclusive, ClientStream
    <2>5. SessionInv(Erased, s, d)
      BY <1>2, <2>2, <2>3, <2>4, ErasedGood
    <2>6. QED BY <1>1, <2>1, <2>5, HandledPreserves
  <1>5. CASE session[i] \in {"FwdWaitConnection", "FwdConnectionEstablished"}
    BY <1>1, <1>2, <1>5 DEF SessionInv
  <1>6. QED BY <1>1, <1>3, <1>4, <1>5 DEF SessionInv, States

LEMMA ServerErrorStep ==
    ASSUME IInv, NEW i \in Ids, on_server_error(i)
    PROVE  IInv'
  <1> DEFINE s == server[i]
             c == client[i]
  <1>1. PICK op \in ServerFailures(s) :
            IF Live(i) THEN handle_server_error(i, server_failed(s, op), c)
                       ELSE Ignored(i, server_failed(s, op), c)
    BY DEF on_server_error
  <1> DEFINE t == server_failed(s, op)
  <1>2. s.starting \/ s.reads > 0 \/ s.writes > 0
    BY <1>1 DEF ServerFailures
  <1>3. SessionInv(session[i], s, c) /\ s \in ServerStream /\ c \in ClientStream /\ Exclusive(s, c)
    BY DEF IInv, SessionInv
  <1>4. i \leq stream_id
    BY <1>2, Accepted, <1>3 DEF ServerQuiet, ServerStream
  <1>5. c.phase \notin {"resolving", "connecting"}
    BY <1>2, <1>3, NotConnecting DEF ServerStream
  <1>6. /\ t \in ServerStream /\ t.reads \leq s.reads /\ t.writes \leq s.writes
        /\ s.starting = FALSE => t.starting = FALSE
    BY <1>1, <1>3, ServerFailed
  <1>7. Exclusive(t, c)
    <2>1. c.reads \leq c.reads /\ c.writes \leq c.writes
      BY <1>3 DEF ClientStream
    <2>2. QED BY <1>3, <1>6, <2>1, StillExclusive
  <1> HIDE DEF t
  <1>8. CASE Live(i)
    <2>1. Handled(i, Erased, server_stop(t), client_stop(c))
      BY <1>1, <1>8 DEF handle_server_error, stop, StopBoth, t
    <2>2. SessionInv(Erased, server_stop(t), client_stop(c))
      BY <1>3, <1>5, <1>6, <1>7, StopGood
    <2>3. QED BY <1>4, <2>1, <2>2, HandledPreserves
  <1>9. CASE ~Live(i)
    <2>1. Handled(i, Erased, t, c)
      BY <1>1, <1>9 DEF Ignored, Live, t
    <2>2. SessionInv(Erased, t, c)
      BY <1>3, <1>5, <1>6, <1>7, ErasedGood
    <2>3. QED BY <1>4, <2>1, <2>2, HandledPreserves
  <1>10. QED BY <1>8, <1>9

LEMMA ClientErrorStep ==
    ASSUME IInv, NEW i \in Ids, on_client_error(i)
    PROVE  IInv'
  <1> DEFINE s == server[i]
             c == client[i]
  <1>1. PICK op \in ClientFailures(c) :
            IF Live(i) THEN handle_client_error(i, s, client_failed(c, op))
                       ELSE Ignored(i, s, client_failed(c, op))
    BY DEF on_client_error
  <1> DEFINE d == client_failed(c, op)
  <1>2. /\ op = "connect" => c.phase \in {"resolving", "connecting"}
        /\ op # "connect" => c.reads > 0 \/ c.writes > 0
    BY <1>1 DEF ClientFailures
  <1>3. SessionInv(session[i], s, c) /\ s \in ServerStream /\ c \in ClientStream /\ Exclusive(s, c)
    BY DEF IInv, SessionInv
  <1>4. i \leq stream_id
    BY <1>2, <1>3, Accepted DEF ClientQuiet, ClientStream
  <1>5. /\ d \in ClientStream /\ d.reads \leq c.reads /\ d.writes \leq c.writes
        /\ d.phase \in {c.phase, "failed"} /\ (op = "connect" => d.phase = "failed")
    BY <1>1, <1>3, ClientFailed
  <1>6. d.phase \notin {"resolving", "connecting"}
    <2>1. CASE op = "connect"
      BY <1>5, <2>1
    <2>2. CASE op # "connect"
      <3>1. c.reads > 0 \/ c.writes > 0
        BY <1>2, <2>2
      <3>2. c.phase \notin {"resolving", "connecting"}
        BY <1>3, <3>1 DEF SessionInv
      <3>3. QED BY <1>5, <3>2
    <2>3. QED BY <2>1, <2>2
  <1>7. Exclusive(s, d)
    <2>1. s.reads \leq s.reads /\ s.writes \leq s.writes
      BY <1>3 DEF ServerStream
    <2>2. QED BY <1>3, <1>5, <2>1, StillExclusive
  <1> HIDE DEF d
  <1>8. CASE Live(i)
    <2>1. Handled(i, Erased, server_stop(s), client_stop(d))
      BY <1>1, <1>8 DEF handle_client_error, stop, StopBoth, d
    <2>2. SessionInv(Erased, server_stop(s), client_stop(d))
      BY <1>3, <1>5, <1>6, <1>7, StopGood
    <2>3. QED BY <1>4, <2>1, <2>2, HandledPreserves
  <1>9. CASE ~Live(i)
    <2>1. Handled(i, Erased, s, d)
      BY <1>1, <1>9 DEF Ignored, Live, d
    <2>2. SessionInv(Erased, s, d)
      BY <1>3, <1>5, <1>6, <1>7, ErasedGood
    <2>3. QED BY <1>4, <2>1, <2>2, HandledPreserves
  <1>10. QED BY <1>8, <1>9

LEMMA ServerClosedStep ==
    ASSUME IInv, NEW i \in Ids, on_server_closed(i)
    PROVE  IInv'
  <1> DEFINE s == server[i]
             c == client[i]
  <1>1. PICK op \in s.closing, failed \in BOOLEAN :
            IF failed /\ Live(i) THEN handle_server_error(i, server_closed(s, op), c)
                                 ELSE Ignored(i, server_closed(s, op), c)
    BY DEF on_server_closed
  <1> DEFINE t == server_closed(s, op)
  <1>2. SessionInv(session[i], s, c) /\ s \in ServerStream /\ c \in ClientStream /\ Exclusive(s, c)
    BY DEF IInv, SessionInv
  <1>3. i \leq stream_id
    BY <1>1, Accepted DEF ServerQuiet
  <1>4. session[i] = Erased
    BY <1>1, <1>2 DEF SessionInv, Relaying, States
  <1>5. c.phase \notin {"resolving", "connecting"}
    BY <1>2, <1>4, NotConnecting
  <1>6. /\ t \in ServerStream /\ t.starting = s.starting
        /\ t.reads = s.reads /\ t.writes = s.writes
    BY <1>2, ServerClosed
  <1>7. Exclusive(t, c)
    BY <1>2, <1>6 DEF Exclusive
  <1> HIDE DEF t
  <1>8. Handled(i, Erased, t, c)
    BY <1>1, <1>4 DEF Ignored, Live, t
  <1>9. SessionInv(Erased, t, c)
    BY <1>2, <1>5, <1>6, <1>7, ErasedGood
  <1>10. QED BY <1>3, <1>8, <1>9, HandledPreserves

LEMMA SignalStep == IInv /\ signal => IInv'
  BY DEF IInv, signal, CoreTypeOK, AllFresh, Fresh

LEMMA StutterStep == IInv /\ UNCHANGED vars => IInv'
  BY DEF IInv, vars, coreVars, CoreTypeOK, AllFresh, Fresh

LEMMA StepGood == IInv /\ [Next]_vars => IInv'
  <1> SUFFICES ASSUME IInv, [Next]_vars PROVE IInv'
    OBVIOUS
  <1>1. CASE UNCHANGED vars
    BY <1>1, StutterStep
  <1>2. CASE signal
    BY <1>2, SignalStep
  <1>3. ASSUME NEW i \in Ids,
               on_accept(i) \/ on_server_ready(i) \/ ServerStep(i) \/ ClientStep(i)
        PROVE  IInv'
    <2>1. CASE on_accept(i)
      BY <2>1, AcceptStep
    <2>2. CASE on_server_ready(i)
      BY <2>2, ReadyStep
    <2>3. CASE ServerStep(i)
      BY <2>3, ServerReadStep, ServerWriteStep, ServerErrorStep, ServerClosedStep DEF ServerStep
    <2>4. CASE ClientStep(i)
      BY <2>4, ResolvedStep, ConnectStep, ClientReadStep, ClientWriteStep, ClientErrorStep
         DEF ClientStep
    <2>5. QED BY <1>3, <2>1, <2>2, <2>3, <2>4
  <1>4. QED BY <1>1, <1>2, <1>3 DEF Next

-----------------------------------------------------------------------------
(* The invariant holds in every reachable state. *)
THEOREM Invariance == Spec => []IInv
  <1>1. QED BY InitGood, StepGood, PTL DEF Spec

(* The state of the tunnelling proxy keeps its types. *)
THEOREM TypeCorrect == Spec => []TypeOK
  <1>1. IInv => TypeOK
    BY DEF IInv, TypeOK
  <1>2. QED BY <1>1, Invariance, PTL

(* Every session in the map waits for exactly the callbacks that can move   *)
(* it on: for the ready stream, for the connect, or for one operation in    *)
(* each direction of its relay (fwd_state.cpp).                             *)
THEOREM AlwaysArmed == Spec => []Armed
  <1>1. ASSUME IInv, NEW i \in Ids PROVE ArmedIn(i)
    <2>1. SessionInv(session[i], server[i], client[i])
      BY <1>1 DEF IInv
    <2>2. CASE session[i] = "FwdWaitConnection"
      <3>1. client[i].phase \notin {"resolving", "connecting"}
        BY <2>1, <2>2, NotConnecting DEF SessionInv
      <3>2. QED BY <2>1, <2>2, <3>1 DEF SessionInv, ArmedIn, OnlyServer, ClientQuiet
    <2>3. CASE session[i] = "FwdConnectionEstablished"
      BY <2>1, <2>3 DEF SessionInv, ArmedIn, OnlyConnecting, ServerQuiet
    <2>4. CASE session[i] = "FwdDataTransferMode"
      BY <2>1, <2>4 DEF SessionInv, ArmedIn, Relaying, RelayArmed
    <2>5. CASE session[i] = Erased
      BY <2>5 DEF ArmedIn, Erased
    <2>6. QED BY <2>1, <2>2, <2>3, <2>4, <2>5 DEF SessionInv, States
  <1>2. IInv => Armed
    BY <1>1 DEF Armed
  <1>3. QED BY <1>2, Invariance, PTL

(* No buffer is used by two operations, whatever the state of its session,  *)
(* with and without TLS (tls_server_stream.cpp has no flag to prevent it),  *)
(* and a session that lives has no operation of stop() outstanding.         *)
THEOREM AlwaysExclusive == Spec => []BuffersExclusive
  <1>1. ASSUME IInv, NEW i \in Ids PROVE OneOperation(i)
    <2>1. Exclusive(server[i], client[i]) /\ server[i] \in ServerStream
      BY <1>1 DEF IInv, SessionInv
    <2>2. Live(i) => server[i].closing = {}
      BY <1>1 DEF IInv, SessionInv, Relaying, Live, States
    <2>3. QED BY <2>1, <2>2 DEF OneOperation, Exclusive, ServerStream
  <1>2. IInv => BuffersExclusive
    BY <1>1 DEF BuffersExclusive
  <1>3. QED BY <1>2, Invariance, PTL

(* A relaying session has lost no chunk: what was read and not yet sent on  *)
(* is in the other stream's write buffer.                                   *)
THEOREM NeverLost == Spec => []NothingLost
  <1>1. IInv => NothingLost
    BY DEF IInv, SessionInv, Relaying, NothingLost, Conserved
  <1>2. QED BY <1>1, Invariance, PTL

(* A resolution or a connect always belongs to a session that waits for it. *)
THEOREM AlwaysOwned == Spec => []ConnectOwned
  <1>1. IInv => ConnectOwned
    BY DEF IInv, SessionInv, ConnectOwned, ConnectStates
  <1>2. QED BY <1>1, Invariance, PTL

-----------------------------------------------------------------------------
(* What a step may never do to a session that was erased.  Only a           *)
(* completion of session j changes session j; if j is no longer in the map, *)
(* the handler finds nothing and leaves j as its stream left it: with one   *)
(* operation less.                                                          *)

LEMMA ReadyQuiet ==
    ASSUME IInv, NEW i \in Ids, NEW j \in Ids, on_server_ready(j)
    PROVE  NoNewOperation(i)
  <1>1. server[j] \in ServerStream /\ client[j] \in ClientStream /\ CoreTypeOK(States)
    BY DEF IInv, CoreTypeOK
  <1>2. CASE session[j] = Erased
    <2>1. Ignored(j, server_ready(server[j]), client[j])
      BY <1>2 DEF on_server_ready, Live, Erased
    <2>2. Shrinks(server[j], client[j], server_ready(server[j]), client[j])
      BY <1>1, CompletionShrinks
    <2>3. QED BY <1>1, <1>2, <2>1, <2>2, QuietWhenIgnored
  <1>3. CASE session[j] # Erased
    BY <1>1, <1>3, QuietWhenLive DEF on_server_ready, FwdWaitConnection_handle_on_accept, Ignored
  <1>4. QED BY <1>2, <1>3

(* Only a session that connects has a resolution that can go on to connect. *)
LEMMA ConnectingQuiet ==
    ASSUME IInv, NEW i \in Ids, NEW j \in Ids, resolved(j) \/ on_connect(j)
    PROVE  NoNewOperation(i)
  <1>1. session[j] = "FwdConnectionEstablished" /\ CoreTypeOK(States)
    BY DEF IInv, SessionInv, resolved, on_connect
  <1>2. CASE resolved(j)
    BY <1>1, <1>2, QuietWhenLive DEF resolved, Ignored, Erased
  <1>3. CASE on_connect(j)
    BY <1>1, <1>3, QuietWhenLive
       DEF on_connect, FwdConnectionEstablished_handle_client_connect, Erased
  <1>4. QED BY <1>2, <1>3

LEMMA ServerReadQuiet ==
    ASSUME IInv, NEW i \in Ids, NEW j \in Ids, on_server_read(j)
    PROVE  NoNewOperation(i)
  <1>1. /\ server[j] \in ServerStream /\ client[j] \in ClientStream /\ CoreTypeOK(States)
        /\ server[j].reads > 0
    BY DEF IInv, CoreTypeOK, on_server_read
  <1>2. CASE session[j] = Erased
    <2>1. Ignored(j, server_read_ok(server[j]), client[j])
      BY <1>2 DEF on_server_read, Erased
    <2>2. Shrinks(server[j], client[j], server_read_ok(server[j]), client[j])
      BY <1>1, CompletionShrinks
    <2>3. QED BY <1>1, <1>2, <2>1, <2>2, QuietWhenIgnored
  <1>3. CASE session[j] # Erased
    BY <1>1, <1>3, QuietWhenLive
       DEF on_server_read, Ignored, FwdDataTransferMode_handle_server_read
  <1>4. QED BY <1>2, <1>3

LEMMA ServerWriteQuiet ==
    ASSUME IInv, NEW i \in Ids, NEW j \in Ids, on_server_write(j)
    PROVE  NoNewOperation(i)
  <1>1. /\ server[j] \in ServerStream /\ client[j] \in ClientStream /\ CoreTypeOK(States)
        /\ server[j].writes > 0
    BY DEF IInv, CoreTypeOK, on_server_write
  <1>2. CASE session[j] = Erased
    <2>1. Ignored(j, server_write_ok(server[j]), client[j])
      BY <1>2 DEF on_server_write, Erased
    <2>2. Shrinks(server[j], client[j], server_write_ok(server[j]), client[j])
      BY <1>1, CompletionShrinks
    <2>3. QED BY <1>1, <1>2, <2>1, <2>2, QuietWhenIgnored
  <1>3. CASE session[j] # Erased
    BY <1>1, <1>3, QuietWhenLive
       DEF on_server_write, Ignored, FwdDataTransferMode_handle_server_write
  <1>4. QED BY <1>2, <1>3

LEMMA ClientReadQuiet ==
    ASSUME IInv, NEW i \in Ids, NEW j \in Ids, on_client_read(j)
    PROVE  NoNewOperation(i)
  <1>1. /\ server[j] \in ServerStream /\ client[j] \in ClientStream /\ CoreTypeOK(States)
        /\ client[j].reads > 0
    BY DEF IInv, CoreTypeOK, on_client_read
  <1>2. CASE session[j] = Erased
    <2>1. Ignored(j, server[j], client_read_ok(client[j]))
      BY <1>2 DEF on_client_read, Erased
    <2>2. Shrinks(server[j], client[j], server[j], client_read_ok(client[j]))
      BY <1>1, CompletionShrinks
    <2>3. QED BY <1>1, <1>2, <2>1, <2>2, QuietWhenIgnored
  <1>3. CASE session[j] # Erased
    BY <1>1, <1>3, QuietWhenLive
       DEF on_client_read, Ignored, FwdDataTransferMode_handle_client_read
  <1>4. QED BY <1>2, <1>3

LEMMA ClientWriteQuiet ==
    ASSUME IInv, NEW i \in Ids, NEW j \in Ids, on_client_write(j)
    PROVE  NoNewOperation(i)
  <1>1. /\ server[j] \in ServerStream /\ client[j] \in ClientStream /\ CoreTypeOK(States)
        /\ client[j].writes > 0
    BY DEF IInv, CoreTypeOK, on_client_write
  <1>2. CASE session[j] = Erased
    <2>1. Ignored(j, server[j], client_write_ok(client[j]))
      BY <1>2 DEF on_client_write, Erased
    <2>2. Shrinks(server[j], client[j], server[j], client_write_ok(client[j]))
      BY <1>1, CompletionShrinks
    <2>3. QED BY <1>1, <1>2, <2>1, <2>2, QuietWhenIgnored
  <1>3. CASE session[j] # Erased
    BY <1>1, <1>3, QuietWhenLive
       DEF on_client_write, Ignored, FwdDataTransferMode_handle_client_write
  <1>4. QED BY <1>2, <1>3

LEMMA ServerErrorQuiet ==
    ASSUME IInv, NEW i \in Ids, NEW j \in Ids, on_server_error(j)
    PROVE  NoNewOperation(i)
  <1>1. server[j] \in ServerStream /\ client[j] \in ClientStream /\ CoreTypeOK(States)
    BY DEF IInv, CoreTypeOK
  <1>2. PICK op \in ServerFailures(server[j]) :
            IF Live(j) THEN handle_server_error(j, server_failed(server[j], op), client[j])
                       ELSE Ignored(j, server_failed(server[j], op), client[j])
    BY DEF on_server_error
  <1>3. CASE session[j] = Erased
    <2>1. Ignored(j, server_failed(server[j], op), client[j])
      BY <1>2, <1>3 DEF Live
    <2>2. Shrinks(server[j], client[j], server_failed(server[j], op), client[j])
      BY <1>1, CompletionShrinks
    <2>3. QED BY <1>1, <1>3, <2>1, <2>2, QuietWhenIgnored
  <1>4. CASE session[j] # Erased
    BY <1>1, <1>2, <1>4, QuietWhenLive DEF Live, handle_server_error, stop, StopBoth
  <1>5. QED BY <1>3, <1>4

LEMMA ClientErrorQuiet ==
    ASSUME IInv, NEW i \in Ids, NEW j \in Ids, on_client_error(j)
    PROVE  NoNewOperation(i)
  <1>1. server[j] \in ServerStream /\ client[j] \in ClientStream /\ CoreTypeOK(States)
    BY DEF IInv, CoreTypeOK
  <1>2. PICK op \in ClientFailures(client[j]) :
            IF Live(j) THEN handle_client_error(j, server[j], client_failed(client[j], op))
                       ELSE Ignored(j, server[j], client_failed(client[j], op))
    BY DEF on_client_error
  <1>3. CASE session[j] = Erased
    <2>1. Ignored(j, server[j], client_failed(client[j], op))
      BY <1>2, <1>3 DEF Live
    <2>2. Shrinks(server[j], client[j], server[j], client_failed(client[j], op))
      BY <1>1, CompletionShrinks
    <2>3. QED BY <1>1, <1>3, <2>1, <2>2, QuietWhenIgnored
  <1>4. CASE session[j] # Erased
    BY <1>1, <1>2, <1>4, QuietWhenLive DEF Live, handle_client_error, stop, StopBoth
  <1>5. QED BY <1>3, <1>4

LEMMA ServerClosedQuiet ==
    ASSUME IInv, NEW i \in Ids, NEW j \in Ids, on_server_closed(j)
    PROVE  NoNewOperation(i)
  <1>1. server[j] \in ServerStream /\ client[j] \in ClientStream /\ CoreTypeOK(States)
    BY DEF IInv, CoreTypeOK
  <1>2. PICK op \in server[j].closing, failed \in BOOLEAN :
            IF failed /\ Live(j) THEN handle_server_error(j, server_closed(server[j], op), client[j])
                                 ELSE Ignored(j, server_closed(server[j], op), client[j])
    BY DEF on_server_closed
  <1>3. CASE session[j] = Erased
    <2>1. Ignored(j, server_closed(server[j], op), client[j])
      BY <1>2, <1>3 DEF Live
    <2>2. Shrinks(server[j], client[j], server_closed(server[j], op), client[j])
      BY <1>1, CompletionShrinks
    <2>3. QED BY <1>1, <1>3, <2>1, <2>2, QuietWhenIgnored
  <1>4. CASE session[j] # Erased
    BY <1>1, <1>2, <1>4, QuietWhenLive DEF Live, handle_server_error, stop, StopBoth, Ignored
  <1>5. QED BY <1>3, <1>4

LEMMA StepQuiet == IInv /\ Next => \A i \in Ids : NoNewOperation(i)
  <1> SUFFICES ASSUME IInv, Next, NEW i \in Ids PROVE NoNewOperation(i)
    OBVIOUS
  <1>1. CoreTypeOK(States)
    BY DEF IInv
  <1>2. CASE signal
    BY <1>1, <1>2, SignalQuiet
  <1>3. ASSUME NEW j \in Ids,
               on_accept(j) \/ on_server_ready(j) \/ ServerStep(j) \/ ClientStep(j)
        PROVE  NoNewOperation(i)
    <2>1. CASE on_accept(j)
      BY <1>1, <2>1, AcceptQuiet DEF on_accept
    <2>2. CASE on_server_ready(j)
      BY <2>2, ReadyQuiet
    <2>3. CASE ServerStep(j)
      BY <2>3, ServerReadQuiet, ServerWriteQuiet, ServerErrorQuiet, ServerClosedQuiet
         DEF ServerStep
    <2>4. CASE ClientStep(j)
      BY <2>4, ConnectingQuiet, ClientReadQuiet, ClientWriteQuiet, ClientErrorQuiet
         DEF ClientStep
    <2>5. QED BY <1>3, <2>1, <2>2, <2>3, <2>4
  <1>4. QED BY <1>2, <1>3 DEF Next

(* No step revives an erased session or starts an operation on its streams: *)
(* every callback of FwdStreamManager looks the session up before it acts.  *)
THEOREM StaysQuiet == Spec => ClosedStaysQuiet
  <1>1. IInv /\ [Next]_vars => [\A i \in Ids : NoNewOperation(i)]_vars
    BY StepQuiet
  <1>2. QED BY <1>1, Invariance, PTL DEF Spec, ClosedStaysQuiet
-----------------------------------------------------------------------------
(* The tunnelling proxy implements tunnels: each action advances one session *)
(* (RelayProofs), because it is in the shape the invariant says.           *)

LEMMA Pending ==
    ASSUME IInv, NEW i \in Ids, ~(ServerQuiet(server[i]) /\ ClientQuiet(client[i]))
    PROVE  /\ i \leq stream_id /\ CoreTypeOK(States)
           /\ server[i] \in ServerStream /\ client[i] \in ClientStream
           /\ Exclusive(server[i], client[i])
           /\ SessionInv(session[i], server[i], client[i])
  <1>1. i \leq stream_id
    BY Accepted
  <1>2. SessionInv(session[i], server[i], client[i]) /\ CoreTypeOK(States)
    BY DEF IInv
  <1>3. QED BY <1>1, <1>2 DEF SessionInv

LEMMA IsRelay ==
    ASSUME NEW st, NEW s, NEW c, SessionInv(st, s, c), st = "FwdDataTransferMode"
    PROVE  Relay(s, c) /\ st \in RelayStates /\ c.phase = "connected"
  BY DEF SessionInv, Relay, Relaying, RelayStates, Erased

LEMMA Opens ==
    ASSUME NEW st \in {"FwdWaitConnection", "FwdConnectionEstablished"}
    PROVE  st \notin RelayStates \cup {Erased}
  BY DEF RelayStates, Erased

LEMMA ReadyMaps ==
    ASSUME IInv, InFlight, NEW i \in Ids, on_server_ready(i)
    PROVE  Refines
  <1> DEFINE s == server[i]
             c == client[i]
             t == server_ready(s)
             b == TcpClientStream_create
             d == TcpClientStream_start(b)
  <1>1. s.starting = TRUE
    BY DEF on_server_ready, IInv, CoreTypeOK, ServerStream
  <1>2. /\ i \leq stream_id /\ CoreTypeOK(States) /\ s \in ServerStream /\ c \in ClientStream
        /\ SessionInv(session[i], s, c)
    BY <1>1, Pending DEF ServerQuiet
  <1>3. Keeps(s, t) /\ Keeps(c, c)
    BY <1>2, ServerKeeps, ClientKeeps
  <1>4. CASE session[i] = "FwdWaitConnection"
    <2>1. Changes(i, "FwdConnectionEstablished", t, d)
      BY <1>4, HandledIsChange
         DEF on_server_ready, FwdWaitConnection_handle_on_accept, Live, Erased
    <2>2. c.got = 0 /\ c.put = <<>>
      BY <1>2, <1>4 DEF SessionInv, Untouched
    <2>3. b \in ClientStream
      BY CreateType
    <2>4. Keeps(c, b) /\ Keeps(b, d)
      BY <1>2, <2>2, <2>3, ClientKeeps
    <2>5. Keeps(c, d)
      BY <2>4, KeepsOn
    <2>6. PhaseStep(session[i], "FwdConnectionEstablished")
      BY <1>4, Opens, Phases
    <2>7. QED BY <1>2, <1>3, <2>1, <2>5, <2>6, KeepsMaps
  <1>5. CASE session[i] = Erased
    <2>1. Ignored(i, t, c)
      BY <1>5 DEF on_server_ready, Live, Erased
    <2>2. QED BY <1>2, <1>3, <2>1, IgnoredMaps
  <1>6. CASE session[i] \in {"FwdConnectionEstablished", "FwdDataTransferMode"}
    BY <1>1, <1>2, <1>6 DEF SessionInv, Relaying
  <1>7. QED BY <1>2, <1>4, <1>5, <1>6 DEF SessionInv, States

LEMMA ResolvedMaps ==
    ASSUME IInv, InFlight, NEW i \in Ids, resolved(i)
    PROVE  Refines
  <1>1. client[i].phase = "resolving" /\ Ignored(i, server[i], client_resolved(client[i]))
    BY DEF resolved
  <1>2. /\ i \leq stream_id /\ CoreTypeOK(States)
        /\ server[i] \in ServerStream /\ client[i] \in ClientStream
    BY <1>1, Pending DEF ClientQuiet
  <1>3. Keeps(server[i], server[i]) /\ Keeps(client[i], client_resolved(client[i]))
    BY <1>2, ServerKeeps, ClientKeeps
  <1>4. QED BY <1>1, <1>2, <1>3, IgnoredMaps

(* The tunnel opens: both streams are read from. *)
LEMMA ConnectMaps ==
    ASSUME IInv, InFlight, NEW i \in Ids, on_connect(i)
    PROVE  Refines
  <1> DEFINE s == server[i]
             c == client[i]
             r == client_connected(c)
             t == server_read(s)
             d == client_read(r)
  <1>1. c.phase = "connecting"
    BY DEF on_connect
  <1>2. /\ i \leq stream_id /\ CoreTypeOK(States) /\ s \in ServerStream /\ c \in ClientStream
        /\ session[i] = "FwdConnectionEstablished"
    BY <1>1, Pending DEF ClientQuiet, SessionInv
  <1>3. Changes(i, "FwdDataTransferMode", t, d)
    BY <1>2, HandledIsChange DEF on_connect, FwdConnectionEstablished_handle_client_connect
  <1>4. r \in ClientStream /\ Keeps(c, r)
    BY <1>2, ClientConnected, ClientKeeps
  <1>5. Keeps(s, t) /\ Keeps(r, d)
    BY <1>2, <1>4, ServerKeeps, ClientKeeps
  <1>6. Keeps(c, d)
    BY <1>4, <1>5, KeepsOn
  <1>7. PhaseStep(session[i], "FwdDataTransferMode")
    BY <1>2, Opens, Phases
  <1>8. QED BY <1>2, <1>3, <1>5, <1>6, <1>7, KeepsMaps

LEMMA ServerReadMaps ==
    ASSUME IInv, InFlight, NEW i \in Ids, on_server_read(i)
    PROVE  Refines
  <1> DEFINE s == server[i]
             c == client[i]
             t == server_read_ok(s)
  <1>1. s.reads > 0
    BY DEF on_server_read
  <1>2. /\ i \leq stream_id /\ CoreTypeOK(States) /\ s \in ServerStream /\ c \in ClientStream
        /\ SessionInv(session[i], s, c)
    BY <1>1, Pending DEF ServerQuiet
  <1>3. CASE session[i] = "FwdDataTransferMode"
    <2>1. Handled(i, session[i], Take(t), client_write(c, Data(t.got + 1)))
      BY <1>3 DEF on_server_read, FwdDataTransferMode_handle_server_read
    <2>2. QED BY <1>1, <1>2, <1>3, <2>1, IsRelay, ReadUpMaps
  <1>4. CASE session[i] = Erased
    <2>1. Ignored(i, t, c)
      BY <1>4 DEF on_server_read, Erased
    <2>2. Keeps(s, t) /\ Keeps(c, c)
      BY <1>1, <1>2, ServerKeeps, ClientKeeps
    <2>3. QED BY <1>2, <2>1, <2>2, IgnoredMaps
  <1>5. CASE session[i] \in {"FwdWaitConnection", "FwdConnectionEstablished"}
    BY <1>1, <1>2, <1>5 DEF SessionInv
  <1>6. QED BY <1>2, <1>3, <1>4, <1>5 DEF SessionInv, States

LEMMA ClientReadMaps ==
    ASSUME IInv, InFlight, NEW i \in Ids, on_client_read(i)
    PROVE  Refines
  <1> DEFINE s == server[i]
             c == client[i]
             d == client_read_ok(c)
  <1>1. c.reads > 0
    BY DEF on_client_read
  <1>2. /\ i \leq stream_id /\ CoreTypeOK(States) /\ s \in ServerStream /\ c \in ClientStream
        /\ SessionInv(session[i], s, c)
    BY <1>1, Pending DEF ClientQuiet
  <1>3. CASE session[i] = "FwdDataTransferMode"
    <2>1. Handled(i, session[i], server_write(s, Data(d.got + 1)), Take(d))
      BY <1>3 DEF on_client_read, FwdDataTransferMode_handle_client_read
    <2>2. QED BY <1>1, <1>2, <1>3, <2>1, IsRelay, ReadDownMaps
  <1>4. CASE session[i] # "FwdDataTransferMode"
    <2>1. Ignored(i, s, d)
      BY <1>4 DEF on_client_read
    <2>2. Keeps(s, s) /\ Keeps(c, d)
      BY <1>1, <1>2, ServerKeeps, ClientKeeps
    <2>3. QED BY <1>2, <2>1, <2>2, IgnoredMaps
  <1>5. QED BY <1>3, <1>4

LEMMA ServerWriteMaps ==
    ASSUME IInv, InFlight, NEW i \in Ids, on_server_write(i)
    PROVE  Refines
  <1> DEFINE s == server[i]
             c == client[i]
             t == server_write_ok(s)
  <1>1. s.writes > 0
    BY DEF on_server_write
  <1>2. /\ i \leq stream_id /\ CoreTypeOK(States) /\ c \in ClientStream /\ Exclusive(s, c)
    BY <1>1, Pending DEF ServerQuiet
  <1>3. \E d \in {c, client_read(c)} : Handled(i, session[i], t, d)
    BY DEF on_server_write, FwdDataTransferMode_handle_server_write, Ignored
  <1>4. Keeps(c, c) /\ Keeps(c, client_read(c))
    BY <1>2, ClientKeeps
  <1>5. QED BY <1>1, <1>2, <1>3, <1>4, WriteDownMaps

LEMMA ClientWriteMaps ==
    ASSUME IInv, InFlight, NEW i \in Ids, on_client_write(i)
    PROVE  Refines
  <1> DEFINE s == server[i]
             c == client[i]
             d == client_write_ok(c)
  <1>1. c.writes > 0
    BY DEF on_client_write
  <1>2. /\ i \leq stream_id /\ CoreTypeOK(States) /\ s \in ServerStream /\ Exclusive(s, c)
    BY <1>1, Pending DEF ClientQuiet
  <1>3. \E t \in {s, server_read(s)} : Handled(i, session[i], t, d)
    BY DEF on_client_write, FwdDataTransferMode_handle_client_write, Ignored
  <1>4. Keeps(s, s) /\ Keeps(s, server_read(s))
    BY <1>2, ServerKeeps
  <1>5. QED BY <1>1, <1>2, <1>3, <1>4, WriteUpMaps

(* A failure closes the tunnel of a session that lives, and is nothing to   *)
(* the tunnel of one that was erased.                                       *)
LEMMA ServerErrorMaps ==
    ASSUME IInv, InFlight, NEW i \in Ids, on_server_error(i)
    PROVE  Refines
  <1> DEFINE s == server[i]
             c == client[i]
  <1>1. PICK op \in ServerFailures(s) :
            IF Live(i) THEN handle_server_error(i, server_failed(s, op), c)
                       ELSE Ignored(i, server_failed(s, op), c)
    BY DEF on_server_error
  <1> DEFINE t == server_failed(s, op)
  <1>2. ~ServerQuiet(s)
    <2>1. s \in ServerStream
      BY DEF IInv, CoreTypeOK
    <2>2. QED BY <1>1, <2>1 DEF ServerQuiet, ServerFailures, ServerStream
  <1>3. /\ i \leq stream_id /\ CoreTypeOK(States) /\ s \in ServerStream /\ c \in ClientStream
    BY <1>2, Pending
  <1>4. t \in ServerStream /\ Keeps(s, t) /\ Keeps(c, c)
    BY <1>1, <1>3, ServerFailed, ServerKeeps, ClientKeeps
  <1>5. StopBoth(i, t, c) \/ Ignored(i, t, c)
    BY <1>1 DEF handle_server_error, stop
  <1> HIDE DEF t
  <1>6. QED BY <1>3, <1>4, <1>5, StopMaps, IgnoredMaps

LEMMA ClientErrorMaps ==
    ASSUME IInv, InFlight, NEW i \in Ids, on_client_error(i)
    PROVE  Refines
  <1> DEFINE s == server[i]
             c == client[i]
  <1>1. PICK op \in ClientFailures(c) :
            IF Live(i) THEN handle_client_error(i, s, client_failed(c, op))
                       ELSE Ignored(i, s, client_failed(c, op))
    BY DEF on_client_error
  <1> DEFINE d == client_failed(c, op)
  <1>2. ~ClientQuiet(c)
    <2>1. c \in ClientStream
      BY DEF IInv, CoreTypeOK
    <2>2. QED BY <1>1, <2>1 DEF ClientQuiet, ClientFailures, ClientStream
  <1>3. /\ i \leq stream_id /\ CoreTypeOK(States) /\ s \in ServerStream /\ c \in ClientStream
    BY <1>2, Pending
  <1>4. d \in ClientStream /\ Keeps(c, d) /\ Keeps(s, s)
    BY <1>1, <1>3, ClientFailed, ServerKeeps, ClientKeeps
  <1>5. StopBoth(i, s, d) \/ Ignored(i, s, d)
    BY <1>1 DEF handle_client_error, stop
  <1> HIDE DEF d
  <1>6. QED BY <1>3, <1>4, <1>5, StopMaps, IgnoredMaps

LEMMA ServerClosedMaps ==
    ASSUME IInv, InFlight, NEW i \in Ids, on_server_closed(i)
    PROVE  Refines
  <1> DEFINE s == server[i]
             c == client[i]
  <1>1. PICK op \in s.closing, failed \in BOOLEAN :
            IF failed /\ Live(i) THEN handle_server_error(i, server_closed(s, op), c)
                                 ELSE Ignored(i, server_closed(s, op), c)
    BY DEF on_server_closed
  <1> DEFINE t == server_closed(s, op)
  <1>2. /\ i \leq stream_id /\ CoreTypeOK(States) /\ s \in ServerStream /\ c \in ClientStream
    BY <1>1, Pending DEF ServerQuiet
  <1>3. t \in ServerStream /\ Keeps(s, t) /\ Keeps(c, c)
    BY <1>2, ServerClosed, ServerKeeps, ClientKeeps
  <1>4. StopBoth(i, t, c) \/ Ignored(i, t, c)
    BY <1>1 DEF handle_server_error, stop
  <1> HIDE DEF t
  <1>5. QED BY <1>2, <1>3, <1>4, StopMaps, IgnoredMaps

LEMMA StepRefines == IInv /\ InFlight /\ [Next]_vars => Refines
  <1> SUFFICES ASSUME IInv, InFlight, [Next]_vars PROVE Refines
    OBVIOUS
  <1>1. CASE signal \/ UNCHANGED vars
    BY <1>1, OtherMaps DEF signal, vars, coreVars
  <1>2. ASSUME NEW i \in Ids,
               on_accept(i) \/ on_server_ready(i) \/ ServerStep(i) \/ ClientStep(i)
        PROVE  Refines
    <2>1. CASE on_accept(i)
      BY <2>1, AcceptMaps, Opens DEF IInv, on_accept
    <2>2. CASE on_server_ready(i)
      BY <2>2, ReadyMaps
    <2>3. CASE ServerStep(i)
      BY <2>3, ServerReadMaps, ServerWriteMaps, ServerErrorMaps, ServerClosedMaps DEF ServerStep
    <2>4. CASE ClientStep(i)
      BY <2>4, ResolvedMaps, ConnectMaps, ClientReadMaps, ClientWriteMaps, ClientErrorMaps
         DEF ClientStep
    <2>5. QED BY <1>2, <2>1, <2>2, <2>3, <2>4
  <1>3. QED BY <1>1, <1>2 DEF Next

(* Every behaviour of the tunnelling proxy is one of the tunnels': what the *)
(* relay handlers of fwd_state.cpp pass between the two streams arrives     *)
(* whole, once and in order, only after the connect, and nothing is read    *)
(* for a session that was erased.                                           *)
THEOREM Implementation == Spec => Implements
  <1>1. Init => InFlight /\ T!Init
    BY InitMaps DEF Init
  <1>2. IInv /\ InFlight /\ [Next]_vars => InFlight' /\ [T!Next]_(T!vars)
    BY StepRefines DEF Refines
  <1>3. QED BY <1>1, <1>2, Invariance, PTL DEF Spec, Implements, T!Spec

(* However a session ends, it cuts off at most the last chunk of each       *)
(* direction: handle_server_error and handle_client_error of fwd_state.cpp  *)
(* stop both streams with a write still under way.                          *)
THEOREM CutsOneAtMost == Spec => []AtMostOneCut
  BY Implementation, TunnelsOrdered, PTL DEF Implements
=============================================================================
