----------------------------- MODULE RelayProofs ------------------------------
(***************************************************************************)
(* What the three modes share of the argument for their safety: the shape  *)
(* of a session that relays, which the four completions of the relay keep, *)
(* what any session has to keep of its operations, how a handler changes   *)
(* the session map, and why what the modes have in common implements       *)
(* Tunnel.                                                                 *)
(***************************************************************************)
EXTENDS ProxyCore, StreamsProofs

(* At most one operation of a kind, as in OneOperation *)
Exclusive(s, c) ==
    /\ s.reads \leq 1 /\ s.writes \leq 1 /\ c.reads \leq 1 /\ c.writes \leq 1
    /\ s.starting = TRUE => s.reads = 0

(* A flag is not set when nothing is outstanding *)
Flagged(s, c) ==
    /\ ~Tls => (s.reads = 0 => s.rip = FALSE) /\ (s.writes = 0 => s.wip = FALSE)
    /\ c.reads = 0 => c.rip = FALSE
    /\ c.writes = 0 => c.wip = FALSE

(* Nothing has been relayed yet *)
Untouched(s, c) == s.got = 0 /\ c.got = 0 /\ s.put = <<>> /\ c.put = <<>>

Relaying(s, c) ==
    /\ s.starting = FALSE /\ s.closing = {}
    /\ c.phase = "connected"
    /\ s.reads + c.writes = 1 /\ c.reads + s.writes = 1
    /\ s.got = Len(c.put) + c.writes /\ c.got = Len(s.put) + s.writes
    /\ s.writes = 1 => s.wbuf.kind = "data"
    /\ c.writes = 1 => c.wbuf.kind = "data"

(* A relaying session, whatever the mode *)
Relay(s, c) ==
    /\ s \in ServerStream /\ c \in ClientStream
    /\ Exclusive(s, c) /\ Flagged(s, c) /\ Relaying(s, c)

(* What the relay never changes: what was said when it was opened *)
SameTalk(s, c, t, d) ==
    t.said = s.said /\ d.said = c.said /\ d.phase = c.phase /\ d.made = c.made

-----------------------------------------------------------------------------
(* Counting a chunk of a stream changes nothing else. *)
LEMMA TakeServer ==
    ASSUME NEW s \in ServerStream
    PROVE  /\ Take(s) \in ServerStream /\ Take(s).got = s.got + 1
           /\ Take(s).starting = s.starting /\ Take(s).closing = s.closing
           /\ Take(s).reads = s.reads /\ Take(s).rip = s.rip
           /\ Take(s).writes = s.writes /\ Take(s).wip = s.wip /\ Take(s).wbuf = s.wbuf
           /\ Take(s).put = s.put /\ Take(s).said = s.said
  <1>1. s.got + 1 \in Nat
    BY DEF ServerStream
  <1>2. Take(s) \in ServerStream
    BY <1>1 DEF Take, ServerStream
  <1>3. QED BY <1>2 DEF Take, ServerStream

LEMMA TakeClient ==
    ASSUME NEW c \in ClientStream
    PROVE  /\ Take(c) \in ClientStream /\ Take(c).got = c.got + 1
           /\ Take(c).phase = c.phase
           /\ Take(c).reads = c.reads /\ Take(c).rip = c.rip
           /\ Take(c).writes = c.writes /\ Take(c).wip = c.wip /\ Take(c).wbuf = c.wbuf
           /\ Take(c).put = c.put /\ Take(c).said = c.said
           /\ Take(c).made = c.made
  <1>1. c.got + 1 \in Nat
    BY DEF ClientStream
  <1>2. Take(c) \in ClientStream
    BY <1>1 DEF Take, ClientStream
  <1>3. QED BY <1>2 DEF Take, ClientStream

-----------------------------------------------------------------------------
(* The relay keeps its shape: each of its four completions starts the other *)
(* half of the same direction, and says nothing to either peer.             *)

LEMMA RelayServerRead ==
    ASSUME NEW s, NEW c, Relay(s, c), s.reads > 0
    PROVE  LET t == server_read_ok(s)
               m == Data(t.got + 1)
           IN /\ Relay(Take(t), client_write(c, m))
              /\ SameTalk(s, c, Take(t), client_write(c, m))
  <1> DEFINE t == server_read_ok(s)
             m == Data(t.got + 1)
  <1>1. /\ s \in ServerStream /\ c \in ClientStream /\ s.reads \in Nat /\ c.writes \in Nat
        /\ s.got \in Nat
        /\ Exclusive(s, c) /\ Flagged(s, c) /\ Relaying(s, c)
    BY DEF Relay, ServerStream, ClientStream
  <1>2. s.reads = 1 /\ c.writes = 0 /\ c.wip = FALSE
    BY <1>1 DEF Exclusive, Flagged, Relaying
  <1>3. /\ t \in ServerStream
        /\ t.reads = s.reads - 1 /\ t.rip = FALSE
        /\ t.starting = s.starting /\ t.closing = s.closing
        /\ t.writes = s.writes /\ t.wip = s.wip /\ t.wbuf = s.wbuf
        /\ t.got = s.got /\ t.put = s.put /\ t.said = s.said
    BY <1>1, ServerReadOk
  <1>4. m \in Content /\ m.kind = "data"
    <2>1. t.got + 1 \in Nat
      BY <1>1, <1>3
    <2>2. QED BY <2>1, ContentType
  <1> HIDE DEF t, m
  <1>5. /\ Take(t) \in ServerStream /\ Take(t).got = t.got + 1
        /\ Take(t).starting = t.starting /\ Take(t).closing = t.closing
        /\ Take(t).reads = t.reads /\ Take(t).rip = t.rip
        /\ Take(t).writes = t.writes /\ Take(t).wip = t.wip /\ Take(t).wbuf = t.wbuf
        /\ Take(t).put = t.put /\ Take(t).said = t.said
    BY <1>3, TakeServer
  <1>6. /\ client_write(c, m) \in ClientStream
        /\ client_write(c, m).writes = c.writes + 1 /\ client_write(c, m).wip = TRUE
        /\ client_write(c, m).wbuf = m
        /\ client_write(c, m).phase = c.phase
        /\ client_write(c, m).reads = c.reads /\ client_write(c, m).rip = c.rip
        /\ client_write(c, m).got = c.got /\ client_write(c, m).put = c.put
        /\ client_write(c, m).said = c.said /\ client_write(c, m).made = c.made
    BY <1>1, <1>2, <1>4, ClientWrite
  <1>7. Relay(Take(t), client_write(c, m))
    BY <1>1, <1>2, <1>3, <1>4, <1>5, <1>6 DEF Relay, Exclusive, Flagged, Relaying
  <1>8. SameTalk(s, c, Take(t), client_write(c, m))
    BY <1>3, <1>5, <1>6 DEF SameTalk
  <1>9. QED BY <1>7, <1>8 DEF t, m

LEMMA RelayServerWrite ==
    ASSUME NEW s, NEW c, Relay(s, c), s.writes > 0
    PROVE  /\ Relay(server_write_ok(s), client_read(c))
           /\ SameTalk(s, c, server_write_ok(s), client_read(c))
  <1> DEFINE t == server_write_ok(s)
  <1>1. /\ s \in ServerStream /\ c \in ClientStream /\ s.writes \in Nat /\ c.reads \in Nat
        /\ s.put \in Seq(Nat)
        /\ Exclusive(s, c) /\ Flagged(s, c) /\ Relaying(s, c)
    BY DEF Relay, ServerStream, ClientStream
  <1>2. s.writes = 1 /\ s.wbuf.kind = "data" /\ c.reads = 0 /\ c.rip = FALSE
    BY <1>1 DEF Exclusive, Flagged, Relaying
  <1>3. /\ t \in ServerStream
        /\ t.writes = s.writes - 1 /\ t.wip = FALSE
        /\ t.starting = s.starting /\ t.closing = s.closing
        /\ t.reads = s.reads /\ t.rip = s.rip /\ t.got = s.got
        /\ Len(t.put) = Len(s.put) + 1 /\ t.said = s.said
    BY <1>1, <1>2, ServerWriteOk
  <1> HIDE DEF t
  <1>4. /\ client_read(c) \in ClientStream
        /\ client_read(c).reads = c.reads + 1 /\ client_read(c).rip = TRUE
        /\ client_read(c).phase = c.phase
        /\ client_read(c).writes = c.writes /\ client_read(c).wip = c.wip
        /\ client_read(c).wbuf = c.wbuf
        /\ client_read(c).got = c.got /\ client_read(c).put = c.put
        /\ client_read(c).said = c.said /\ client_read(c).made = c.made
    BY <1>1, <1>2, ClientRead
  <1>5. Len(s.put) \in Nat
    BY <1>1
  <1>6. Relay(t, client_read(c))
    BY <1>1, <1>2, <1>3, <1>4, <1>5 DEF Relay, Exclusive, Flagged, Relaying
  <1>7. SameTalk(s, c, t, client_read(c))
    BY <1>3, <1>4 DEF SameTalk
  <1>8. QED BY <1>6, <1>7 DEF t

LEMMA RelayClientRead ==
    ASSUME NEW s, NEW c, Relay(s, c), c.reads > 0
    PROVE  LET d == client_read_ok(c)
               m == Data(d.got + 1)
           IN /\ Relay(server_write(s, m), Take(d))
              /\ SameTalk(s, c, server_write(s, m), Take(d))
  <1> DEFINE d == client_read_ok(c)
             m == Data(d.got + 1)
  <1>1. /\ s \in ServerStream /\ c \in ClientStream /\ c.reads \in Nat /\ s.writes \in Nat
        /\ c.got \in Nat
        /\ Exclusive(s, c) /\ Flagged(s, c) /\ Relaying(s, c)
    BY DEF Relay, ServerStream, ClientStream
  <1>2. c.reads = 1 /\ s.writes = 0 /\ (Tls \/ s.wip = FALSE)
    BY <1>1, TlsAssumption DEF Exclusive, Flagged, Relaying
  <1>3. /\ d \in ClientStream
        /\ d.reads = c.reads - 1 /\ d.rip = FALSE
        /\ d.phase = c.phase
        /\ d.writes = c.writes /\ d.wip = c.wip /\ d.wbuf = c.wbuf
        /\ d.got = c.got /\ d.put = c.put /\ d.said = c.said /\ d.made = c.made
    BY <1>1, ClientReadOk
  <1>4. m \in Content /\ m.kind = "data"
    <2>1. d.got + 1 \in Nat
      BY <1>1, <1>3
    <2>2. QED BY <2>1, ContentType
  <1> HIDE DEF d, m
  <1>5. /\ Take(d) \in ClientStream /\ Take(d).got = d.got + 1
        /\ Take(d).phase = d.phase
        /\ Take(d).reads = d.reads /\ Take(d).rip = d.rip
        /\ Take(d).writes = d.writes /\ Take(d).wip = d.wip /\ Take(d).wbuf = d.wbuf
        /\ Take(d).put = d.put /\ Take(d).said = d.said /\ Take(d).made = d.made
    BY <1>3, TakeClient
  <1>6. /\ server_write(s, m) \in ServerStream
        /\ server_write(s, m).writes = s.writes + 1
        /\ server_write(s, m).wbuf = m
        /\ ~Tls => server_write(s, m).wip = TRUE
        /\ server_write(s, m).starting = s.starting /\ server_write(s, m).closing = s.closing
        /\ server_write(s, m).reads = s.reads /\ server_write(s, m).rip = s.rip
        /\ server_write(s, m).got = s.got /\ server_write(s, m).put = s.put
        /\ server_write(s, m).said = s.said
    BY <1>1, <1>2, <1>4, ServerWrite
  <1>7. Relay(server_write(s, m), Take(d))
    BY <1>1, <1>2, <1>3, <1>4, <1>5, <1>6 DEF Relay, Exclusive, Flagged, Relaying
  <1>8. SameTalk(s, c, server_write(s, m), Take(d))
    BY <1>3, <1>5, <1>6 DEF SameTalk
  <1>9. QED BY <1>7, <1>8 DEF d, m

LEMMA RelayClientWrite ==
    ASSUME NEW s, NEW c, Relay(s, c), c.writes > 0
    PROVE  /\ Relay(server_read(s), client_write_ok(c))
           /\ SameTalk(s, c, server_read(s), client_write_ok(c))
  <1> DEFINE d == client_write_ok(c)
  <1>1. /\ s \in ServerStream /\ c \in ClientStream /\ c.writes \in Nat /\ s.reads \in Nat
        /\ c.put \in Seq(Nat)
        /\ Exclusive(s, c) /\ Flagged(s, c) /\ Relaying(s, c)
    BY DEF Relay, ServerStream, ClientStream
  <1>2. c.writes = 1 /\ c.wbuf.kind = "data" /\ s.reads = 0 /\ (Tls \/ s.rip = FALSE)
    BY <1>1, TlsAssumption DEF Exclusive, Flagged, Relaying
  <1>3. /\ d \in ClientStream
        /\ d.writes = c.writes - 1 /\ d.wip = FALSE
        /\ d.phase = c.phase
        /\ d.reads = c.reads /\ d.rip = c.rip /\ d.got = c.got
        /\ Len(d.put) = Len(c.put) + 1 /\ d.said = c.said /\ d.made = c.made
    BY <1>1, <1>2, ClientWriteOk
  <1> HIDE DEF d
  <1>4. /\ server_read(s) \in ServerStream
        /\ server_read(s).reads = s.reads + 1
        /\ ~Tls => server_read(s).rip = TRUE
        /\ server_read(s).starting = s.starting /\ server_read(s).closing = s.closing
        /\ server_read(s).writes = s.writes /\ server_read(s).wip = s.wip
        /\ server_read(s).wbuf = s.wbuf
        /\ server_read(s).got = s.got /\ server_read(s).put = s.put
        /\ server_read(s).said = s.said
    BY <1>1, <1>2, ServerRead
  <1>5. Len(c.put) \in Nat
    BY <1>1
  <1>6. Relay(server_read(s), d)
    BY <1>1, <1>2, <1>3, <1>4, <1>5 DEF Relay, Exclusive, Flagged, Relaying
  <1>7. SameTalk(s, c, server_read(s), d)
    BY <1>3, <1>4 DEF SameTalk
  <1>8. QED BY <1>6, <1>7 DEF d

(* The relay starts: both halves that read are started at once. *)
LEMMA RelayStarts ==
    ASSUME NEW s \in ServerStream, NEW c \in ClientStream,
           s.starting = FALSE, s.closing = {}, s.reads = 0, s.writes = 0,
           c.phase = "connected", c.reads = 0, c.writes = 0,
           Untouched(s, c), Flagged(s, c)
    PROVE  /\ Relay(server_read(s), client_read(c))
           /\ SameTalk(s, c, server_read(s), client_read(c))
  <1>1. (Tls \/ s.rip = FALSE) /\ (~Tls => s.wip = FALSE) /\ c.rip = FALSE /\ c.wip = FALSE
    BY TlsAssumption DEF Flagged
  <1>2. /\ client_read(c) \in ClientStream /\ client_read(c).phase = c.phase
        /\ client_read(c).reads = c.reads + 1 /\ client_read(c).rip = TRUE
        /\ client_read(c).writes = c.writes /\ client_read(c).wip = c.wip
        /\ client_read(c).got = c.got /\ client_read(c).put = c.put
        /\ client_read(c).said = c.said /\ client_read(c).made = c.made
    BY <1>1, ClientRead
  <1>3. /\ server_read(s) \in ServerStream
        /\ server_read(s).reads = s.reads + 1 /\ (~Tls => server_read(s).rip = TRUE)
        /\ server_read(s).writes = s.writes /\ server_read(s).wip = s.wip
        /\ server_read(s).starting = s.starting /\ server_read(s).closing = s.closing
        /\ server_read(s).got = s.got /\ server_read(s).put = s.put
        /\ server_read(s).said = s.said
    BY <1>1, ServerRead
  <1>4. Len(server_read(s).put) = 0 /\ Len(client_read(c).put) = 0
    BY <1>2, <1>3 DEF Untouched
  <1>5. server_read(s).reads = 1 /\ client_read(c).reads = 1
    BY <1>2, <1>3
  <1>6. Relay(server_read(s), client_read(c))
    BY <1>1, <1>2, <1>3, <1>4, <1>5 DEF Relay, Exclusive, Flagged, Relaying, Untouched
  <1>7. SameTalk(s, c, server_read(s), client_read(c))
    BY <1>2, <1>3 DEF SameTalk
  <1>8. QED BY <1>6, <1>7

-----------------------------------------------------------------------------
(* What a stream that is stopped or has lost an operation keeps. *)
LEMMA StillExclusive ==
    ASSUME NEW s \in ServerStream, NEW c \in ClientStream, Exclusive(s, c),
           NEW t \in ServerStream, NEW d \in ClientStream,
           t.reads \leq s.reads, t.writes \leq s.writes,
           s.starting = FALSE => t.starting = FALSE,
           d.reads \leq c.reads, d.writes \leq c.writes
    PROVE  Exclusive(t, d)
  <1>1. /\ s.reads \in Nat /\ s.writes \in Nat /\ t.reads \in Nat /\ t.writes \in Nat
        /\ c.reads \in Nat /\ c.writes \in Nat /\ d.reads \in Nat /\ d.writes \in Nat
        /\ s.starting \in BOOLEAN /\ t.starting \in BOOLEAN
    BY DEF ServerStream, ClientStream
  <1>2. QED BY <1>1 DEF Exclusive

-----------------------------------------------------------------------------
(* A handler, and an accept, change one session and keep the types. *)
LEMMA HandledChanges ==
    ASSUME NEW S, CoreTypeOK(S), NEW i \in Ids,
           NEW st \in S \cup {Erased}, NEW s \in ServerStream, NEW c \in ClientStream,
           Handled(i, st, s, c)
    PROVE  /\ CoreTypeOK(S)' /\ running' = running /\ stream_id' = stream_id
           /\ session'[i] = st /\ server'[i] = s /\ client'[i] = c
           /\ \A j \in Ids : j # i => /\ session'[j] = session[j]
                                      /\ server'[j] = server[j] /\ client'[j] = client[j]
  BY DEF CoreTypeOK, Handled

LEMMA AcceptChanges ==
    ASSUME NEW S, CoreTypeOK(S), NEW i \in Ids, NEW first \in S, accept(i, first)
    PROVE  /\ CoreTypeOK(S)' /\ running' = running /\ stream_id' = i /\ i = stream_id + 1
           /\ session'[i] = first /\ server'[i] = ServerStream_start /\ client'[i] = client[i]
           /\ \A j \in Ids : j # i => /\ session'[j] = session[j]
                                      /\ server'[j] = server[j] /\ client'[j] = client[j]
  <1>1. /\ i = stream_id + 1 /\ stream_id' = i /\ running' = running /\ client' = client
        /\ session' = [session EXCEPT ![i] = first]
        /\ server' = [server EXCEPT ![i] = ServerStream_start]
    BY DEF accept
  <1>2. stream_id' \in 0..MaxSessions
    BY <1>1, BoundsAssumption DEF Ids
  <1>3. QED BY <1>1, <1>2, StartType DEF CoreTypeOK

(* An id that is still to be given to a connection *)
Fresh(i) == session[i] = Erased /\ server[i] = NoServer /\ client[i] = NoClient
AllFresh == \A i \in Ids : i > stream_id => Fresh(i)

(* Only a connection that was accepted has operations outstanding. *)
LEMMA PendingAccepted ==
    ASSUME AllFresh, stream_id \in 0..MaxSessions, NEW i \in Ids,
           ~(ServerQuiet(server[i]) /\ ClientQuiet(client[i]))
    PROVE  i \leq stream_id
  <1>1. SUFFICES ASSUME i > stream_id PROVE FALSE
    BY BoundsAssumption DEF Ids
  <1>2. QED BY <1>1, InitialType DEF AllFresh, Fresh
-----------------------------------------------------------------------------
(* What a completion may do to a session that was erased: it takes one of   *)
(* the operations that are outstanding, and starts none.                    *)
Shrinks(s, c, t, d) ==
    /\ t.reads \leq s.reads /\ t.writes \leq s.writes
    /\ d.reads \leq c.reads /\ d.writes \leq c.writes
    /\ ClientQuiet(c) => ClientQuiet(d)

LEMMA ServerShrinks ==
    ASSUME NEW s \in ServerStream, NEW c \in ClientStream, NEW t,
           t.reads \in {s.reads, s.reads - 1} \/ t.reads \leq s.reads,
           t.writes \in {s.writes, s.writes - 1} \/ t.writes \leq s.writes
    PROVE  Shrinks(s, c, t, c)
  <1>1. s.reads \in Nat /\ s.writes \in Nat /\ c.reads \in Nat /\ c.writes \in Nat
    BY DEF ServerStream, ClientStream
  <1>2. t.reads \leq s.reads /\ t.writes \leq s.writes
    BY <1>1
  <1>3. QED BY <1>1, <1>2 DEF Shrinks

LEMMA ClientShrinks ==
    ASSUME NEW s \in ServerStream, NEW c \in ClientStream, NEW d \in ClientStream,
           d.reads \in {c.reads, c.reads - 1} \/ d.reads \leq c.reads,
           d.writes \in {c.writes, c.writes - 1} \/ d.writes \leq c.writes,
           d.phase \in {c.phase, "failed"}
    PROVE  Shrinks(s, c, s, d)
  <1>1. /\ s.reads \in Nat /\ s.writes \in Nat /\ c.reads \in Nat /\ c.writes \in Nat
        /\ d.reads \in Nat /\ d.writes \in Nat
    BY DEF ServerStream, ClientStream
  <1>2. s.reads \leq s.reads /\ s.writes \leq s.writes
        /\ d.reads \leq c.reads /\ d.writes \leq c.writes
    BY <1>1
  <1>3. ClientQuiet(c) => ClientQuiet(d)
    BY <1>1, <1>2 DEF ClientQuiet
  <1>4. QED BY <1>2, <1>3 DEF Shrinks

LEMMA CompletionShrinks ==
    ASSUME NEW s \in ServerStream, NEW c \in ClientStream
    PROVE  /\ Shrinks(s, c, s, c)
           /\ Shrinks(s, c, server_ready(s), c)
           /\ s.reads > 0 => Shrinks(s, c, server_read_ok(s), c)
           /\ s.writes > 0 => Shrinks(s, c, server_write_ok(s), c)
           /\ \A op \in ServerFailures(s) : Shrinks(s, c, server_failed(s, op), c)
           /\ \A op : Shrinks(s, c, server_closed(s, op), c)
           /\ c.reads > 0 => Shrinks(s, c, s, client_read_ok(c))
           /\ c.writes > 0 => Shrinks(s, c, s, client_write_ok(c))
           /\ \A op \in ClientFailures(c) : Shrinks(s, c, s, client_failed(c, op))
  <1>1. Shrinks(s, c, s, c)
    BY ServerShrinks
  <1>2. Shrinks(s, c, server_ready(s), c)
    <2>1. server_ready(s).reads = s.reads /\ server_ready(s).writes = s.writes
      BY ServerReady
    <2>2. QED BY <2>1, ServerShrinks
  <1>3. ASSUME s.reads > 0 PROVE Shrinks(s, c, server_read_ok(s), c)
    <2>1. server_read_ok(s).reads = s.reads - 1 /\ server_read_ok(s).writes = s.writes
      BY <1>3, ServerReadOk
    <2>2. QED BY <2>1, ServerShrinks
  <1>4. ASSUME s.writes > 0 PROVE Shrinks(s, c, server_write_ok(s), c)
    <2>1. server_write_ok(s).reads = s.reads /\ server_write_ok(s).writes = s.writes - 1
      BY <1>4, ServerWriteOk
    <2>2. QED BY <2>1, ServerShrinks
  <1>5. ASSUME NEW op \in ServerFailures(s) PROVE Shrinks(s, c, server_failed(s, op), c)
    <2>1. /\ server_failed(s, op).reads \leq s.reads
          /\ server_failed(s, op).writes \leq s.writes
      BY ServerFailed
    <2>2. QED BY <2>1, ServerShrinks
  <1>6. ASSUME NEW op PROVE Shrinks(s, c, server_closed(s, op), c)
    <2>1. server_closed(s, op).reads = s.reads /\ server_closed(s, op).writes = s.writes
      BY ServerClosed
    <2>2. QED BY <2>1, ServerShrinks
  <1>7. ASSUME c.reads > 0 PROVE Shrinks(s, c, s, client_read_ok(c))
    <2>1. /\ client_read_ok(c) \in ClientStream /\ client_read_ok(c).phase = c.phase
          /\ client_read_ok(c).reads = c.reads - 1 /\ client_read_ok(c).writes = c.writes
      BY <1>7, ClientReadOk
    <2>2. QED BY <2>1, ClientShrinks
  <1>8. ASSUME c.writes > 0 PROVE Shrinks(s, c, s, client_write_ok(c))
    <2>1. /\ client_write_ok(c) \in ClientStream /\ client_write_ok(c).phase = c.phase
          /\ client_write_ok(c).reads = c.reads /\ client_write_ok(c).writes = c.writes - 1
      BY <1>8, ClientWriteOk
    <2>2. QED BY <2>1, ClientShrinks
  <1>9. ASSUME NEW op \in ClientFailures(c) PROVE Shrinks(s, c, s, client_failed(c, op))
    <2>1. /\ client_failed(c, op) \in ClientStream
          /\ client_failed(c, op).reads \leq c.reads /\ client_failed(c, op).writes \leq c.writes
          /\ client_failed(c, op).phase \in {c.phase, "failed"}
      BY ClientFailed
    <2>2. QED BY <2>1, ClientShrinks
  <1>10. QED BY <1>1, <1>2, <1>3, <1>4, <1>5, <1>6, <1>7, <1>8, <1>9

(* A step of session j starts nothing on the streams of an erased session   *)
(* i if, for an erased j, it only takes from what is outstanding.           *)
LEMMA HandledQuiet ==
    ASSUME NEW S, CoreTypeOK(S), NEW i \in Ids, NEW j \in Ids,
           NEW st, NEW s, NEW c, Handled(j, st, s, c),
           session[j] = Erased => st = Erased /\ Shrinks(server[j], client[j], s, c)
    PROVE  NoNewOperation(i)
  <1>1. /\ session' = [session EXCEPT ![j] = st] /\ server' = [server EXCEPT ![j] = s]
        /\ client' = [client EXCEPT ![j] = c]
    BY DEF Handled
  <1>2. SUFFICES ASSUME session[i] = Erased
                 PROVE  session'[i] = Erased /\ Shrinks(server[i], client[i], server'[i], client'[i])
    BY DEF NoNewOperation, Live, Shrinks
  <1>3. CASE i = j
    BY <1>1, <1>2, <1>3 DEF CoreTypeOK
  <1>4. CASE i # j
    <2>1. session'[i] = session[i] /\ server'[i] = server[i] /\ client'[i] = client[i]
      BY <1>1, <1>4 DEF CoreTypeOK
    <2>2. server[i] \in ServerStream /\ client[i] \in ClientStream
      BY DEF CoreTypeOK
    <2>3. QED BY <1>2, <2>1, <2>2, CompletionShrinks
  <1>5. QED BY <1>3, <1>4

(* The same for a callback of session j that may do anything while j lives. *)
LEMMA QuietWhenIgnored ==
    ASSUME NEW S, CoreTypeOK(S), NEW i \in Ids, NEW j \in Ids, session[j] = Erased,
           NEW s, NEW c, Ignored(j, s, c), Shrinks(server[j], client[j], s, c)
    PROVE  NoNewOperation(i)
  BY HandledQuiet DEF Ignored

LEMMA QuietWhenLive ==
    ASSUME NEW S, CoreTypeOK(S), NEW i \in Ids, NEW j \in Ids, session[j] # Erased,
           NEW st, NEW s, NEW c, Handled(j, st, s, c)
    PROVE  NoNewOperation(i)
  BY HandledQuiet

(* An accept, and a signal, leave the sessions that were erased alone. *)
LEMMA AcceptQuiet ==
    ASSUME NEW S, CoreTypeOK(S), NEW i \in Ids, NEW j \in Ids, NEW first, accept(j, first)
    PROVE  NoNewOperation(i)
  <1>1. SUFFICES ASSUME session[i] = Erased, i \leq stream_id
                 PROVE  session'[i] = Erased /\ Shrinks(server[i], client[i], server'[i], client'[i])
    BY DEF NoNewOperation, Live, Shrinks
  <1>2. j # i
    BY <1>1 DEF accept, CoreTypeOK, Ids
  <1>3. session'[i] = session[i] /\ server'[i] = server[i] /\ client'[i] = client[i]
    BY <1>2 DEF accept, CoreTypeOK
  <1>4. server[i] \in ServerStream /\ client[i] \in ClientStream
    BY DEF CoreTypeOK
  <1>5. QED BY <1>1, <1>3, <1>4, CompletionShrinks

LEMMA SignalQuiet ==
    ASSUME NEW S, CoreTypeOK(S), NEW i \in Ids, signal
    PROVE  NoNewOperation(i)
  <1>1. server[i] \in ServerStream /\ client[i] \in ClientStream
    BY DEF CoreTypeOK
  <1>2. Shrinks(server[i], client[i], server[i], client[i])
    BY <1>1, CompletionShrinks
  <1>3. session' = session /\ server' = server /\ client' = client
    BY DEF signal
  <1>4. QED BY <1>2, <1>3 DEF NoNewOperation, Live, Shrinks

-----------------------------------------------------------------------------
(* The three modes implement tunnels by the same argument.  What their      *)
(* safety invariants do not say, and the refinement needs, is what a write  *)
(* of a chunk that is under way carries: the chunk that was taken last, and *)
(* the only one that was not given yet (Carrying).  This outlives the       *)
(* session: the last chunk may arrive after its session was erased, and is  *)
(* then still the right one.  Each step of a proxy changes one session; if  *)
(* what it does to the session Advances, it is one step of the session's    *)
(* tunnel, or none (StepMaps).  The lemmas after it show that what the      *)
(* handlers of the three modes have in common does.                         *)

(* A pending write of a chunk sends the one chunk that is missing on its side *)
Carrying(s, c) ==
    /\ c.writes > 0 /\ c.wbuf.kind = "data" => c.wbuf.seq = s.got /\ s.got = Len(c.put) + 1
    /\ s.writes > 0 /\ s.wbuf.kind = "data" => s.wbuf.seq = c.got /\ c.got = Len(s.put) + 1

InFlight == \A i \in Ids : Carrying(server[i], client[i])

(* The tunnel's variables under the refinement mapping *)
phases    == [i \in Ids |-> tunnelPhase(i)]
upTaken   == [i \in Ids |-> server[i].got]
upGiven   == [i \in Ids |-> client[i].put]
downTaken == [i \in Ids |-> client[i].got]
downGiven == [i \in Ids |-> server[i].put]

(* The phase of a tunnel whose connection was accepted *)
PhaseOf(st) == CASE st = Erased -> "closed"
                 [] st \in RelayStates -> "open"
                 [] OTHER -> "opening"

(* A tunnel that is opening stays so, opens or closes, an open one closes *)
PhaseStep(a, b) ==
    \/ PhaseOf(a) = PhaseOf(b)
    \/ PhaseOf(a) = "opening" /\ PhaseOf(b) \in {"open", "closed"}
    \/ PhaseOf(a) = "open" /\ PhaseOf(b) = "closed"

SameUp(s, c, t, d)   == t.got = s.got /\ d.put = c.put
SameDown(s, c, t, d) == d.got = c.got /\ t.put = s.put

(* What the steps of a session from (a, s, c) to (b, t, d) do to its tunnel *)
Turns(a, s, c, b, t, d) == SameUp(s, c, t, d) /\ SameDown(s, c, t, d) /\ PhaseStep(a, b)

TakesUp(a, s, c, b, t, d) ==
    /\ a \in RelayStates /\ b = a /\ SameDown(s, c, t, d)
    /\ s.got = Len(c.put) /\ t.got = s.got + 1 /\ d.put = c.put

TakesDown(a, s, c, b, t, d) ==
    /\ a \in RelayStates /\ b = a /\ SameUp(s, c, t, d)
    /\ c.got = Len(s.put) /\ d.got = c.got + 1 /\ t.put = s.put

GivesUp(a, s, c, b, t, d) ==
    /\ b = a /\ SameDown(s, c, t, d)
    /\ Len(c.put) < s.got /\ t.got = s.got /\ d.put = Append(c.put, s.got)

GivesDown(a, s, c, b, t, d) ==
    /\ b = a /\ SameUp(s, c, t, d)
    /\ Len(s.put) < c.got /\ d.got = c.got /\ t.put = Append(s.put, c.got)

Advances(a, s, c, b, t, d) ==
    /\ Carrying(t, d)
    /\ \/ Turns(a, s, c, b, t, d)
       \/ TakesUp(a, s, c, b, t, d) \/ GivesUp(a, s, c, b, t, d)
       \/ TakesDown(a, s, c, b, t, d) \/ GivesDown(a, s, c, b, t, d)

(* A step of session i, also the one that ends the program *)
Changes(i, b, t, d) ==
    /\ session' = [session EXCEPT ![i] = b]
    /\ server' = [server EXCEPT ![i] = t]
    /\ client' = [client EXCEPT ![i] = d]
    /\ stream_id' = stream_id

(* The step of the tunnels that a step of the proxy has to be *)
Refines == InFlight' /\ [T!Next]_(T!vars)

-----------------------------------------------------------------------------
LEMMA HandledIsChange ==
    ASSUME NEW i, NEW b, NEW t, NEW d, Handled(i, b, t, d)
    PROVE  Changes(i, b, t, d)
  BY DEF Handled, Changes

(* A step of session i changes the i-th component of each variable of the   *)
(* tunnels and no other.                                                    *)
LEMMA Project ==
    ASSUME NEW S, CoreTypeOK(S), NEW i \in Ids, i \leq stream_id,
           NEW b, NEW t, NEW d, Changes(i, b, t, d)
    PROVE  /\ phases[i] = PhaseOf(session[i])
           /\ phases'    = [phases EXCEPT ![i] = PhaseOf(b)]
           /\ upTaken'   = [upTaken EXCEPT ![i] = t.got]
           /\ upGiven'   = [upGiven EXCEPT ![i] = d.put]
           /\ downTaken' = [downTaken EXCEPT ![i] = d.got]
           /\ downGiven' = [downGiven EXCEPT ![i] = t.put]
  <1>1. /\ session' = [session EXCEPT ![i] = b] /\ server' = [server EXCEPT ![i] = t]
        /\ client' = [client EXCEPT ![i] = d] /\ stream_id' = stream_id
    BY DEF Changes
  <1>2. /\ DOMAIN session = Ids /\ DOMAIN server = Ids /\ DOMAIN client = Ids
    BY DEF CoreTypeOK
  <1>3. /\ session'[i] = b /\ server'[i] = t /\ client'[i] = d
        /\ \A j \in Ids \ {i} : /\ session'[j] = session[j]
                                /\ server'[j] = server[j] /\ client'[j] = client[j]
    BY <1>1, <1>2
  <1>4. stream_id \in Nat /\ i \in Nat /\ ~(i > stream_id)
    BY BoundsAssumption DEF CoreTypeOK, Ids
  <1>5. tunnelPhase(i) = PhaseOf(session[i])
    BY <1>4 DEF tunnelPhase, PhaseOf, Live
  <1>6. tunnelPhase(i)' = PhaseOf(b)
    BY <1>1, <1>3, <1>4 DEF tunnelPhase, PhaseOf, Live
  <1>7. \A j \in Ids \ {i} : tunnelPhase(j)' = tunnelPhase(j)
    BY <1>1, <1>3 DEF tunnelPhase, Live
  <1>8. phases' = [phases EXCEPT ![i] = PhaseOf(b)]
    BY <1>6, <1>7 DEF phases
  <1>9. /\ upTaken' = [upTaken EXCEPT ![i] = t.got]
        /\ upGiven' = [upGiven EXCEPT ![i] = d.put]
        /\ downTaken' = [downTaken EXCEPT ![i] = d.got]
        /\ downGiven' = [downGiven EXCEPT ![i] = t.put]
    BY <1>3 DEF upTaken, upGiven, downTaken, downGiven
  <1>10. QED BY <1>5, <1>8, <1>9 DEF phases

(* Writing back what a component holds changes nothing. *)
LEMMA SameComponent ==
    ASSUME NEW S, NEW f, f = [x \in S |-> f[x]], NEW i \in S, NEW v, v = f[i]
    PROVE  [f EXCEPT ![i] = v] = f
  OBVIOUS

LEMMA Components ==
    /\ phases    = [x \in Ids |-> phases[x]]
    /\ upTaken   = [x \in Ids |-> upTaken[x]]
    /\ upGiven   = [x \in Ids |-> upGiven[x]]
    /\ downTaken = [x \in Ids |-> downTaken[x]]
    /\ downGiven = [x \in Ids |-> downGiven[x]]
  BY DEF phases, upTaken, upGiven, downTaken, downGiven

LEMMA StepMaps ==
    ASSUME NEW S, CoreTypeOK(S), InFlight, NEW i \in Ids, i \leq stream_id,
           NEW b, NEW t, NEW d, Changes(i, b, t, d),
           Advances(session[i], server[i], client[i], b, t, d)
    PROVE  Refines
  <1> DEFINE a == session[i]
             s == server[i]
             c == client[i]
  <1>1. /\ phases[i] = PhaseOf(a)
        /\ phases'    = [phases EXCEPT ![i] = PhaseOf(b)]
        /\ upTaken'   = [upTaken EXCEPT ![i] = t.got]
        /\ upGiven'   = [upGiven EXCEPT ![i] = d.put]
        /\ downTaken' = [downTaken EXCEPT ![i] = d.got]
        /\ downGiven' = [downGiven EXCEPT ![i] = t.put]
    BY Project
  <1>2. /\ upTaken[i] = s.got /\ upGiven[i] = c.put
        /\ downTaken[i] = c.got /\ downGiven[i] = s.put
    BY DEF upTaken, upGiven, downTaken, downGiven
  <1>3. /\ PhaseOf(b) = PhaseOf(a) => phases' = phases
        /\ t.got = s.got => upTaken' = upTaken
        /\ d.put = c.put => upGiven' = upGiven
        /\ d.got = c.got => downTaken' = downTaken
        /\ t.put = s.put => downGiven' = downGiven
    BY <1>1, <1>2, SameComponent, Components
  <1>4. InFlight'
    BY DEF CoreTypeOK, InFlight, Changes, Advances
  <1> HIDE DEF a, s, c
  <1>5. CASE Turns(a, s, c, b, t, d)
    <2>1. /\ upTaken' = upTaken /\ upGiven' = upGiven
          /\ downTaken' = downTaken /\ downGiven' = downGiven
      BY <1>3, <1>5 DEF Turns, SameUp, SameDown
    <2>2. CASE PhaseOf(a) = PhaseOf(b)
      <3>1. UNCHANGED T!vars
        BY <1>3, <2>1, <2>2 DEF T!vars, phases, upTaken, upGiven, downTaken, downGiven
      <3>2. QED BY <1>4, <3>1 DEF Refines
    <2>3. CASE PhaseOf(a) = "opening" /\ PhaseOf(b) \in {"open", "closed"}
      <3>1. T!Open(i) \/ T!Close(i)
        BY <1>1, <2>1, <2>3
           DEF T!Open, T!Close, T!Move, phases, upTaken, upGiven, downTaken, downGiven
      <3>2. QED BY <1>4, <3>1 DEF Refines, T!Next
    <2>4. CASE PhaseOf(a) = "open" /\ PhaseOf(b) = "closed"
      <3>1. T!Close(i)
        BY <1>1, <2>1, <2>4
           DEF T!Close, T!Move, phases, upTaken, upGiven, downTaken, downGiven
      <3>2. QED BY <1>4, <3>1 DEF Refines, T!Next
    <2>5. QED BY <1>5, <2>2, <2>3, <2>4 DEF Turns, PhaseStep
  <1>6. CASE TakesUp(a, s, c, b, t, d)
    <2>1. /\ phases' = phases /\ upGiven' = upGiven
          /\ downTaken' = downTaken /\ downGiven' = downGiven
      BY <1>3, <1>6 DEF TakesUp, SameDown
    <2>2. phases[i] = "open"
      BY <1>1, <1>6 DEF TakesUp, PhaseOf, Erased, RelayStates
    <2>3. upTaken[i] = Len(upGiven[i]) /\ upTaken' = [upTaken EXCEPT ![i] = @ + 1]
      BY <1>1, <1>2, <1>6 DEF TakesUp
    <2>4. T!TakeUp(i)
      BY <2>1, <2>2, <2>3
         DEF T!TakeUp, phases, upTaken, upGiven, downTaken, downGiven
    <2>5. QED BY <1>4, <2>4 DEF Refines, T!Next
  <1>7. CASE TakesDown(a, s, c, b, t, d)
    <2>1. /\ phases' = phases /\ downGiven' = downGiven
          /\ upTaken' = upTaken /\ upGiven' = upGiven
      BY <1>3, <1>7 DEF TakesDown, SameUp
    <2>2. phases[i] = "open"
      BY <1>1, <1>7 DEF TakesDown, PhaseOf, Erased, RelayStates
    <2>3. downTaken[i] = Len(downGiven[i]) /\ downTaken' = [downTaken EXCEPT ![i] = @ + 1]
      BY <1>1, <1>2, <1>7 DEF TakesDown
    <2>4. T!TakeDown(i)
      BY <2>1, <2>2, <2>3
         DEF T!TakeDown, phases, upTaken, upGiven, downTaken, downGiven
    <2>5. QED BY <1>4, <2>4 DEF Refines, T!Next
  <1>8. CASE GivesUp(a, s, c, b, t, d)
    <2>1. /\ phases' = phases /\ upTaken' = upTaken
          /\ downTaken' = downTaken /\ downGiven' = downGiven
      BY <1>3, <1>8 DEF GivesUp, SameDown
    <2>2. /\ Len(upGiven[i]) < upTaken[i]
          /\ upGiven' = [upGiven EXCEPT ![i] = Append(@, upTaken[i])]
      BY <1>1, <1>2, <1>8 DEF GivesUp
    <2>3. T!GiveUp(i)
      BY <2>1, <2>2
         DEF T!GiveUp, phases, upTaken, upGiven, downTaken, downGiven
    <2>4. QED BY <1>4, <2>3 DEF Refines, T!Next
  <1>9. CASE GivesDown(a, s, c, b, t, d)
    <2>1. /\ phases' = phases /\ downTaken' = downTaken
          /\ upTaken' = upTaken /\ upGiven' = upGiven
      BY <1>3, <1>9 DEF GivesDown, SameUp
    <2>2. /\ Len(downGiven[i]) < downTaken[i]
          /\ downGiven' = [downGiven EXCEPT ![i] = Append(@, downTaken[i])]
      BY <1>1, <1>2, <1>9 DEF GivesDown
    <2>3. T!GiveDown(i)
      BY <2>1, <2>2
         DEF T!GiveDown, phases, upTaken, upGiven, downTaken, downGiven
    <2>4. QED BY <1>4, <2>3 DEF Refines, T!Next
  <1>10. QED BY <1>5, <1>6, <1>7, <1>8, <1>9 DEF Advances, a, s, c

-----------------------------------------------------------------------------
(* y is what became of the stream x: nothing was relayed, and no write of a *)
(* chunk was started.                                                       *)
Keeps(x, y) ==
    /\ y.got = x.got /\ y.put = x.put
    /\ y.writes > 0 /\ y.wbuf.kind = "data" => x.writes > 0 /\ y.wbuf = x.wbuf

LEMMA KeepsOn ==
    ASSUME NEW x, NEW y, NEW z, Keeps(x, y), Keeps(y, z)
    PROVE  Keeps(x, z)
  BY DEF Keeps

(* A stream that lost an operation, or none, and said nothing. *)
LEMMA Lessens ==
    ASSUME NEW x, NEW y, x.writes \in Nat, y.writes \in Nat, y.writes \leq x.writes,
           y.wbuf = x.wbuf, y.got = x.got, y.put = x.put
    PROVE  Keeps(x, y)
  BY DEF Keeps

(* Every method and completion of a server stream but the one that relays   *)
(* a chunk.                                                                 *)
LEMMA ServerKeeps ==
    ASSUME NEW s \in ServerStream
    PROVE  /\ Keeps(s, s)
           /\ Keeps(s, server_ready(s))
           /\ Keeps(s, server_read(s))
           /\ Keeps(s, server_stop(s))
           /\ s.reads > 0 => Keeps(s, server_read_ok(s))
           /\ s.writes > 0 /\ s.wbuf.kind # "data" => Keeps(s, server_write_ok(s))
           /\ \A k \in Kinds \ {"data"} : Keeps(s, server_write(s, Message(k)))
           /\ \A op \in ServerFailures(s) : Keeps(s, server_failed(s, op))
           /\ \A op : Keeps(s, server_closed(s, op))
  <1>0. s.writes \in Nat /\ s.writes \leq s.writes
    BY DEF ServerStream
  <1>1. Keeps(s, s)
    BY <1>0, Lessens
  <1>2. Keeps(s, server_ready(s))
    <2>1. /\ server_ready(s).writes = s.writes /\ server_ready(s).wbuf = s.wbuf
          /\ server_ready(s).got = s.got /\ server_ready(s).put = s.put
      BY ServerReady
    <2>2. QED BY <1>0, <2>1, Lessens
  <1>3. Keeps(s, server_read(s))
    <2>1. CASE Tls \/ s.rip = FALSE
      <3>1. /\ server_read(s).writes = s.writes /\ server_read(s).wbuf = s.wbuf
            /\ server_read(s).got = s.got /\ server_read(s).put = s.put
        BY <2>1, ServerRead
      <3>2. QED BY <1>0, <3>1, Lessens
    <2>2. CASE ~Tls /\ s.rip = TRUE
      <3>1. server_read(s) = s
        BY <2>2 DEF server_read, TcpServerStream_read_tcp
      <3>2. QED BY <1>1, <3>1
    <2>3. QED BY <2>1, <2>2 DEF ServerStream
  <1>4. Keeps(s, server_stop(s))
    <2>1. /\ server_stop(s).writes = s.writes /\ server_stop(s).wbuf = s.wbuf
          /\ server_stop(s).got = s.got /\ server_stop(s).put = s.put
      BY ServerStop
    <2>2. QED BY <1>0, <2>1, Lessens
  <1>5. ASSUME s.reads > 0 PROVE Keeps(s, server_read_ok(s))
    <2>1. /\ server_read_ok(s).writes = s.writes /\ server_read_ok(s).wbuf = s.wbuf
          /\ server_read_ok(s).got = s.got /\ server_read_ok(s).put = s.put
      BY <1>5, ServerReadOk
    <2>2. QED BY <1>0, <2>1, Lessens
  <1>6. ASSUME s.writes > 0, s.wbuf.kind # "data" PROVE Keeps(s, server_write_ok(s))
    <2>1. /\ server_write_ok(s).writes = s.writes - 1 /\ server_write_ok(s).wbuf = s.wbuf
          /\ server_write_ok(s).got = s.got /\ server_write_ok(s).put = s.put
      BY <1>6, ServerWriteOk
    <2>2. s.writes - 1 \in Nat /\ s.writes - 1 \leq s.writes
      BY <1>0, <1>6
    <2>3. QED BY <1>0, <2>1, <2>2, Lessens
  <1>7. ASSUME NEW k \in Kinds \ {"data"} PROVE Keeps(s, server_write(s, Message(k)))
    <2> DEFINE m == Message(k)
    <2>1. m \in Content /\ m.kind # "data"
      BY ContentType
    <2> HIDE DEF m
    <2>2. CASE Tls \/ s.wip = FALSE
      <3>1. /\ server_write(s, m).wbuf = m
            /\ server_write(s, m).got = s.got /\ server_write(s, m).put = s.put
        BY <2>1, <2>2, ServerWrite
      <3>2. QED BY <2>1, <3>1 DEF Keeps, m
    <2>3. CASE ~Tls /\ s.wip = TRUE
      <3>1. server_write(s, m) = s
        BY <2>3 DEF server_write, TcpServerStream_write_tcp
      <3>2. QED BY <1>1, <3>1 DEF m
    <2>4. QED BY <2>2, <2>3 DEF ServerStream
  <1>8. ASSUME NEW op \in ServerFailures(s) PROVE Keeps(s, server_failed(s, op))
    <2> DEFINE t == server_failed(s, op)
    <2>1. /\ t \in ServerStream /\ t.writes \leq s.writes /\ t.wbuf = s.wbuf
          /\ t.got = s.got /\ t.put = s.put
      BY ServerFailed
    <2> HIDE DEF t
    <2>2. t.writes \in Nat
      BY <2>1 DEF ServerStream
    <2>3. Keeps(s, t)
      BY <1>0, <2>1, <2>2, Lessens
    <2>4. QED BY <2>3 DEF t
  <1>9. ASSUME NEW op PROVE Keeps(s, server_closed(s, op))
    <2>1. /\ server_closed(s, op).writes = s.writes /\ server_closed(s, op).wbuf = s.wbuf
          /\ server_closed(s, op).got = s.got /\ server_closed(s, op).put = s.put
      BY ServerClosed
    <2>2. QED BY <1>0, <2>1, Lessens
  <1>10. QED BY <1>1, <1>2, <1>3, <1>4, <1>5, <1>6, <1>7, <1>8, <1>9

(* The same of a client stream. *)
LEMMA ClientKeeps ==
    ASSUME NEW c \in ClientStream
    PROVE  /\ Keeps(c, c)
           /\ c.got = 0 /\ c.put = <<>> => Keeps(c, TcpClientStream_create)
           /\ Keeps(c, TcpClientStream_start(c))
           /\ Keeps(c, client_resolved(c))
           /\ Keeps(c, client_connected(c))
           /\ Keeps(c, client_read(c))
           /\ Keeps(c, client_stop(c))
           /\ c.reads > 0 => Keeps(c, client_read_ok(c))
           /\ c.writes > 0 /\ c.wbuf.kind # "data" => Keeps(c, client_write_ok(c))
           /\ \A k \in Kinds \ {"data"} : Keeps(c, client_write(c, Message(k)))
           /\ \A op \in ClientFailures(c) : Keeps(c, client_failed(c, op))
  <1>0. c.writes \in Nat /\ c.writes \leq c.writes
    BY DEF ClientStream
  <1>1. Keeps(c, c)
    BY <1>0, Lessens
  <1>2. ASSUME c.got = 0, c.put = <<>> PROVE Keeps(c, TcpClientStream_create)
    BY <1>2, CreateType DEF Keeps
  <1>3. Keeps(c, TcpClientStream_start(c))
    <2>1. /\ TcpClientStream_start(c).writes = c.writes /\ TcpClientStream_start(c).wbuf = c.wbuf
          /\ TcpClientStream_start(c).got = c.got /\ TcpClientStream_start(c).put = c.put
      BY ClientStart
    <2>2. QED BY <1>0, <2>1, Lessens
  <1>4. Keeps(c, client_resolved(c))
    <2>1. /\ client_resolved(c).writes = c.writes /\ client_resolved(c).wbuf = c.wbuf
          /\ client_resolved(c).got = c.got /\ client_resolved(c).put = c.put
      BY ClientResolved
    <2>2. QED BY <1>0, <2>1, Lessens
  <1>5. Keeps(c, client_connected(c))
    <2>1. /\ client_connected(c).writes = c.writes /\ client_connected(c).wbuf = c.wbuf
          /\ client_connected(c).got = c.got /\ client_connected(c).put = c.put
      BY ClientConnected
    <2>2. QED BY <1>0, <2>1, Lessens
  <1>6. Keeps(c, client_read(c))
    <2>1. CASE c.rip = FALSE
      <3>1. /\ client_read(c).writes = c.writes /\ client_read(c).wbuf = c.wbuf
            /\ client_read(c).got = c.got /\ client_read(c).put = c.put
        BY <2>1, ClientRead
      <3>2. QED BY <1>0, <3>1, Lessens
    <2>2. CASE c.rip = TRUE
      <3>1. client_read(c) = c
        BY <2>2 DEF client_read
      <3>2. QED BY <1>1, <3>1
    <2>3. QED BY <2>1, <2>2 DEF ClientStream
  <1>7. Keeps(c, client_stop(c))
    <2>1. /\ client_stop(c).writes = c.writes /\ client_stop(c).wbuf = c.wbuf
          /\ client_stop(c).got = c.got /\ client_stop(c).put = c.put
      BY ClientStop
    <2>2. QED BY <1>0, <2>1, Lessens
  <1>8. ASSUME c.reads > 0 PROVE Keeps(c, client_read_ok(c))
    <2>1. /\ client_read_ok(c).writes = c.writes /\ client_read_ok(c).wbuf = c.wbuf
          /\ client_read_ok(c).got = c.got /\ client_read_ok(c).put = c.put
      BY <1>8, ClientReadOk
    <2>2. QED BY <1>0, <2>1, Lessens
  <1>9. ASSUME c.writes > 0, c.wbuf.kind # "data" PROVE Keeps(c, client_write_ok(c))
    <2>1. /\ client_write_ok(c).writes = c.writes - 1 /\ client_write_ok(c).wbuf = c.wbuf
          /\ client_write_ok(c).got = c.got /\ client_write_ok(c).put = c.put
      BY <1>9, ClientWriteOk
    <2>2. c.writes - 1 \in Nat /\ c.writes - 1 \leq c.writes
      BY <1>0, <1>9
    <2>3. QED BY <1>0, <2>1, <2>2, Lessens
  <1>10. ASSUME NEW k \in Kinds \ {"data"} PROVE Keeps(c, client_write(c, Message(k)))
    <2> DEFINE m == Message(k)
    <2>1. m \in Content /\ m.kind # "data"
      BY ContentType
    <2> HIDE DEF m
    <2>2. CASE c.wip = FALSE
      <3>1. /\ client_write(c, m).wbuf = m
            /\ client_write(c, m).got = c.got /\ client_write(c, m).put = c.put
        BY <2>1, <2>2, ClientWrite
      <3>2. QED BY <2>1, <3>1 DEF Keeps, m
    <2>3. CASE c.wip = TRUE
      <3>1. client_write(c, m) = c
        BY <2>3 DEF client_write
      <3>2. QED BY <1>1, <3>1 DEF m
    <2>4. QED BY <2>2, <2>3 DEF ClientStream
  <1>11. ASSUME NEW op \in ClientFailures(c) PROVE Keeps(c, client_failed(c, op))
    <2> DEFINE d == client_failed(c, op)
    <2>1. /\ d \in ClientStream /\ d.writes \leq c.writes /\ d.wbuf = c.wbuf
          /\ d.got = c.got /\ d.put = c.put
      BY ClientFailed
    <2> HIDE DEF d
    <2>2. d.writes \in Nat
      BY <2>1 DEF ClientStream
    <2>3. Keeps(c, d)
      BY <1>0, <2>1, <2>2, Lessens
    <2>4. QED BY <2>3 DEF d
  <1>12. QED BY <1>1, <1>2, <1>3, <1>4, <1>5, <1>6, <1>7, <1>8, <1>9, <1>10, <1>11

-----------------------------------------------------------------------------
(* A write of a server stream, also one that its flag drops. *)
LEMMA WriteType ==
    ASSUME NEW s \in ServerStream, NEW m \in Content
    PROVE  server_write(s, m) \in ServerStream
  <1>1. CASE Tls \/ s.wip = FALSE
    BY <1>1, ServerWrite
  <1>2. CASE ~Tls /\ s.wip = TRUE
    BY <1>2 DEF server_write, TcpServerStream_write_tcp
  <1>3. QED BY <1>1, <1>2 DEF ServerStream

(* What a session's phase may become. *)
LEMMA Phases ==
    /\ \A a : PhaseStep(a, a) /\ PhaseStep(a, Erased)
    /\ \A a, b : a \notin RelayStates \cup {Erased} => PhaseStep(a, b)
  <1>1. \A a : PhaseOf(a) \in {"closed", "open", "opening"}
    BY DEF PhaseOf
  <1>2. PhaseOf(Erased) = "closed"
    BY DEF PhaseOf, Erased, RelayStates
  <1>3. \A a : a \notin RelayStates \cup {Erased} => PhaseOf(a) = "opening"
    BY DEF PhaseOf
  <1>4. \A a : PhaseStep(a, a) /\ PhaseStep(a, Erased)
    BY <1>1, <1>2 DEF PhaseStep
  <1>5. \A a, b : a \notin RelayStates \cup {Erased} => PhaseStep(a, b)
    BY <1>1, <1>3 DEF PhaseStep
  <1>6. QED BY <1>4, <1>5

(* A step that relays nothing: the tunnel keeps its channels, and at most   *)
(* opens or closes.                                                         *)
LEMMA KeepsMaps ==
    ASSUME NEW S, CoreTypeOK(S), InFlight, NEW i \in Ids, i \leq stream_id,
           NEW b, NEW t, NEW d, Changes(i, b, t, d),
           Keeps(server[i], t), Keeps(client[i], d), PhaseStep(session[i], b)
    PROVE  Refines
  <1>1. Carrying(server[i], client[i])
    BY DEF InFlight
  <1>2. Carrying(t, d)
    BY <1>1 DEF Carrying, Keeps
  <1>3. Turns(session[i], server[i], client[i], b, t, d)
    BY DEF Turns, SameUp, SameDown, Keeps
  <1>4. QED BY <1>2, <1>3, StepMaps DEF Advances

(* A callback that finds nothing to do, or stops the session. *)
LEMMA IgnoredMaps ==
    ASSUME NEW S, CoreTypeOK(S), InFlight, NEW i \in Ids, i \leq stream_id,
           NEW t, NEW d, Ignored(i, t, d), Keeps(server[i], t), Keeps(client[i], d)
    PROVE  Refines
  BY KeepsMaps, HandledIsChange, Phases DEF Ignored

LEMMA StopMaps ==
    ASSUME NEW S, CoreTypeOK(S), InFlight, NEW i \in Ids, i \leq stream_id,
           NEW t \in ServerStream, NEW d \in ClientStream, StopBoth(i, t, d),
           Keeps(server[i], t), Keeps(client[i], d)
    PROVE  Refines
  <1>1. Keeps(server[i], server_stop(t))
    BY ServerKeeps, KeepsOn
  <1>2. Keeps(client[i], client_stop(d))
    BY ClientKeeps, KeepsOn
  <1>3. QED BY <1>1, <1>2, KeepsMaps, HandledIsChange, Phases DEF StopBoth

(* A chunk is read from the client, and is on its way to the host.          *)
LEMMA ReadUpMaps ==
    ASSUME NEW S, CoreTypeOK(S), InFlight, NEW i \in Ids, i \leq stream_id,
           session[i] \in RelayStates, Relay(server[i], client[i]), server[i].reads > 0,
           LET t == server_read_ok(server[i])
           IN Handled(i, session[i], Take(t), client_write(client[i], Data(t.got + 1)))
    PROVE  Refines
  <1> DEFINE s == server[i]
             c == client[i]
             r == server_read_ok(s)
             m == Data(r.got + 1)
             t == Take(r)
             d == client_write(c, m)
  <1>1. /\ s \in ServerStream /\ c \in ClientStream /\ s.got \in Nat /\ Len(c.put) \in Nat
        /\ s.reads = 1 /\ c.writes = 0 /\ c.wip = FALSE /\ s.got = Len(c.put)
    <2>1. /\ s \in ServerStream /\ c \in ClientStream
          /\ Exclusive(s, c) /\ Flagged(s, c) /\ Relaying(s, c)
      BY DEF Relay
    <2>2. /\ s.reads \in Nat /\ c.writes \in Nat /\ s.got \in Nat /\ Len(c.put) \in Nat
      BY <2>1 DEF ServerStream, ClientStream
    <2>3. s.reads = 1 /\ c.writes = 0 /\ c.wip = FALSE
      BY <2>1, <2>2 DEF Exclusive, Flagged, Relaying
    <2>4. QED BY <2>1, <2>2, <2>3 DEF Relaying
  <1>2. /\ r \in ServerStream /\ r.writes = s.writes /\ r.wbuf = s.wbuf
        /\ r.got = s.got /\ r.put = s.put
    BY ServerReadOk, <1>1
  <1>3. m \in Content /\ m.kind = "data" /\ m.seq = s.got + 1
    <2>1. r.got + 1 \in Nat /\ r.got + 1 = s.got + 1
      BY <1>1, <1>2
    <2>2. QED BY <2>1, ContentType
  <1>4. Changes(i, session[i], t, d)
    BY HandledIsChange
  <1> HIDE DEF r, m
  <1>5. t.got = r.got + 1 /\ t.put = r.put /\ t.writes = r.writes /\ t.wbuf = r.wbuf
    BY <1>2, TakeServer
  <1>6. d.wbuf = m /\ d.got = c.got /\ d.put = c.put
    BY <1>1, <1>3, ClientWrite
  <1>7. Carrying(s, c)
    BY DEF InFlight
  <1> HIDE DEF t, d
  <1>8. Carrying(t, d)
    BY <1>1, <1>2, <1>3, <1>5, <1>6, <1>7 DEF Carrying
  <1>9. TakesUp(session[i], s, c, session[i], t, d)
    BY <1>1, <1>2, <1>5, <1>6 DEF TakesUp, SameDown
  <1>10. QED BY <1>4, <1>8, <1>9, StepMaps DEF Advances

(* A chunk is read from the host, and is on its way to the client.          *)
LEMMA ReadDownMaps ==
    ASSUME NEW S, CoreTypeOK(S), InFlight, NEW i \in Ids, i \leq stream_id,
           session[i] \in RelayStates, Relay(server[i], client[i]), client[i].reads > 0,
           LET d == client_read_ok(client[i])
           IN Handled(i, session[i], server_write(server[i], Data(d.got + 1)), Take(d))
    PROVE  Refines
  <1> DEFINE s == server[i]
             c == client[i]
             r == client_read_ok(c)
             m == Data(r.got + 1)
             t == server_write(s, m)
             d == Take(r)
  <1>1. /\ s \in ServerStream /\ c \in ClientStream /\ c.got \in Nat /\ Len(s.put) \in Nat
        /\ c.reads = 1 /\ s.writes = 0 /\ (Tls \/ s.wip = FALSE) /\ c.got = Len(s.put)
    <2>1. /\ s \in ServerStream /\ c \in ClientStream
          /\ Exclusive(s, c) /\ Flagged(s, c) /\ Relaying(s, c)
      BY DEF Relay
    <2>2. /\ c.reads \in Nat /\ s.writes \in Nat /\ c.got \in Nat /\ Len(s.put) \in Nat
      BY <2>1 DEF ServerStream, ClientStream
    <2>3. c.reads = 1 /\ s.writes = 0 /\ (Tls \/ s.wip = FALSE)
      BY <2>1, <2>2, TlsAssumption DEF Exclusive, Flagged, Relaying
    <2>4. QED BY <2>1, <2>2, <2>3 DEF Relaying
  <1>2. /\ r \in ClientStream /\ r.writes = c.writes /\ r.wbuf = c.wbuf
        /\ r.got = c.got /\ r.put = c.put
    BY ClientReadOk, <1>1
  <1>3. m \in Content /\ m.kind = "data" /\ m.seq = c.got + 1
    <2>1. r.got + 1 \in Nat /\ r.got + 1 = c.got + 1
      BY <1>1, <1>2
    <2>2. QED BY <2>1, ContentType
  <1>4. Changes(i, session[i], t, d)
    BY HandledIsChange
  <1> HIDE DEF r, m
  <1>5. d.got = r.got + 1 /\ d.put = r.put /\ d.writes = r.writes /\ d.wbuf = r.wbuf
    BY <1>2, TakeClient
  <1>6. t.wbuf = m /\ t.got = s.got /\ t.put = s.put
    BY <1>1, <1>3, ServerWrite
  <1>7. Carrying(s, c)
    BY DEF InFlight
  <1> HIDE DEF t, d
  <1>8. Carrying(t, d)
    BY <1>1, <1>2, <1>3, <1>5, <1>6, <1>7 DEF Carrying
  <1>9. TakesDown(session[i], s, c, session[i], t, d)
    BY <1>1, <1>2, <1>5, <1>6 DEF TakesDown, SameUp
  <1>10. QED BY <1>4, <1>8, <1>9, StepMaps DEF Advances

(* A write to the host is done, of a chunk or of a request: the chunk is    *)
(* given, whether or not the session is still there.                        *)
LEMMA WriteUpMaps ==
    ASSUME NEW S, CoreTypeOK(S), InFlight, NEW i \in Ids, i \leq stream_id,
           Exclusive(server[i], client[i]), client[i].writes > 0,
           NEW t, Keeps(server[i], t),
           Handled(i, session[i], t, client_write_ok(client[i]))
    PROVE  Refines
  <1> DEFINE s == server[i]
             c == client[i]
             d == client_write_ok(c)
  <1>1. Changes(i, session[i], t, d)
    BY HandledIsChange
  <1>2. c \in ClientStream /\ Len(c.put) \in Nat /\ c.writes = 1 /\ Carrying(s, c)
    BY DEF CoreTypeOK, ClientStream, Exclusive, InFlight
  <1>3. CASE c.wbuf.kind # "data"
    <2>1. Keeps(c, d)
      BY <1>2, <1>3, ClientKeeps
    <2>2. QED BY <1>1, <2>1, KeepsMaps, Phases
  <1>4. CASE c.wbuf.kind = "data"
    <2>1. /\ d.writes = c.writes - 1 /\ d.got = c.got
          /\ d.put = Append(c.put, c.wbuf.seq)
      BY <1>2, <1>4, ClientWriteOk
    <2>2. c.wbuf.seq = s.got /\ s.got = Len(c.put) + 1
      BY <1>4, <1>2 DEF Carrying
    <2> HIDE DEF d
    <2>3. Carrying(t, d)
      BY <1>2, <2>1 DEF Carrying, Keeps
    <2>4. GivesUp(session[i], s, c, session[i], t, d)
      BY <1>2, <2>1, <2>2 DEF GivesUp, SameDown, Keeps
    <2>5. QED BY <1>1, <2>3, <2>4, StepMaps DEF Advances
  <1>5. QED BY <1>3, <1>4

(* A write to the client is done, of a chunk or of an answer.               *)
LEMMA WriteDownMaps ==
    ASSUME NEW S, CoreTypeOK(S), InFlight, NEW i \in Ids, i \leq stream_id,
           Exclusive(server[i], client[i]), server[i].writes > 0,
           NEW d, Keeps(client[i], d),
           Handled(i, session[i], server_write_ok(server[i]), d)
    PROVE  Refines
  <1> DEFINE s == server[i]
             c == client[i]
             t == server_write_ok(s)
  <1>1. Changes(i, session[i], t, d)
    BY HandledIsChange
  <1>2. s \in ServerStream /\ Len(s.put) \in Nat /\ s.writes = 1 /\ Carrying(s, c)
    BY DEF CoreTypeOK, ServerStream, Exclusive, InFlight
  <1>3. CASE s.wbuf.kind # "data"
    <2>1. Keeps(s, t)
      BY <1>2, <1>3, ServerKeeps
    <2>2. QED BY <1>1, <2>1, KeepsMaps, Phases
  <1>4. CASE s.wbuf.kind = "data"
    <2>1. /\ t.writes = s.writes - 1 /\ t.got = s.got
          /\ t.put = Append(s.put, s.wbuf.seq)
      BY <1>2, <1>4, ServerWriteOk
    <2>2. s.wbuf.seq = c.got /\ c.got = Len(s.put) + 1
      BY <1>4, <1>2 DEF Carrying
    <2> HIDE DEF t
    <2>3. Carrying(t, d)
      BY <1>2, <2>1 DEF Carrying, Keeps
    <2>4. GivesDown(session[i], s, c, session[i], t, d)
      BY <1>2, <2>1, <2>2 DEF GivesDown, SameUp, Keeps
    <2>5. QED BY <1>1, <2>3, <2>4, StepMaps DEF Advances
  <1>5. QED BY <1>3, <1>4

(* A connection is accepted: its tunnel begins to open.                     *)
LEMMA AcceptMaps ==
    ASSUME NEW S, CoreTypeOK(S), AllFresh, InFlight, NEW i \in Ids,
           NEW first, first \notin RelayStates \cup {Erased}, accept(i, first)
    PROVE  Refines
  <1>1. /\ i = stream_id + 1 /\ stream_id' = i /\ client' = client
        /\ session' = [session EXCEPT ![i] = first]
        /\ server' = [server EXCEPT ![i] = ServerStream_start]
    BY DEF accept
  <1>2. stream_id \in Nat /\ i \in Nat /\ i > stream_id /\ Ids \subseteq Nat
    BY <1>1, BoundsAssumption DEF CoreTypeOK, Ids
  <1>3. session[i] = Erased /\ server[i] = NoServer /\ client[i] = NoClient
    BY <1>2 DEF AllFresh, Fresh
  <1>4. /\ server'[i] = ServerStream_start /\ session'[i] = first
        /\ \A j \in Ids \ {i} : session'[j] = session[j] /\ server'[j] = server[j]
    BY <1>1 DEF CoreTypeOK
  <1>5. /\ server'[i].got = server[i].got /\ server'[i].put = server[i].put
        /\ server'[i].writes = 0 /\ client[i].writes = 0
    BY <1>3, <1>4, StartType, InitialType DEF ClientQuiet
  <1>6. InFlight'
    BY <1>1, <1>4, <1>5 DEF InFlight, Carrying
  <1>7. /\ upTaken' = upTaken /\ upGiven' = upGiven
        /\ downTaken' = downTaken /\ downGiven' = downGiven
    BY <1>1, <1>4, <1>5 DEF upTaken, upGiven, downTaken, downGiven
  <1>8. tunnelPhase(i) = "new"
    BY <1>2, <1>3 DEF tunnelPhase, Live, Erased
  <1>9. tunnelPhase(i)' = "opening"
    BY <1>1, <1>2, <1>4 DEF tunnelPhase, Live
  <1>10. \A j \in Ids \ {i} : tunnelPhase(j)' = tunnelPhase(j)
    <2>1. SUFFICES ASSUME NEW j \in Ids \ {i} PROVE tunnelPhase(j)' = tunnelPhase(j)
      OBVIOUS
    <2>2. (j > stream_id' <=> j > stream_id) /\ (j \leq stream_id' <=> j \leq stream_id)
      BY <1>1, <1>2
    <2>3. session'[j] = session[j]
      BY <1>4
    <2>4. QED BY <2>2, <2>3 DEF tunnelPhase, Live
  <1>11. phases[i] = "new" /\ phases' = [phases EXCEPT ![i] = "opening"]
    BY <1>8, <1>9, <1>10 DEF phases
  <1>12. T!Accept(i)
    BY <1>7, <1>11 DEF T!Accept, T!Move, phases, upTaken, upGiven, downTaken, downGiven
  <1>13. QED BY <1>6, <1>12 DEF Refines, T!Next

(* A signal, or nothing at all. *)
LEMMA OtherMaps ==
    ASSUME InFlight, UNCHANGED <<stream_id, session, server, client>>
    PROVE  Refines
  <1>1. InFlight'
    BY DEF InFlight
  <1>2. UNCHANGED T!vars
    BY DEF T!vars, tunnelPhase, Live
  <1>3. QED BY <1>1, <1>2 DEF Refines

LEMMA InitMaps == CoreInit => InFlight /\ T!Init
  <1> SUFFICES ASSUME CoreInit PROVE InFlight /\ T!Init
    OBVIOUS
  <1>1. /\ stream_id = 0 /\ session = [i \in Ids |-> Erased]
        /\ server = [i \in Ids |-> NoServer]
        /\ client = [i \in Ids |-> NoClient]
    BY DEF CoreInit
  <1>2. InFlight
    BY <1>1, InitialType DEF InFlight, Carrying, ServerQuiet, ClientQuiet
  <1>3. \A i \in Ids : tunnelPhase(i) = "new"
    <2>1. SUFFICES ASSUME NEW i \in Ids PROVE tunnelPhase(i) = "new"
      OBVIOUS
    <2>2. i \in Nat /\ i > 0
      BY BoundsAssumption DEF Ids
    <2>3. session[i] = Erased
      BY <1>1
    <2>4. QED BY <1>1, <2>2, <2>3 DEF tunnelPhase, Live, Erased
  <1>4. /\ \A i \in Ids : server[i].got = 0 /\ server[i].put = <<>>
        /\ \A i \in Ids : client[i].got = 0 /\ client[i].put = <<>>
    BY <1>1, InitialType
  <1>5. T!Init
    BY <1>3, <1>4 DEF T!Init
  <1>6. QED BY <1>2, <1>5

-----------------------------------------------------------------------------
(* The tunnels' own invariant: what is given is a prefix of what was taken, *)
(* for every tunnel and so for every proxy that implements them.            *)
Channel(n, given) == n \in Nat /\ given \in Seq(Nat) /\ T!Prefix(n, given)

Channels ==
    /\ upTaken = [x \in Ids |-> upTaken[x]] /\ upGiven = [x \in Ids |-> upGiven[x]]
    /\ downTaken = [x \in Ids |-> downTaken[x]] /\ downGiven = [x \in Ids |-> downGiven[x]]
    /\ \A i \in Ids : Channel(upTaken[i], upGiven[i]) /\ Channel(downTaken[i], downGiven[i])

(* Taking from an empty channel, and giving what is in a full one. *)
LEMMA ChannelSteps ==
    ASSUME NEW n, NEW given, Channel(n, given)
    PROVE  /\ n = Len(given) => Channel(n + 1, given)
           /\ Len(given) < n => Channel(n, Append(given, n))
  <1>1. n \in Nat /\ given \in Seq(Nat) /\ Len(given) \in Nat
        /\ n \in {Len(given), Len(given) + 1} /\ \A k \in 1..Len(given) : given[k] = k
    BY DEF Channel, T!Prefix
  <1>2. ASSUME n = Len(given) PROVE Channel(n + 1, given)
    BY <1>1, <1>2 DEF Channel, T!Prefix
  <1>3. ASSUME Len(given) < n PROVE Channel(n, Append(given, n))
    <2> DEFINE g == Append(given, n)
    <2>1. n = Len(given) + 1
      BY <1>1, <1>3
    <2>2. g \in Seq(Nat) /\ Len(g) = n
      BY <1>1, <2>1
    <2>3. \A k \in 1..n : g[k] = k
      BY <1>1, <2>1
    <2> HIDE DEF g
    <2>4. Channel(n, g)
      BY <1>1, <2>2, <2>3 DEF Channel, T!Prefix
    <2>5. QED BY <2>4 DEF g
  <1>4. QED BY <1>2, <1>3

LEMMA ChannelsKept == Channels /\ [T!Next]_(T!vars) => Channels'
  <1> SUFFICES ASSUME Channels, [T!Next]_(T!vars) PROVE Channels'
    OBVIOUS
  <1> USE DEF Channels
  <1>1. CASE UNCHANGED T!vars
    BY <1>1 DEF T!vars, upTaken, upGiven, downTaken, downGiven
  <1>2. ASSUME NEW i \in Ids, T!Accept(i) \/ T!Open(i) \/ T!Close(i)
        PROVE  Channels'
    BY <1>2 DEF T!Accept, T!Open, T!Close, T!Move, upTaken, upGiven, downTaken, downGiven
  <1>3. ASSUME NEW i \in Ids, T!TakeUp(i) PROVE Channels'
    <2>1. /\ upTaken[i] = Len(upGiven[i]) /\ upTaken' = [upTaken EXCEPT ![i] = @ + 1]
          /\ upGiven' = upGiven /\ downTaken' = downTaken /\ downGiven' = downGiven
      BY <1>3 DEF T!TakeUp, upTaken, upGiven, downTaken, downGiven
    <2>2. Channel(upTaken[i] + 1, upGiven[i])
      BY <2>1, ChannelSteps
    <2>3. QED BY <2>1, <2>2
  <1>4. ASSUME NEW i \in Ids, T!GiveUp(i) PROVE Channels'
    <2>1. /\ Len(upGiven[i]) < upTaken[i]
          /\ upGiven' = [upGiven EXCEPT ![i] = Append(@, upTaken[i])]
          /\ upTaken' = upTaken /\ downTaken' = downTaken /\ downGiven' = downGiven
      BY <1>4 DEF T!GiveUp, upTaken, upGiven, downTaken, downGiven
    <2>2. Channel(upTaken[i], Append(upGiven[i], upTaken[i]))
      BY <2>1, ChannelSteps
    <2>3. QED BY <2>1, <2>2
  <1>5. ASSUME NEW i \in Ids, T!TakeDown(i) PROVE Channels'
    <2>1. /\ downTaken[i] = Len(downGiven[i]) /\ downTaken' = [downTaken EXCEPT ![i] = @ + 1]
          /\ downGiven' = downGiven /\ upTaken' = upTaken /\ upGiven' = upGiven
      BY <1>5 DEF T!TakeDown, upTaken, upGiven, downTaken, downGiven
    <2>2. Channel(downTaken[i] + 1, downGiven[i])
      BY <2>1, ChannelSteps
    <2>3. QED BY <2>1, <2>2
  <1>6. ASSUME NEW i \in Ids, T!GiveDown(i) PROVE Channels'
    <2>1. /\ Len(downGiven[i]) < downTaken[i]
          /\ downGiven' = [downGiven EXCEPT ![i] = Append(@, downTaken[i])]
          /\ downTaken' = downTaken /\ upTaken' = upTaken /\ upGiven' = upGiven
      BY <1>6 DEF T!GiveDown, upTaken, upGiven, downTaken, downGiven
    <2>2. Channel(downTaken[i], Append(downGiven[i], downTaken[i]))
      BY <2>1, ChannelSteps
    <2>3. QED BY <2>1, <2>2
  <1>7. QED BY <1>1, <1>2, <1>3, <1>4, <1>5, <1>6 DEF T!Next

LEMMA TunnelsOrdered == T!Spec => []AtMostOneCut
  <1>1. T!Init => Channels
    <2>1. SUFFICES ASSUME T!Init PROVE Channels
      OBVIOUS
    <2>2. \A i \in Ids : /\ upTaken[i] = 0 /\ upGiven[i] = <<>>
                         /\ downTaken[i] = 0 /\ downGiven[i] = <<>>
      BY <2>1 DEF T!Init, upTaken, upGiven, downTaken, downGiven
    <2>3. Channel(0, <<>>)
      BY DEF Channel, T!Prefix
    <2>4. QED BY <2>2, <2>3, Components DEF Channels
  <1>2. Channels /\ [T!Next]_(T!vars) => Channels'
    BY ChannelsKept
  <1>3. Channels => AtMostOneCut
    BY DEF Channels, Channel, AtMostOneCut, T!Arrived, upTaken, upGiven, downTaken, downGiven
  <1>4. QED BY <1>1, <1>2, <1>3, PTL DEF T!Spec
=============================================================================
