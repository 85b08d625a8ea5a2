---------------------------- MODULE StreamsProofs ----------------------------
(***************************************************************************)
(* What each method and completion of a stream does to the type and to the *)
(* fields of the stream.  The proofs about a proxy cite these lemmas       *)
(* instead of expanding the records.                                       *)
(***************************************************************************)
EXTENDS Streams, TLAPS

-----------------------------------------------------------------------------
(* The two forms of a write buffer are write buffers. *)
LEMMA ContentType ==
    /\ \A n \in Nat : Data(n) \in Content /\ Data(n).kind = "data" /\ Data(n).seq = n
    /\ \A k \in Kinds \ {"data"} :
           Message(k) \in Content /\ Message(k).kind = k /\ Message(k).kind # "data"
  BY DEF Data, Message, Content, Kinds

(* The streams of an id that was not yet given to a connection are quiet. *)
LEMMA InitialType ==
    /\ NoServer \in ServerStream /\ NoClient \in ClientStream
    /\ ServerQuiet(NoServer) /\ ClientQuiet(NoClient)
    /\ NoClient.rip = FALSE /\ NoClient.wip = FALSE
    /\ NoServer.got = 0 /\ NoServer.put = <<>> /\ NoServer.said = <<>>
    /\ NoClient.got = 0 /\ NoClient.put = <<>> /\ NoClient.said = <<>>
    /\ NoClient.made = FALSE /\ NoClient.phase = "idle"
  BY ContentType DEF NoServer, NoClient, ServerStream, ClientStream, ServerQuiet, ClientQuiet, Kinds

(* start() of a server stream: nothing but the start is outstanding. *)
LEMMA StartType ==
    LET s == ServerStream_start
    IN /\ s \in ServerStream
       /\ s.starting = TRUE /\ s.closing = {}
       /\ s.reads = 0 /\ s.writes = 0 /\ s.rip = FALSE /\ s.wip = FALSE
       /\ s.got = 0 /\ s.put = <<>> /\ s.said = <<>>
  <1>1. ServerStream_start \in ServerStream
    BY InitialType DEF ServerStream_start, ServerStream
  <1>2. QED BY <1>1 DEF ServerStream_start, NoServer

(* create() of a client stream. *)
LEMMA CreateType ==
    LET c == TcpClientStream_create
    IN /\ c \in ClientStream
       /\ c.phase = "idle" /\ c.reads = 0 /\ c.writes = 0 /\ c.rip = FALSE /\ c.wip = FALSE
       /\ c.got = 0 /\ c.put = <<>> /\ c.said = <<>> /\ c.made = TRUE
  <1>1. TcpClientStream_create \in ClientStream
    BY InitialType DEF TcpClientStream_create, ClientStream
  <1>2. QED BY <1>1 DEF TcpClientStream_create, NoClient

-----------------------------------------------------------------------------
(* read() of a server stream starts one read, unless the flag of a TCP      *)
(* stream is set; it touches nothing else.                                  *)
LEMMA ServerRead ==
    ASSUME NEW s \in ServerStream, Tls \/ s.rip = FALSE
    PROVE  /\ server_read(s) \in ServerStream
           /\ server_read(s).reads = s.reads + 1
           /\ ~Tls => server_read(s).rip = TRUE
           /\ server_read(s).starting = s.starting /\ server_read(s).closing = s.closing
           /\ server_read(s).writes = s.writes /\ server_read(s).wip = s.wip
           /\ server_read(s).wbuf = s.wbuf
           /\ server_read(s).got = s.got /\ server_read(s).put = s.put
           /\ server_read(s).said = s.said
  <1>0. s.reads + 1 \in Nat
    BY DEF ServerStream
  <1>1. CASE Tls
    <2>1. server_read(s) = [s EXCEPT !.reads = @ + 1]
      BY <1>1 DEF server_read, TlsServerStream_read
    <2>2. server_read(s) \in ServerStream
      BY <1>0, <2>1 DEF ServerStream
    <2>3. QED BY <1>1, <2>1, <2>2 DEF ServerStream
  <1>2. CASE ~Tls
    <2>1. server_read(s) = [s EXCEPT !.rip = TRUE, !.reads = @ + 1]
      BY <1>2 DEF server_read, TcpServerStream_read_tcp
    <2>2. server_read(s) \in ServerStream
      BY <1>0, <2>1 DEF ServerStream
    <2>3. QED BY <2>1, <2>2 DEF ServerStream
  <1>3. QED BY <1>1, <1>2

(* write() of a server stream starts one write of m, unless the flag of a   *)
(* TCP stream is set.                                                       *)
LEMMA ServerWrite ==
    ASSUME NEW s \in ServerStream, NEW m \in Content, Tls \/ s.wip = FALSE
    PROVE  /\ server_write(s, m) \in ServerStream
           /\ server_write(s, m).writes = s.writes + 1
           /\ server_write(s, m).wbuf = m
           /\ ~Tls => server_write(s, m).wip = TRUE
           /\ server_write(s, m).starting = s.starting /\ server_write(s, m).closing = s.closing
           /\ server_write(s, m).reads = s.reads /\ server_write(s, m).rip = s.rip
           /\ server_write(s, m).got = s.got /\ server_write(s, m).put = s.put
           /\ server_write(s, m).said = s.said
  <1>0. s.writes + 1 \in Nat
    BY DEF ServerStream
  <1>1. CASE Tls
    <2>1. server_write(s, m) = [s EXCEPT !.writes = @ + 1, !.wbuf = m]
      BY <1>1 DEF server_write, TlsServerStream_write
    <2>2. server_write(s, m) \in ServerStream
      BY <1>0, <2>1 DEF ServerStream
    <2>3. QED BY <1>1, <2>1, <2>2 DEF ServerStream
  <1>2. CASE ~Tls
    <2>1. server_write(s, m) = [s EXCEPT !.wip = TRUE, !.writes = @ + 1, !.wbuf = m]
      BY <1>2 DEF server_write, TcpServerStream_write_tcp
    <2>2. server_write(s, m) \in ServerStream
      BY <1>0, <2>1 DEF ServerStream
    <2>3. QED BY <2>1, <2>2 DEF ServerStream
  <1>3. QED BY <1>1, <1>2

(* stop() of a server stream starts neither a read nor a write of data. *)
LEMMA ServerStop ==
    ASSUME NEW s \in ServerStream
    PROVE  /\ server_stop(s) \in ServerStream
           /\ server_stop(s).starting = s.starting
           /\ server_stop(s).reads = s.reads /\ server_stop(s).writes = s.writes
           /\ server_stop(s).wbuf = s.wbuf
           /\ server_stop(s).got = s.got /\ server_stop(s).put = s.put
           /\ server_stop(s).said = s.said
  BY DEF server_stop, TlsServerStream_stop, TcpServerStream_stop, ServerStream

(* The start of a server stream is done. *)
LEMMA ServerReady ==
    ASSUME NEW s \in ServerStream
    PROVE  /\ server_ready(s) \in ServerStream
           /\ server_ready(s).starting = FALSE /\ server_ready(s).closing = s.closing
           /\ server_ready(s).reads = s.reads /\ server_ready(s).rip = s.rip
           /\ server_ready(s).writes = s.writes /\ server_ready(s).wip = s.wip
           /\ server_ready(s).wbuf = s.wbuf
           /\ server_ready(s).got = s.got /\ server_ready(s).put = s.put
           /\ server_ready(s).said = s.said
  BY DEF server_ready, ServerStream

(* A read of a server stream succeeds. *)
LEMMA ServerReadOk ==
    ASSUME NEW s \in ServerStream, s.reads > 0
    PROVE  /\ server_read_ok(s) \in ServerStream
           /\ server_read_ok(s).reads = s.reads - 1 /\ server_read_ok(s).rip = FALSE
           /\ server_read_ok(s).starting = s.starting /\ server_read_ok(s).closing = s.closing
           /\ server_read_ok(s).writes = s.writes /\ server_read_ok(s).wip = s.wip
           /\ server_read_ok(s).wbuf = s.wbuf
           /\ server_read_ok(s).got = s.got /\ server_read_ok(s).put = s.put
           /\ server_read_ok(s).said = s.said
  <1>0. s.reads - 1 \in Nat
    BY DEF ServerStream
  <1>1. server_read_ok(s) \in ServerStream
    BY <1>0 DEF server_read_ok, ServerStream
  <1>2. QED BY <1>1 DEF server_read_ok, ServerStream

(* A write of a server stream succeeds: one more chunk has arrived if the   *)
(* buffer held one.                                                         *)
LEMMA ServerWriteOk ==
    ASSUME NEW s \in ServerStream, s.writes > 0
    PROVE  /\ server_write_ok(s) \in ServerStream
           /\ server_write_ok(s).writes = s.writes - 1 /\ server_write_ok(s).wip = FALSE
           /\ server_write_ok(s).starting = s.starting
           /\ server_write_ok(s).closing = s.closing
           /\ server_write_ok(s).reads = s.reads /\ server_write_ok(s).rip = s.rip
           /\ server_write_ok(s).wbuf = s.wbuf
           /\ server_write_ok(s).got = s.got
           /\ s.wbuf.kind = "data" =>
                  /\ server_write_ok(s).put = Append(s.put, s.wbuf.seq)
                  /\ Len(server_write_ok(s).put) = Len(s.put) + 1
                  /\ server_write_ok(s).said = s.said
           /\ s.wbuf.kind # "data" =>
                  /\ server_write_ok(s).put = s.put
                  /\ server_write_ok(s).said = Append(s.said, s.wbuf.kind)
  <1> DEFINE u == [s EXCEPT !.writes = @ - 1, !.wip = FALSE]
  <1>0. s.writes - 1 \in Nat
    BY DEF ServerStream
  <1>1. u \in ServerStream
    BY <1>0 DEF ServerStream
  <1>2. /\ u.writes = s.writes - 1 /\ u.wip = FALSE
        /\ u.starting = s.starting /\ u.closing = s.closing
        /\ u.reads = s.reads /\ u.rip = s.rip /\ u.wbuf = s.wbuf
        /\ u.got = s.got /\ u.put = s.put /\ u.said = s.said
    BY <1>1 DEF ServerStream
  <1>3. /\ s.wbuf.seq \in Nat /\ s.put \in Seq(Nat) /\ s.wbuf.kind \in Kinds
        /\ s.said \in Seq(Kinds)
    BY DEF ServerStream, Content
  <1> HIDE DEF u
  <1>4. CASE s.wbuf.kind = "data"
    <2>1. server_write_ok(s) = [u EXCEPT !.put = Append(@, u.wbuf.seq)]
      BY <1>2, <1>4 DEF server_write_ok, Delivered, u
    <2>2. Append(u.put, u.wbuf.seq) \in Seq(Nat) /\ Len(Append(u.put, u.wbuf.seq)) = Len(s.put) + 1
      BY <1>2, <1>3
    <2>3. server_write_ok(s) \in ServerStream
      BY <1>1, <2>1, <2>2 DEF ServerStream
    <2>4. QED BY <1>1, <1>2, <1>4, <2>1, <2>2, <2>3 DEF ServerStream
  <1>5. CASE s.wbuf.kind # "data"
    <2>1. server_write_ok(s) = [u EXCEPT !.said = Append(@, u.wbuf.kind)]
      BY <1>2, <1>5 DEF server_write_ok, Delivered, u
    <2>2. Append(u.said, u.wbuf.kind) \in Seq(Kinds)
      BY <1>1, <1>2, <1>3 DEF ServerStream
    <2>3. server_write_ok(s) \in ServerStream
      BY <1>1, <2>1, <2>2 DEF ServerStream
    <2>4. QED BY <1>1, <1>2, <1>5, <2>1, <2>3 DEF ServerStream
  <1>6. QED BY <1>4, <1>5

(* An operation of a server stream fails: it is no longer outstanding, and  *)
(* no other is started.                                                     *)
LEMMA ServerFailed ==
    ASSUME NEW s \in ServerStream, NEW op \in ServerFailures(s)
    PROVE  /\ server_failed(s, op) \in ServerStream
           /\ s.starting = FALSE => server_failed(s, op).starting = FALSE
           /\ server_failed(s, op).closing = s.closing
           /\ server_failed(s, op).reads \leq s.reads
           /\ server_failed(s, op).writes \leq s.writes
           /\ server_failed(s, op).wbuf = s.wbuf
           /\ server_failed(s, op).got = s.got /\ server_failed(s, op).put = s.put
           /\ server_failed(s, op).said = s.said
  <1> DEFINE t == server_failed(s, op)
  <1>0. s.reads \in Nat /\ s.writes \in Nat
    BY DEF ServerStream
  <1>1. CASE op = "start"
    <2>1. t = server_ready(s)
      BY <1>1 DEF server_failed
    <2>2. /\ server_ready(s) \in ServerStream /\ server_ready(s).starting = FALSE
          /\ server_ready(s).reads = s.reads /\ server_ready(s).writes = s.writes
          /\ server_ready(s).wbuf = s.wbuf
          /\ server_ready(s).got = s.got /\ server_ready(s).put = s.put
          /\ server_ready(s).said = s.said /\ server_ready(s).closing = s.closing
      BY ServerReady
    <2>3. QED BY <1>0, <2>1, <2>2
  <1>2. CASE op = "read"
    <2>1. s.reads - 1 \in Nat
      BY <1>2 DEF ServerFailures, ServerStream
    <2>2. t = [s EXCEPT !.reads = @ - 1]
      BY <1>2 DEF server_failed
    <2>3. t \in ServerStream
      BY <2>1, <2>2 DEF ServerStream
    <2>4. /\ t.starting = s.starting /\ t.reads = s.reads - 1 /\ t.writes = s.writes
          /\ t.wbuf = s.wbuf /\ t.got = s.got /\ t.put = s.put
          /\ t.said = s.said /\ t.closing = s.closing
      BY <2>2 DEF ServerStream
    <2>5. QED BY <1>0, <2>3, <2>4
  <1>3. CASE op = "eof"
    <2>1. s.reads - 1 \in Nat
      BY <1>3 DEF ServerFailures, ServerStream
    <2>2. t = [s EXCEPT !.reads = @ - 1, !.open = @ /\ ~Tls]
      BY <1>3 DEF server_failed
    <2>3. t \in ServerStream
      BY <2>1, <2>2 DEF ServerStream
    <2>4. /\ t.starting = s.starting /\ t.reads = s.reads - 1 /\ t.writes = s.writes
          /\ t.wbuf = s.wbuf /\ t.got = s.got /\ t.put = s.put
          /\ t.said = s.said /\ t.closing = s.closing
      BY <2>2 DEF ServerStream
    <2>5. QED BY <1>0, <2>3, <2>4
  <1>4. CASE op = "write"
    <2>1. s.writes - 1 \in Nat
      BY <1>4 DEF ServerFailures, ServerStream
    <2>2. t = [s EXCEPT !.writes = @ - 1]
      BY <1>4 DEF server_failed
    <2>3. t \in ServerStream
      BY <2>1, <2>2 DEF ServerStream
    <2>4. /\ t.starting = s.starting /\ t.reads = s.reads /\ t.writes = s.writes - 1
          /\ t.wbuf = s.wbuf /\ t.got = s.got /\ t.put = s.put
          /\ t.said = s.said /\ t.closing = s.closing
      BY <2>2 DEF ServerStream
    <2>5. QED BY <1>0, <2>3, <2>4
  <1>5. QED BY <1>1, <1>2, <1>3, <1>4 DEF ServerFailures

(* A handler of TlsServerStream::stop has run. *)
LEMMA ServerClosed ==
    ASSUME NEW s \in ServerStream, NEW op
    PROVE  /\ server_closed(s, op) \in ServerStream
           /\ server_closed(s, op).starting = s.starting
           /\ server_closed(s, op).reads = s.reads
           /\ server_closed(s, op).writes = s.writes
           /\ server_closed(s, op).wbuf = s.wbuf
           /\ server_closed(s, op).got = s.got /\ server_closed(s, op).put = s.put
           /\ server_closed(s, op).said = s.said
  BY DEF server_closed, ServerStream

-----------------------------------------------------------------------------
(* start() of a client stream begins the resolution. *)
LEMMA ClientStart ==
    ASSUME NEW c \in ClientStream
    PROVE  /\ TcpClientStream_start(c) \in ClientStream
           /\ TcpClientStream_start(c).phase = "resolving"
           /\ TcpClientStream_start(c).reads = c.reads /\ TcpClientStream_start(c).rip = c.rip
           /\ TcpClientStream_start(c).writes = c.writes /\ TcpClientStream_start(c).wip = c.wip
           /\ TcpClientStream_start(c).wbuf = c.wbuf
           /\ TcpClientStream_start(c).got = c.got /\ TcpClientStream_start(c).put = c.put
           /\ TcpClientStream_start(c).said = c.said /\ TcpClientStream_start(c).made = c.made
  BY DEF TcpClientStream_start, ClientStream

(* The resolution succeeds and the connect begins. *)
LEMMA ClientResolved ==
    ASSUME NEW c \in ClientStream
    PROVE  /\ client_resolved(c) \in ClientStream
           /\ client_resolved(c).phase = "connecting"
           /\ client_resolved(c).reads = c.reads /\ client_resolved(c).rip = c.rip
           /\ client_resolved(c).writes = c.writes /\ client_resolved(c).wip = c.wip
           /\ client_resolved(c).wbuf = c.wbuf
           /\ client_resolved(c).got = c.got /\ client_resolved(c).put = c.put
           /\ client_resolved(c).said = c.said /\ client_resolved(c).made = c.made
  BY DEF client_resolved, ClientStream

(* The connect succeeds. *)
LEMMA ClientConnected ==
    ASSUME NEW c \in ClientStream
    PROVE  /\ client_connected(c) \in ClientStream
           /\ client_connected(c).phase = "connected"
           /\ client_connected(c).reads = c.reads /\ client_connected(c).rip = c.rip
           /\ client_connected(c).writes = c.writes /\ client_connected(c).wip = c.wip
           /\ client_connected(c).wbuf = c.wbuf
           /\ client_connected(c).got = c.got /\ client_connected(c).put = c.put
           /\ client_connected(c).said = c.said /\ client_connected(c).made = c.made
  BY DEF client_connected, ClientStream

(* read() of a client stream starts one read, unless its flag is set. *)
LEMMA ClientRead ==
    ASSUME NEW c \in ClientStream, c.rip = FALSE
    PROVE  /\ client_read(c) \in ClientStream
           /\ client_read(c).reads = c.reads + 1 /\ client_read(c).rip = TRUE
           /\ client_read(c).phase = c.phase
           /\ client_read(c).writes = c.writes /\ client_read(c).wip = c.wip
           /\ client_read(c).wbuf = c.wbuf
           /\ client_read(c).got = c.got /\ client_read(c).put = c.put
           /\ client_read(c).said = c.said /\ client_read(c).made = c.made
  <1>0. c.reads + 1 \in Nat
    BY DEF ClientStream
  <1>1. client_read(c) = [c EXCEPT !.rip = TRUE, !.reads = @ + 1]
    BY DEF client_read
  <1>2. client_read(c) \in ClientStream
    BY <1>0, <1>1 DEF ClientStream
  <1>3. QED BY <1>1, <1>2 DEF ClientStream

(* write() of a client stream starts one write, unless its flag is set. *)
LEMMA ClientWrite ==
    ASSUME NEW c \in ClientStream, NEW m \in Content, c.wip = FALSE
    PROVE  /\ client_write(c, m) \in ClientStream
           /\ client_write(c, m).writes = c.writes + 1 /\ client_write(c, m).wip = TRUE
           /\ client_write(c, m).wbuf = m
           /\ client_write(c, m).phase = c.phase
           /\ client_write(c, m).reads = c.reads /\ client_write(c, m).rip = c.rip
           /\ client_write(c, m).got = c.got /\ client_write(c, m).put = c.put
           /\ client_write(c, m).said = c.said /\ client_write(c, m).made = c.made
  <1>0. c.writes + 1 \in Nat
    BY DEF ClientStream
  <1>1. client_write(c, m) = [c EXCEPT !.wip = TRUE, !.writes = @ + 1, !.wbuf = m]
    BY DEF client_write
  <1>2. client_write(c, m) \in ClientStream
    BY <1>0, <1>1 DEF ClientStream
  <1>3. QED BY <1>1, <1>2 DEF ClientStream

(* stop() of a client stream starts nothing. *)
LEMMA ClientStop ==
    ASSUME NEW c \in ClientStream
    PROVE  /\ client_stop(c) \in ClientStream
           /\ client_stop(c).phase = c.phase
           /\ client_stop(c).reads = c.reads /\ client_stop(c).writes = c.writes
           /\ client_stop(c).wbuf = c.wbuf
           /\ client_stop(c).got = c.got /\ client_stop(c).put = c.put
           /\ client_stop(c).said = c.said /\ client_stop(c).made = c.made
  BY DEF client_stop, ClientStream

(* A read of a client stream succeeds. *)
LEMMA ClientReadOk ==
    ASSUME NEW c \in ClientStream, c.reads > 0
    PROVE  /\ client_read_ok(c) \in ClientStream
           /\ client_read_ok(c).reads = c.reads - 1 /\ client_read_ok(c).rip = FALSE
           /\ client_read_ok(c).phase = c.phase
           /\ client_read_ok(c).writes = c.writes /\ client_read_ok(c).wip = c.wip
           /\ client_read_ok(c).wbuf = c.wbuf
           /\ client_read_ok(c).got = c.got /\ client_read_ok(c).put = c.put
           /\ client_read_ok(c).said = c.said /\ client_read_ok(c).made = c.made
  <1>0. c.reads - 1 \in Nat
    BY DEF ClientStream
  <1>1. client_read_ok(c) \in ClientStream
    BY <1>0 DEF client_read_ok, ClientStream
  <1>2. QED BY <1>1 DEF client_read_ok, ClientStream

(* A write of a client stream succeeds. *)
LEMMA ClientWriteOk ==
    ASSUME NEW c \in ClientStream, c.writes > 0
    PROVE  /\ client_write_ok(c) \in ClientStream
           /\ client_write_ok(c).writes = c.writes - 1 /\ client_write_ok(c).wip = FALSE
           /\ client_write_ok(c).phase = c.phase
           /\ client_write_ok(c).reads = c.reads /\ client_write_ok(c).rip = c.rip
           /\ client_write_ok(c).wbuf = c.wbuf
           /\ client_write_ok(c).got = c.got /\ client_write_ok(c).made = c.made
           /\ c.wbuf.kind = "data" =>
                  /\ client_write_ok(c).put = Append(c.put, c.wbuf.seq)
                  /\ Len(client_write_ok(c).put) = Len(c.put) + 1
                  /\ client_write_ok(c).said = c.said
           /\ c.wbuf.kind # "data" =>
                  /\ client_write_ok(c).put = c.put
                  /\ client_write_ok(c).said = Append(c.said, c.wbuf.kind)
  <1> DEFINE u == [c EXCEPT !.writes = @ - 1, !.wip = FALSE]
  <1>0. c.writes - 1 \in Nat
    BY DEF ClientStream
  <1>1. u \in ClientStream
    BY <1>0 DEF ClientStream
  <1>2. /\ u.writes = c.writes - 1 /\ u.wip = FALSE
        /\ u.phase = c.phase /\ u.reads = c.reads /\ u.rip = c.rip /\ u.wbuf = c.wbuf
        /\ u.got = c.got /\ u.put = c.put /\ u.said = c.said /\ u.made = c.made
    BY <1>1 DEF ClientStream
  <1>3. /\ c.wbuf.seq \in Nat /\ c.put \in Seq(Nat) /\ c.wbuf.kind \in Kinds
        /\ c.said \in Seq(Kinds)
    BY DEF ClientStream, Content
  <1> HIDE DEF u
  <1>4. CASE c.wbuf.kind = "data"
    <2>1. client_write_ok(c) = [u EXCEPT !.put = Append(@, u.wbuf.seq)]
      BY <1>2, <1>4 DEF client_write_ok, Delivered, u
    <2>2. Append(u.put, u.wbuf.seq) \in Seq(Nat) /\ Len(Append(u.put, u.wbuf.seq)) = Len(c.put) + 1
      BY <1>2, <1>3
    <2>3. client_write_ok(c) \in ClientStream
      BY <1>1, <2>1, <2>2 DEF ClientStream
    <2>4. QED BY <1>1, <1>2, <1>4, <2>1, <2>2, <2>3 DEF ClientStream
  <1>5. CASE c.wbuf.kind # "data"
    <2>1. client_write_ok(c) = [u EXCEPT !.said = Append(@, u.wbuf.kind)]
      BY <1>2, <1>5 DEF client_write_ok, Delivered, u
    <2>2. Append(u.said, u.wbuf.kind) \in Seq(Kinds)
      BY <1>1, <1>2, <1>3 DEF ClientStream
    <2>3. client_write_ok(c) \in ClientStream
      BY <1>1, <2>1, <2>2 DEF ClientStream
    <2>4. QED BY <1>1, <1>2, <1>5, <2>1, <2>3 DEF ClientStream
  <1>6. QED BY <1>4, <1>5

(* An operation of a client stream fails: it is no longer outstanding, and  *)
(* no other is started.                                                     *)
LEMMA ClientFailed ==
    ASSUME NEW c \in ClientStream, NEW op \in ClientFailures(c)
    PROVE  /\ client_failed(c, op) \in ClientStream
           /\ client_failed(c, op).reads \leq c.reads
           /\ client_failed(c, op).writes \leq c.writes
           /\ client_failed(c, op).wbuf = c.wbuf
           /\ client_failed(c, op).got = c.got /\ client_failed(c, op).put = c.put
           /\ client_failed(c, op).said = c.said /\ client_failed(c, op).made = c.made
           /\ client_failed(c, op).phase \in {c.phase, "failed"}
           /\ op = "connect" => client_failed(c, op).phase = "failed"
           /\ op # "connect" => client_failed(c, op).phase = c.phase
  <1>1. CASE op = "connect"
    BY <1>1 DEF client_failed, ClientStream
  <1>2. CASE op = "read"
    <2>1. client_failed(c, op) = client_read_ok(c) /\ c.reads > 0
      BY <1>2 DEF client_failed, ClientFailures
    <2>2. /\ client_read_ok(c) \in ClientStream /\ client_read_ok(c).phase = c.phase
          /\ client_read_ok(c).reads = c.reads - 1 /\ client_read_ok(c).writes = c.writes
          /\ client_read_ok(c).wbuf = c.wbuf
          /\ client_read_ok(c).got = c.got /\ client_read_ok(c).put = c.put
          /\ client_read_ok(c).said = c.said /\ client_read_ok(c).made = c.made
      BY <2>1, ClientReadOk
    <2>3. QED BY <1>2, <2>1, <2>2 DEF ClientStream
  <1>3. CASE op = "write"
    <2>1. c.writes - 1 \in Nat
      BY <1>3 DEF ClientFailures, ClientStream
    <2>2. client_failed(c, op) = [c EXCEPT !.writes = @ - 1]
      BY <1>3 DEF client_failed
    <2>3. client_failed(c, op) \in ClientStream
      BY <2>1, <2>2 DEF ClientStream
    <2>4. /\ client_failed(c, op).phase = c.phase /\ client_failed(c, op).reads = c.reads
          /\ client_failed(c, op).writes = c.writes - 1
          /\ client_failed(c, op).wbuf = c.wbuf
          /\ client_failed(c, op).got = c.got /\ client_failed(c, op).put = c.put
          /\ client_failed(c, op).said = c.said /\ client_failed(c, op).made = c.made
      BY <2>2 DEF ClientStream
    <2>5. QED BY <1>3, <2>3, <2>4 DEF ClientStream
  <1>4. QED BY <1>1, <1>2, <1>3 DEF ClientFailures
=============================================================================
