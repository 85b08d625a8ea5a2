------------------------------- MODULE Streams -------------------------------
(***************************************************************************)
(* The transport streams of the proxy: TcpServerStream and TlsServerStream *)
(* (the accepted, "server" side) and TcpClientStream (the side the proxy   *)
(* connects).  A stream is a record and every method or completion handler *)
(* is an operator from records to records; the proxies apply them to the   *)
(* streams of a session.                                                   *)
(*                                                                         *)
(* An asynchronous operation that has been started and whose completion    *)
(* handler has not run yet is counted in reads, writes, closing, starting  *)
(* or phase.  reads and writes are counts, because nothing but the flags   *)
(* rip and wip (which the TLS stream does not have) keeps a second         *)
(* operation from being started on the one buffer of its kind.             *)
(*                                                                         *)
(* got (the number of relayed chunks a session has read from the stream),  *)
(* put (the chunks the stream's peer has been sent, each by its number in  *)
(* the other stream) and said (the protocol messages it has been sent) are *)
(* history: the code has only byte counters for them.                      *)
(***************************************************************************)
EXTENDS Naturals, Sequences

CONSTANT Tls      \* the server side is a TlsServerStream (main.cpp: a private key is given)

ASSUME TlsAssumption == Tls \in BOOLEAN

(* What a write buffer holds: nothing, the n-th chunk read from the other   *)
(* stream, or a message of the protocol that opens the relay.               *)
Kinds == {"none", "data", "200", "500", "request",
          "NoAuth", "NotSupported", "succeeded", "failed", "command_not_supported"}

Data(n)    == [kind |-> "data", seq |-> n]
Message(k) == [kind |-> k, seq |-> 0]
Content    == [kind : Kinds, seq : Nat]

ServerStream == [starting : BOOLEAN, reads : Nat, rip : BOOLEAN, writes : Nat, wip : BOOLEAN,
                 wbuf : Content, open : BOOLEAN, closing : SUBSET {"shutdown", "write"},
                 got : Nat, put : Seq(Nat), said : Seq(Kinds)]

ClientStream == [made : BOOLEAN, phase : {"idle", "resolving", "connecting", "connected", "failed"},
                 reads : Nat, rip : BOOLEAN, writes : Nat, wip : BOOLEAN,
                 wbuf : Content, open : BOOLEAN,
                 got : Nat, put : Seq(Nat), said : Seq(Kinds)]

(* No server stream yet, and a null client pointer.                         *)
NoServer == [starting |-> FALSE, reads |-> 0, rip |-> FALSE, writes |-> 0, wip |-> FALSE,
             wbuf |-> Message("none"), open |-> FALSE, closing |-> {},
             got |-> 0, put |-> <<>>, said |-> <<>>]
NoClient == [made |-> FALSE, phase |-> "idle", reads |-> 0, rip |-> FALSE, writes |-> 0,
             wip |-> FALSE, wbuf |-> Message("none"), open |-> FALSE,
             got |-> 0, put |-> <<>>, said |-> <<>>]

-----------------------------------------------------------------------------
(* Methods of the server stream *)

(* start() posts on_server_ready, or starts the TLS handshake *)
ServerStream_start == [NoServer EXCEPT !.starting = TRUE, !.open = TRUE]

TcpServerStream_read_tcp(s) ==
    IF s.rip THEN s ELSE [s EXCEPT !.rip = TRUE, !.reads = @ + 1]

TlsServerStream_read(s) == [s EXCEPT !.reads = @ + 1]

TcpServerStream_write_tcp(s, m) ==
    IF s.wip THEN s ELSE [s EXCEPT !.wip = TRUE, !.writes = @ + 1, !.wbuf = m]

TlsServerStream_write(s, m) == [s EXCEPT !.writes = @ + 1, !.wbuf = m]

(* shutdown_both: what is pending will complete, nothing is closed by hand *)
TcpServerStream_stop(s) == [s EXCEPT !.open = FALSE]

(* Slip: async_shutdown alone, which waits for the peer *)
TlsServerStream_stop_ShutdownOnly(s) ==
    IF s.open THEN [s EXCEPT !.closing = {"shutdown"}] ELSE s

(* async_shutdown and an empty async_write, each of which closes the socket *)
TlsServerStream_stop(s) ==
    IF s.open THEN [s EXCEPT !.closing = {"shutdown", "write"}] ELSE s

server_read(s)     == IF Tls THEN TlsServerStream_read(s) ELSE TcpServerStream_read_tcp(s)
server_write(s, m) == IF Tls THEN TlsServerStream_write(s, m) ELSE TcpServerStream_write_tcp(s, m)
server_stop(s)     == IF Tls THEN TlsServerStream_stop(s) ELSE TcpServerStream_stop(s)

(* Methods of the client stream *)

TcpClientStream_create == [NoClient EXCEPT !.made = TRUE]

TcpClientStream_start(c) == [c EXCEPT !.phase = "resolving"]

client_read(c) == IF c.rip THEN c ELSE [c EXCEPT !.rip = TRUE, !.reads = @ + 1]

client_write(c, m) ==
    IF c.wip THEN c ELSE [c EXCEPT !.wip = TRUE, !.writes = @ + 1, !.wbuf = m]

(* shutdown_both fails, and the error is ignored, unless the socket is connected *)
client_stop(c) == IF c.phase = "connected" THEN [c EXCEPT !.open = FALSE] ELSE c

-----------------------------------------------------------------------------
(* Completions: what the handler does to the stream before it calls the    *)
(* manager.  The flag of a TCP operation is reset only when it succeeds,   *)
(* except rip of the client stream.                                        *)

(* What the peer of x has received once the pending write of x is done *)
Delivered(x) ==
    IF x.wbuf.kind = "data" THEN [x EXCEPT !.put = Append(@, x.wbuf.seq)]
                            ELSE [x EXCEPT !.said = Append(@, x.wbuf.kind)]

server_ready(s)   == [s EXCEPT !.starting = FALSE]
server_read_ok(s) == [s EXCEPT !.reads = @ - 1, !.rip = FALSE]
(* Slip: wip_ is not reset *)
server_write_ok_KeepsFlag(s) == Delivered([s EXCEPT !.writes = @ - 1])

server_write_ok(s) == Delivered([s EXCEPT !.writes = @ - 1, !.wip = FALSE])

(* The operations of s whose handler may be called with an error.  A TCP   *)
(* stream's start is a posted call and cannot fail.                        *)
ServerFailures(s) ==
    {op \in {"start", "read", "eof", "write"} :
        \/ op = "start" /\ Tls /\ s.starting
        \/ op \in {"read", "eof"} /\ s.reads > 0
        \/ op = "write" /\ s.writes > 0}

(* On end of file a TLS stream closes its socket before it reports *)
server_failed(s, op) ==
    CASE op = "start" -> server_ready(s)
      [] op = "read"  -> [s EXCEPT !.reads = @ - 1]
      [] op = "eof"   -> [s EXCEPT !.reads = @ - 1, !.open = @ /\ ~Tls]
      [] op = "write" -> [s EXCEPT !.writes = @ - 1]

(* One of the two handlers of TlsServerStream::stop has run *)
server_closed(s, op) == [s EXCEPT !.closing = @ \ {op}, !.open = FALSE]

client_resolved(c)  == [c EXCEPT !.phase = "connecting"]
client_connected(c) == [c EXCEPT !.phase = "connected", !.open = TRUE]
client_read_ok(c)   == [c EXCEPT !.reads = @ - 1, !.rip = FALSE]
client_write_ok(c)  == Delivered([c EXCEPT !.writes = @ - 1, !.wip = FALSE])

ClientFailures(c) ==
    {op \in {"connect", "read", "write"} :
        \/ op = "connect" /\ c.phase \in {"resolving", "connecting"}
        \/ op = "read" /\ c.reads > 0
        \/ op = "write" /\ c.writes > 0}

client_failed(c, op) ==
    CASE op = "connect" -> [c EXCEPT !.phase = "failed"]
      [] op = "read"    -> client_read_ok(c)
      [] op = "write"   -> [c EXCEPT !.writes = @ - 1]

(* Every operation that is outstanding on a stream *)
ServerQuiet(s) == ~s.starting /\ s.reads = 0 /\ s.writes = 0 /\ s.closing = {}
ClientQuiet(c) == c.phase \notin {"resolving", "connecting"} /\ c.reads = 0 /\ c.writes = 0
=============================================================================
