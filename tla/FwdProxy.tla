------------------------------ MODULE FwdProxy -------------------------------
(***************************************************************************)
(* The "tun" mode: FwdStreamManager, FwdSession and the FwdState objects   *)
(* over the streams of module Streams.  Every accepted connection is       *)
(* joined to the one target host.  One action per callback of the manager; *)
(* the operators named after a state's handler are what the callback runs  *)
(* in that state.                                                          *)
(***************************************************************************)
EXTENDS ProxyCore

States == {"FwdWaitConnection", "FwdConnectionEstablished", "FwdDataTransferMode"}

vars == coreVars

Init == CoreInit

-----------------------------------------------------------------------------
(* Slip: the client stream is forgotten *)
stop_ServerOnly(i, s, c) == Handled(i, Erased, server_stop(s), c)

(* FwdStreamManager::stop checks both pointers *)
stop(i, s, c) == StopBoth(i, s, c)

(* FwdState::handle_server_error and handle_client_error, in every state *)
handle_server_error(i, s, c) == stop(i, s, c)
(* Slip: the failure of the client side is only logged *)
handle_client_error_LogsOnly(i, s, c) == Ignored(i, s, c)

handle_client_error(i, s, c) == stop(i, s, c)

(* Slip: the client is read from while the connect is under way *)
FwdWaitConnection_handle_on_accept_ReadsEarly(i, s, c) ==
    Handled(i, "FwdConnectionEstablished", server_read(s), TcpClientStream_start(c))

FwdWaitConnection_handle_on_accept(i, s, c) ==
    Handled(i, "FwdConnectionEstablished", s, TcpClientStream_start(c))

FwdConnectionEstablished_handle_client_connect(i, s, c) ==
    Handled(i, "FwdDataTransferMode", server_read(s), client_read(c))

(* Slip: the chunk of the read before is written *)
FwdDataTransferMode_handle_server_read_Stale(i, s, c) ==
    Handled(i, "FwdDataTransferMode", Take(s), client_write(c, Data(s.got)))

(* FwdConnectionEstablished handles a server read as FwdDataTransferMode    *)
(* does, and changes to that state.                                         *)
FwdDataTransferMode_handle_server_read(i, s, c) ==
    Handled(i, "FwdDataTransferMode", Take(s), client_write(c, Data(s.got + 1)))

FwdDataTransferMode_handle_server_write(i, s, c) ==
    Handled(i, session[i], s, client_read(c))

(* Slip: the next chunk is read before this one is written *)
FwdDataTransferMode_handle_client_read_Eager(i, s, c) ==
    Handled(i, session[i], server_write(s, Data(c.got + 1)), client_read(Take(c)))

FwdDataTransferMode_handle_client_read(i, s, c) ==
    Handled(i, session[i], server_write(s, Data(c.got + 1)), Take(c))

FwdDataTransferMode_handle_client_write(i, s, c) ==
    Handled(i, session[i], server_read(s), c)

-----------------------------------------------------------------------------
on_accept(i) == accept(i, "FwdWaitConnection")

(* The manager gives the session a fresh client stream first *)
on_server_ready(i) ==
    /\ server[i].starting
    /\ LET s == server_ready(server[i])
           c == IF Live(i) THEN TcpClientStream_create ELSE client[i]
       IN IF session[i] = "FwdWaitConnection"
          THEN FwdWaitConnection_handle_on_accept(i, s, c)
          ELSE Ignored(i, s, c)

on_connect(i) ==
    /\ client[i].phase = "connecting"
    /\ LET c == client_connected(client[i])
       IN IF session[i] = "FwdConnectionEstablished"
          THEN FwdConnectionEstablished_handle_client_connect(i, server[i], c)
          ELSE Ignored(i, server[i], c)

on_server_read(i) ==
    /\ server[i].reads > 0
    /\ LET s == server_read_ok(server[i])
       IN IF session[i] \in {"FwdConnectionEstablished", "FwdDataTransferMode"}
          THEN /\ s.got < MaxChunks
               /\ FwdDataTransferMode_handle_server_read(i, s, client[i])
          ELSE Ignored(i, s, client[i])

(* Slip: the session is not looked up *)
on_server_write_Unchecked(i) ==
    /\ server[i].writes > 0
    /\ FwdDataTransferMode_handle_server_write(i, server_write_ok(server[i]), client[i])

on_server_write(i) ==
    /\ server[i].writes > 0
    /\ LET s == server_write_ok(server[i])
       IN IF session[i] = "FwdDataTransferMode"
          THEN FwdDataTransferMode_handle_server_write(i, s, client[i])
          ELSE Ignored(i, s, client[i])

on_client_read(i) ==
    /\ client[i].reads > 0
    /\ LET c == client_read_ok(client[i])
       IN IF session[i] = "FwdDataTransferMode"
          THEN /\ c.got < MaxChunks
               /\ FwdDataTransferMode_handle_client_read(i, server[i], c)
          ELSE Ignored(i, server[i], c)

on_client_write(i) ==
    /\ client[i].writes > 0
    /\ LET c == client_write_ok(client[i])
       IN IF session[i] = "FwdDataTransferMode"
          THEN FwdDataTransferMode_handle_client_write(i, server[i], c)
          ELSE Ignored(i, server[i], c)

on_server_error(i) ==
    \E op \in ServerFailures(server[i]) :
        LET s == server_failed(server[i], op)
        IN IF Live(i) THEN handle_server_error(i, s, client[i]) ELSE Ignored(i, s, client[i])

on_client_error(i) ==
    \E op \in ClientFailures(client[i]) :
        LET c == client_failed(client[i], op)
        IN IF Live(i) THEN handle_client_error(i, server[i], c) ELSE Ignored(i, server[i], c)

(* A handler of TlsServerStream::stop; it reports an error before it closes *)
on_server_closed(i) ==
    \E op \in server[i].closing, failed \in BOOLEAN :
        LET s == server_closed(server[i], op)
        IN IF failed /\ Live(i) THEN handle_server_error(i, s, client[i])
                                ELSE Ignored(i, s, client[i])

-----------------------------------------------------------------------------
ServerStep(i) == \/ on_server_read(i) \/ on_server_write(i)
                 \/ on_server_error(i) \/ on_server_closed(i)

ClientStep(i) == \/ resolved(i) \/ on_connect(i)
                 \/ on_client_read(i) \/ on_client_write(i) \/ on_client_error(i)

Next == \/ \E i \in Ids : \/ on_accept(i) \/ on_server_ready(i)
                          \/ ServerStep(i) \/ ClientStep(i)
        \/ signal

Spec == Init /\ [][Next]_vars

(***************************************************************************)
(* Fairness, as long as the io_context runs: the posted on_server_ready of *)
(* a TCP stream is called; a resolution or a connect ends, in success or   *)
(* failure, by the system's timeouts; the empty write of a TLS stream's    *)
(* stop() needs nothing from the peer; what is outstanding on a socket     *)
(* that was shut down or closed ends.  No peer is assumed to send, to      *)
(* read, to finish a TLS handshake or to answer a TLS shutdown.            *)
(***************************************************************************)
Posted(i)      == ~Tls /\ on_server_ready(i)
Setup(i)       == client[i].phase \in {"resolving", "connecting"} /\ ClientStep(i)
Closing(i)     == "write" \in server[i].closing /\ on_server_closed(i)
DrainServer(i) == ~server[i].open /\ ServerStep(i)
DrainClient(i) == ~client[i].open /\ ClientStep(i)

FairSpec ==
    /\ Spec
    /\ \A i \in Ids : /\ WF_vars(Posted(i)) /\ WF_vars(Setup(i)) /\ WF_vars(Closing(i))
                      /\ WF_vars(DrainServer(i)) /\ WF_vars(DrainClient(i))
-----------------------------------------------------------------------------
(* Types of the state. *)
TypeOK == CoreTypeOK(States)

(* Each state of a live session waits for exactly the callbacks that can    *)
(* move it on: the ready stream, then the connect alone, then one operation *)
(* per direction of the relay.  A session in the map with nothing           *)
(* outstanding would stay there, with its sockets, for ever; a second       *)
(* operation would share a buffer or advance a state twice.  (fwd_state.cpp *)
(* starts each operation from another handler, across two stream classes.)  *)
ArmedIn(i) ==
    /\ session[i] = "FwdWaitConnection" =>
           /\ server[i].starting /\ OnlyServer(i)
           /\ server[i].reads = 0 /\ server[i].writes = 0
    /\ session[i] = "FwdConnectionEstablished" => OnlyConnecting(i)
    /\ session[i] = "FwdDataTransferMode" => RelayArmed(i) /\ server[i].closing = {}

Armed == \A i \in Ids : ArmedIn(i)

(* No buffer of a stream is ever used by two operations, also after its     *)
(* session was erased: the flags of the TCP streams never have to drop a    *)
(* chunk, and TlsServerStream, which has none, never overwrites             *)
(* write_buffer_ while it is being sent.  While the session lives, these    *)
(* are all the operations; once it is erased, the empty write of            *)
(* TlsServerStream::stop may be outstanding beside the last chunk.          *)
BuffersExclusive == \A i \in Ids : OneOperation(i)

(* While a session relays, every chunk read from a stream was sent to the   *)
(* other or is in its write buffer; so when a read is outstanding, an end   *)
(* of file of that stream cuts nothing of its own direction off.            *)
NothingLost == \A i \in Ids : session[i] = "FwdDataTransferMode" => Conserved(i)

(* A late completion of an erased session neither revives it nor starts     *)
(* another operation on its streams.                                        *)
ClosedStaysQuiet == [][\A i \in Ids : NoNewOperation(i)]_vars

(* A session never waits for its connect for ever: the failure of the       *)
(* resolution or of the connect ends it.                                    *)
ConnectEnds ==
    \A i \in Ids : session[i] = "FwdConnectionEstablished" ~>
                       session[i] # "FwdConnectionEstablished" \/ running # "running"

(* After a session was erased its streams are released: every operation     *)
(* that holds one ends.                                                     *)
ClosedDrains ==
    \A i \in Ids : ~Live(i) /\ i \leq stream_id ~> Quiet(i) \/ running # "running"
=============================================================================
