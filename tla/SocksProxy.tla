----------------------------- MODULE SocksProxy ------------------------------
(***************************************************************************)
(* The "socks5" mode: SocksStreamManager, SocksSession and the SocksState  *)
(* objects, up to and including the TCP relay.  A session answers the      *)
(* client's greeting, reads its request, connects, answers the request,    *)
(* and relays.                                                             *)
(*                                                                         *)
(* UDP ASSOCIATE is supported only without TLS (TlsHonoured of Config).    *)
(* This module models how a TLS proxy turns it down, module UdpRelay what  *)
(* becomes of it otherwise; how messages are told apart is in module       *)
(* SocksMessages.                                                          *)
(***************************************************************************)
EXTENDS ProxyCore

CONSTANTS Greetings, Requests

(* A greeting offers "no authentication", or it is bad: it offers only other *)
(* methods, or it is none.                                                  *)
GreetingKinds == {"noauth", "bad"}

(* A request is a well-formed CONNECT, a UDP ASSOCIATE, or bad: a BIND, an    *)
(* address that cannot be read, or no request at all.  Any read may also    *)
(* bring a mere piece of a message, which is a bad one.                     *)
RequestKinds == {"connect", "udp", "bad"}

ASSUME InputsAssumption ==
    /\ Greetings \subseteq GreetingKinds
    /\ Requests \subseteq RequestKinds
    /\ "udp" \in Requests => Tls

States == {"SocksWaitConnection", "SocksAuthRequest", "SocksConnectionRequest",
           "SocksConnectionEstablished", "SocksReadyTransferData", "SocksDataTransferMode"}

vars == coreVars

Init == CoreInit

-----------------------------------------------------------------------------
(* Slip: the client stream is forgotten *)
stop_ServerOnly(i, s, c) == Handled(i, Erased, server_stop(s), c)

stop(i, s, c) == StopBoth(i, s, c)

SocksState_handle_server_error(i, s, c) == stop(i, s, c)
SocksState_handle_client_error(i, s, c) == stop(i, s, c)

SocksWaitConnection_handle_on_accept(i, s, c) ==
    Handled(i, "SocksAuthRequest", server_read(s), c)

(* The state moves on to the request whatever the answer was *)
SocksAuthRequest_handle_server_read(i, s, c) ==
    \E greeting \in Greetings :
        Handled(i, "SocksConnectionRequest",
                server_write(s, Message(IF greeting = "noauth" THEN "NoAuth" ELSE "NotSupported")),
                c)

SocksConnectionRequest_handle_server_write(i, s, c) ==
    Handled(i, session[i], server_read(s), c)

(* Slip: the client is read from while the connect is under way *)
SocksConnectionRequest_handle_server_read_ReadsEarly(i, s, c) ==
    Handled(i, "SocksConnectionEstablished", server_read(s),
            TcpClientStream_start(TcpClientStream_create))

(* connect() makes the client stream if there is none *)
SocksConnectionRequest_handle_server_read(i, s, c) ==
    \E request \in Requests :
        CASE request = "connect" ->
                 Handled(i, "SocksConnectionEstablished", s,
                         TcpClientStream_start(IF c.made THEN c ELSE TcpClientStream_create))
          [] request = "udp" ->
                 stop(i, server_write(s, Message("command_not_supported")), c)
          [] request = "bad" -> stop(i, s, c)

SocksConnectionEstablished_handle_client_connect(i, s, c) ==
    Handled(i, "SocksReadyTransferData", server_write(s, Message("succeeded")), c)

(* Slip: the failure is not answered *)
SocksConnectionEstablished_handle_client_error_Silent(i, s, c) == Ignored(i, s, c)

(* Slip: the answer does not say that the connect failed *)
SocksConnectionEstablished_handle_client_error_Succeeds(i, s, c) ==
    Handled(i, session[i], server_write(s, Message("succeeded")), c)

(* The state stays, and the session ends once the answer is written *)
SocksConnectionEstablished_handle_client_error(i, s, c) ==
    Handled(i, session[i], server_write(s, Message("failed")), c)

(* Slip: the session is not stopped after the answer *)
SocksConnectionEstablished_handle_server_write_NoStop(i, s, c) == Ignored(i, s, c)

SocksConnectionEstablished_handle_server_write(i, s, c) == stop(i, s, c)

SocksReadyTransferData_handle_server_write(i, s, c) ==
    Handled(i, "SocksDataTransferMode", server_read(s), client_read(c))

SocksDataTransferMode_handle_server_write(i, s, c) ==
    Handled(i, session[i], s, client_read(c))

(* Slip: the chunk of the read before is written *)
SocksDataTransferMode_handle_server_read_Stale(i, s, c) ==
    Handled(i, session[i], Take(s), client_write(c, Data(s.got)))

SocksDataTransferMode_handle_server_read(i, s, c) ==
    Handled(i, session[i], Take(s), client_write(c, Data(s.got + 1)))

SocksDataTransferMode_handle_client_write(i, s, c) ==
    Handled(i, session[i], server_read(s), c)

(* Slip: the next chunk is read before this one is written *)
SocksDataTransferMode_handle_client_read_Eager(i, s, c) ==
    Handled(i, session[i], server_write(s, Data(c.got + 1)), client_read(Take(c)))

SocksDataTransferMode_handle_client_read(i, s, c) ==
    Handled(i, session[i], server_write(s, Data(c.got + 1)), Take(c))

-----------------------------------------------------------------------------
on_accept(i) == accept(i, "SocksWaitConnection")

on_server_ready(i) ==
    /\ server[i].starting
    /\ LET s == server_ready(server[i])
       IN IF session[i] = "SocksWaitConnection"
          THEN SocksWaitConnection_handle_on_accept(i, s, client[i])
          ELSE Ignored(i, s, client[i])

on_connect(i) ==
    /\ client[i].phase = "connecting"
    /\ LET c == client_connected(client[i])
       IN IF session[i] = "SocksConnectionEstablished"
          THEN SocksConnectionEstablished_handle_client_connect(i, server[i], c)
          ELSE Ignored(i, server[i], c)

on_server_read(i) ==
    /\ server[i].reads > 0
    /\ LET s == server_read_ok(server[i])
           c == client[i]
       IN \/ session[i] = "SocksAuthRequest" /\ SocksAuthRequest_handle_server_read(i, s, c)
          \/ session[i] = "SocksConnectionRequest"
             /\ SocksConnectionRequest_handle_server_read(i, s, c)
          \/ session[i] = "SocksDataTransferMode" /\ s.got < MaxChunks
             /\ SocksDataTransferMode_handle_server_read(i, s, c)
          \/ session[i] \notin {"SocksAuthRequest", "SocksConnectionRequest", "SocksDataTransferMode"}
             /\ Ignored(i, s, c)

(* Slip: the session is not looked up after the handshake *)
on_server_write_Unchecked(i) ==
    /\ server[i].writes > 0
    /\ LET s == server_write_ok(server[i])
           c == client[i]
       IN CASE session[i] = "SocksConnectionEstablished" ->
                   SocksConnectionEstablished_handle_server_write(i, s, c)
            [] session[i] = "SocksReadyTransferData" ->
                   SocksReadyTransferData_handle_server_write(i, s, c)
            [] session[i] = "SocksDataTransferMode" ->
                   SocksDataTransferMode_handle_server_write(i, s, c)
            [] OTHER -> SocksConnectionRequest_handle_server_write(i, s, c)

on_server_write(i) ==
    /\ server[i].writes > 0
    /\ LET s == server_write_ok(server[i])
           c == client[i]
       IN CASE session[i] = "SocksConnectionRequest" ->
                   SocksConnectionRequest_handle_server_write(i, s, c)
            [] session[i] = "SocksConnectionEstablished" ->
                   SocksConnectionEstablished_handle_server_write(i, s, c)
            [] session[i] = "SocksReadyTransferData" ->
                   SocksReadyTransferData_handle_server_write(i, s, c)
            [] session[i] = "SocksDataTransferMode" ->
                   SocksDataTransferMode_handle_server_write(i, s, c)
            [] OTHER -> Ignored(i, s, c)

on_client_read(i) ==
    /\ client[i].reads > 0
    /\ LET c == client_read_ok(client[i])
       IN IF session[i] = "SocksDataTransferMode"
          THEN /\ c.got < MaxChunks
               /\ SocksDataTransferMode_handle_client_read(i, server[i], c)
          ELSE Ignored(i, server[i], c)

on_client_write(i) ==
    /\ client[i].writes > 0
    /\ LET c == client_write_ok(client[i])
       IN IF session[i] = "SocksDataTransferMode"
          THEN SocksDataTransferMode_handle_client_write(i, server[i], c)
          ELSE Ignored(i, server[i], c)

on_server_error(i) ==
    \E op \in ServerFailures(server[i]) :
        LET s == server_failed(server[i], op)
        IN IF Live(i) THEN SocksState_handle_server_error(i, s, client[i])
                      ELSE Ignored(i, s, client[i])

on_client_error(i) ==
    \E op \in ClientFailures(client[i]) :
        LET c == client_failed(client[i], op)
        IN CASE session[i] = "SocksConnectionEstablished" ->
                    SocksConnectionEstablished_handle_client_error(i, server[i], c)
             [] session[i] = Erased -> Ignored(i, server[i], c)
             [] OTHER -> SocksState_handle_client_error(i, server[i], c)

(* A handler of TlsServerStream::stop; it reports an error before it closes *)
on_server_closed(i) ==
    \E op \in server[i].closing, failed \in BOOLEAN :
        LET s == server_closed(server[i], op)
        IN IF failed /\ Live(i) THEN SocksState_handle_server_error(i, s, client[i])
                                ELSE Ignored(i, s, client[i])

-----------------------------------------------------------------------------
ServerStep(i) == \/ on_server_read(i) \/ on_server_write(i)
                 \/ on_server_error(i) \/ on_server_closed(i)

ClientStep(i) == \/ resolved(i) \/ on_connect(i)
                 \/ on_client_read(i) \/ on_client_write(i) \/ on_client_error(i)

Next == \/ \E i \in Ids : \/ on_accept(i) \/ on_server_ready(i)
                          \/ ServerStep(i) \/ ClientStep(i)
        \/ signal

Spec == Init /\ [][Next]_vars

(***************************************************************************)
(* Fairness, as long as the io_context runs.  Setup: a resolution or a     *)
(* connect ends by the system's timeouts.  Reply: the answer to a request, *)
(* which echoes the segment that was read with its second byte changed,    *)
(* and before it two bytes of the greeting's answer, are all the client is *)
(* sent so far and fit the send buffer of its connection: the write ends.  *)
(* Closing: the empty write of a TLS stream's stop() needs nothing from    *)
(* the peer.  Drain: what is outstanding on a socket that was shut down or *)
(* closed ends.                                                            *)
(***************************************************************************)
Setup(i)       == client[i].phase \in {"resolving", "connecting"} /\ ClientStep(i)
Reply(i)       == session[i] = "SocksConnectionEstablished" /\ ServerStep(i)
Closing(i)     == "write" \in server[i].closing /\ on_server_closed(i)
DrainServer(i) == ~server[i].open /\ ServerStep(i)
DrainClient(i) == ~client[i].open /\ ClientStep(i)

FairSpec ==
    /\ Spec
    /\ \A i \in Ids : /\ WF_vars(Setup(i)) /\ WF_vars(Reply(i)) /\ WF_vars(Closing(i))
                      /\ WF_vars(DrainServer(i)) /\ WF_vars(DrainClient(i))

-----------------------------------------------------------------------------
(* Types of the state. *)
TypeOK == CoreTypeOK(States)

(* The answer to a failed connect is being written: nothing else is armed *)
OnlyReply(i) ==
    /\ OnlyServer(i) /\ ~server[i].starting
    /\ server[i].reads = 0 /\ server[i].writes = 1

(* Each state of a live session waits for exactly the callbacks that can    *)
(* move it on.  (A SOCKS state is entered before the write its next step    *)
(* waits for is done; SocksConnectionEstablished waits for the connect and  *)
(* then, after a failure only, for the write of the answer.)                *)
ArmedIn(i) ==
    /\ session[i] = "SocksWaitConnection" =>
           /\ server[i].starting /\ OnlyServer(i)
           /\ server[i].reads = 0 /\ server[i].writes = 0
    /\ session[i] = "SocksAuthRequest" =>
           /\ OnlyServer(i) /\ ~server[i].starting
           /\ server[i].reads = 1 /\ server[i].writes = 0
    /\ session[i] = "SocksConnectionRequest" =>
           /\ OnlyServer(i) /\ ~server[i].starting
           /\ server[i].reads + server[i].writes = 1
    /\ session[i] = "SocksConnectionEstablished" =>
           OnlyConnecting(i) \/ (client[i].phase = "failed" /\ OnlyReply(i))
    /\ session[i] = "SocksReadyTransferData" =>
           client[i].phase = "connected" /\ OnlyReply(i)
    /\ session[i] = "SocksDataTransferMode" => RelayArmed(i) /\ server[i].closing = {}

Armed == \A i \in Ids : ArmedIn(i)

(* No buffer of a stream is ever used by two operations, whether an answer  *)
(* or a chunk used it last.  While the session lives, these are all the     *)
(* operations; once it is erased, the empty write of TlsServerStream::stop  *)
(* may be outstanding beside the last chunk, or beside the refusal that was *)
(* written just before it (socks_state.cpp:137-138).                        *)
BuffersExclusive == \A i \in Ids : OneOperation(i)

(* While a session relays, every chunk read from a stream was sent to the   *)
(* other or is in its write buffer.                                         *)
NothingLost == \A i \in Ids : session[i] = "SocksDataTransferMode" => Conserved(i)

(* The client hears at most two answers, the second is the outcome of its   *)
(* request, true to what happened to the connect; chunks pass only after    *)
(* "succeeded"; the host hears nothing but chunks.                          *)
Transcript ==
    \A i \in Ids :
        LET said == server[i].said
        IN /\ Len(said) \leq 2
           /\ Len(said) > 0 => said[1] \in {"NoAuth", "NotSupported"}
           /\ Len(said) = 2 =>
                  \/ said[2] = "succeeded" /\ client[i].phase = "connected"
                  \/ said[2] = "failed" /\ client[i].phase = "failed"
                  \/ said[2] = "command_not_supported" /\ ~client[i].made
           /\ server[i].got + client[i].got > 0 => Len(said) = 2 /\ said[2] = "succeeded"
           /\ client[i].said = <<>>

(* A late completion of an erased session neither revives it nor starts     *)
(* another operation on its streams.                                        *)
ClosedStaysQuiet == [][\A i \in Ids : NoNewOperation(i)]_vars

(* A session whose connect fails is answered and then ends, though the      *)
(* state that handles the failure does not change: no session remains in    *)
(* SocksConnectionEstablished.                                              *)
ConnectEnds ==
    \A i \in Ids : session[i] = "SocksConnectionEstablished" ~>
                       session[i] # "SocksConnectionEstablished" \/ running # "running"

(* After a session was erased every operation that holds a stream ends.     *)
ClosedDrains ==
    \A i \in Ids : ~Live(i) /\ i \leq stream_id ~> Quiet(i) \/ running # "running"
=============================================================================
