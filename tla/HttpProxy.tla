------------------------------ MODULE HttpProxy ------------------------------
(***************************************************************************)
(* The "http" mode: HttpStreamManager, HttpSession and the HttpState       *)
(* objects.  A session reads one request, connects to the host it names    *)
(* and, for CONNECT, answers 200, or else forwards the request; then it    *)
(* relays.                                                                 *)
(***************************************************************************)
EXTENDS ProxyCore

CONSTANT Requests     \* what the first read may bring, see RequestKinds

(* A CONNECT request, another request, bytes in which no host or no service *)
(* is found (which the first segment of a longer request may be), and a     *)
(* request, or the first segment of one, with a line that ends after        *)
(* "Host:" or, once the host is known, after "Connection:", for which       *)
(* get_headers throws: module HttpMessages tells which is which.            *)
RequestKinds == {"connect", "other", "bad", "valueless"}

ASSUME RequestsAssumption == Requests \subseteq RequestKinds

States == {"HttpWaitRequest", "HttpConnectionEstablished",
           "HttpReadyTransferData", "HttpDataTransferMode"}

VARIABLE response     \* [Ids -> the message that opens the relay: "200", or the "request"]

vars == <<running, stream_id, session, server, client, response>>

Init == CoreInit /\ response = [i \in Ids |-> "none"]

-----------------------------------------------------------------------------
(* A call through a null pointer, or an exception that only main() catches *)
Dies(i, s, c) ==
    /\ running = "running"
    /\ running' = "crashed"
    /\ server' = [server EXCEPT ![i] = s]
    /\ client' = [client EXCEPT ![i] = c]
    /\ UNCHANGED <<stream_id, session>>

(* Slip: the client stream is forgotten *)
stop_ServerOnly(i, s, c) == Handled(i, Erased, server_stop(s), c)

(* HttpStreamManager::stop calls client->stop() unchecked: without a client *)
(* stream the program dies there.                                           *)
stop(i, s, c) == IF c.made THEN StopBoth(i, s, c) ELSE Dies(i, s, c)

handle_server_error(i, s, c) == stop(i, s, c)
handle_client_error(i, s, c) == stop(i, s, c)

HttpWaitRequest_handle_on_accept(i, s, c) == Handled(i, session[i], server_read(s), c)

HttpWaitRequest_handle_server_read(i, s, c) ==
    \E kind \in Requests :
        CASE kind = "bad"       -> stop(i, server_write(s, Message("500")), c) /\ UNCHANGED response
          [] kind = "valueless" -> Dies(i, s, c) /\ UNCHANGED response
          [] OTHER              ->
                 /\ response' = [response EXCEPT ![i] = IF kind = "connect" THEN "200" ELSE "request"]
                 /\ Handled(i, "HttpConnectionEstablished", s, TcpClientStream_start(c))

(* Slip: every request is answered 200 *)
HttpConnectionEstablished_handle_client_connect_Always200(i, s, c) ==
    Handled(i, "HttpReadyTransferData", server_write(s, Message("200")), c)

HttpConnectionEstablished_handle_client_connect(i, s, c) ==
    IF response[i] = "200"
    THEN Handled(i, "HttpReadyTransferData", server_write(s, Message(response[i])), c)
    ELSE Handled(i, "HttpReadyTransferData", s, client_write(c, Message(response[i])))

(* Slip: only one direction is started *)
HttpReadyTransferData_handle_write_OneWay(i, s, c) ==
    Handled(i, "HttpDataTransferMode", server_read(s), c)

(* After either write *)
HttpReadyTransferData_handle_write(i, s, c) ==
    Handled(i, "HttpDataTransferMode", server_read(s), client_read(c))

HttpDataTransferMode_handle_server_write(i, s, c) ==
    Handled(i, session[i], s, client_read(c))

(* Slip: the chunk of the read before is written *)
HttpDataTransferMode_handle_server_read_Stale(i, s, c) ==
    Handled(i, session[i], Take(s), client_write(c, Data(s.got)))

HttpDataTransferMode_handle_server_read(i, s, c) ==
    Handled(i, session[i], Take(s), client_write(c, Data(s.got + 1)))

HttpDataTransferMode_handle_client_write(i, s, c) ==
    Handled(i, session[i], server_read(s), c)

(* Slip: the next chunk is read before this one is written *)
HttpDataTransferMode_handle_client_read_Eager(i, s, c) ==
    Handled(i, session[i], server_write(s, Data(c.got + 1)), client_read(Take(c)))

HttpDataTransferMode_handle_client_read(i, s, c) ==
    Handled(i, session[i], server_write(s, Data(c.got + 1)), Take(c))

-----------------------------------------------------------------------------
on_accept(i) == accept(i, "HttpWaitRequest")

(* Slip: the client stream is left to connect(), as in SocksStreamManager *)
on_server_ready_NoClient(i) ==
    /\ server[i].starting
    /\ HttpWaitRequest_handle_on_accept(i, server_ready(server[i]), client[i])

(* The client stream is created here, before any request is read *)
on_server_ready(i) ==
    /\ server[i].starting
    /\ LET s == server_ready(server[i])
           c == IF Live(i) THEN TcpClientStream_create ELSE client[i]
       IN IF session[i] = "HttpWaitRequest"
          THEN HttpWaitRequest_handle_on_accept(i, s, c)
          ELSE Ignored(i, s, c)

on_connect(i) ==
    /\ client[i].phase = "connecting"
    /\ LET c == client_connected(client[i])
       IN IF session[i] = "HttpConnectionEstablished"
          THEN HttpConnectionEstablished_handle_client_connect(i, server[i], c)
          ELSE Ignored(i, server[i], c)

on_server_read(i) ==
    /\ server[i].reads > 0
    /\ LET s == server_read_ok(server[i])
       IN \/ /\ session[i] = "HttpWaitRequest"
             /\ HttpWaitRequest_handle_server_read(i, s, client[i])
          \/ /\ session[i] = "HttpDataTransferMode" /\ s.got < MaxChunks
             /\ HttpDataTransferMode_handle_server_read(i, s, client[i])
             /\ UNCHANGED response
          \/ /\ session[i] \notin {"HttpWaitRequest", "HttpDataTransferMode"}
             /\ Ignored(i, s, client[i])
             /\ UNCHANGED response

(* Slip: the session is not looked up *)
on_server_write_Unchecked(i) ==
    /\ server[i].writes > 0
    /\ HttpDataTransferMode_handle_server_write(i, server_write_ok(server[i]), client[i])

on_server_write(i) ==
    /\ server[i].writes > 0
    /\ LET s == server_write_ok(server[i])
       IN CASE session[i] = "HttpReadyTransferData" ->
                   HttpReadyTransferData_handle_write(i, s, client[i])
            [] session[i] = "HttpDataTransferMode" ->
                   HttpDataTransferMode_handle_server_write(i, s, client[i])
            [] OTHER -> Ignored(i, s, client[i])

on_client_read(i) ==
    /\ client[i].reads > 0
    /\ LET c == client_read_ok(client[i])
       IN IF session[i] = "HttpDataTransferMode"
          THEN /\ c.got < MaxChunks
               /\ HttpDataTransferMode_handle_client_read(i, server[i], c)
          ELSE Ignored(i, server[i], c)

on_client_write(i) ==
    /\ client[i].writes > 0
    /\ LET c == client_write_ok(client[i])
       IN CASE session[i] = "HttpReadyTransferData" ->
                   HttpReadyTransferData_handle_write(i, server[i], c)
            [] session[i] = "HttpDataTransferMode" ->
                   HttpDataTransferMode_handle_client_write(i, server[i], c)
            [] OTHER -> Ignored(i, server[i], c)

on_server_error(i) ==
    \E op \in ServerFailures(server[i]) :
        LET s == server_failed(server[i], op)
        IN IF Live(i) THEN handle_server_error(i, s, client[i]) ELSE Ignored(i, s, client[i])

on_client_error(i) ==
    \E op \in ClientFailures(client[i]) :
        LET c == client_failed(client[i], op)
        IN IF Live(i) THEN handle_client_error(i, server[i], c) ELSE Ignored(i, server[i], c)

(* A handler of TlsServerStream::stop; it reports an error before it closes *)
on_server_closed(i) ==
    \E op \in server[i].closing, failed \in BOOLEAN :
        LET s == server_closed(server[i], op)
        IN IF failed /\ Live(i) THEN handle_server_error(i, s, client[i])
                                ELSE Ignored(i, s, client[i])

-----------------------------------------------------------------------------
ServerStep(i) ==
    \/ on_server_read(i)
    \/ /\ on_server_write(i) \/ on_server_error(i) \/ on_server_closed(i)
       /\ UNCHANGED response

ClientStep(i) ==
    /\ \/ resolved(i) \/ on_connect(i)
       \/ on_client_read(i) \/ on_client_write(i) \/ on_client_error(i)
    /\ UNCHANGED response

Next == \/ \E i \in Ids : \/ ServerStep(i) \/ ClientStep(i)
                          \/ (on_accept(i) \/ on_server_ready(i)) /\ UNCHANGED response
        \/ signal /\ UNCHANGED response

Spec == Init /\ [][Next]_vars

(* Fairness is that of FwdProxy *)
Posted(i)      == ~Tls /\ on_server_ready(i) /\ UNCHANGED response
Setup(i)       == client[i].phase \in {"resolving", "connecting"} /\ ClientStep(i)
Closing(i)     == "write" \in server[i].closing /\ on_server_closed(i) /\ UNCHANGED response
DrainServer(i) == ~server[i].open /\ ServerStep(i)
DrainClient(i) == ~client[i].open /\ ClientStep(i)

FairSpec ==
    /\ Spec
    /\ \A i \in Ids : /\ WF_vars(Posted(i)) /\ WF_vars(Setup(i)) /\ WF_vars(Closing(i))
                      /\ WF_vars(DrainServer(i)) /\ WF_vars(DrainClient(i))

-----------------------------------------------------------------------------
(* Types of the state. *)
TypeOK == CoreTypeOK(States) /\ response \in [Ids -> {"none", "200", "request"}]

(* Each state of a live session waits for exactly the callbacks that can    *)
(* move it on: the ready stream or the request, the connect alone, the one  *)
(* opening write (to the client or to the host), one operation for each     *)
(* direction of the relay.  (http_state.cpp: either of two write callbacks  *)
(* starts both reads; were both to run, each read would be asked twice.)    *)
ArmedIn(i) ==
    /\ session[i] = "HttpWaitRequest" =>
           /\ OnlyServer(i) /\ server[i].writes = 0
           /\ server[i].starting <=> server[i].reads = 0
    /\ session[i] = "HttpConnectionEstablished" => OnlyConnecting(i)
    /\ session[i] = "HttpReadyTransferData" =>
           /\ ~server[i].starting /\ server[i].closing = {}
           /\ server[i].reads = 0 /\ client[i].reads = 0
           /\ server[i].writes + client[i].writes = 1
           /\ client[i].phase = "connected"
    /\ session[i] = "HttpDataTransferMode" => RelayArmed(i) /\ server[i].closing = {}

Armed == running # "crashed" => \A i \in Ids : ArmedIn(i)

(* No buffer of a stream is ever used by two operations, whether the        *)
(* opening write, the relay or a 500 used it last.  While the session       *)
(* lives, these are all the operations; once it is erased, the empty write  *)
(* of TlsServerStream::stop may be outstanding beside the last chunk, or    *)
(* beside the 500 that was written just before it (http_state.cpp:85-86).   *)
BuffersExclusive == \A i \in Ids : OneOperation(i)

(* While a session relays, every chunk read from a stream was sent to the   *)
(* other or is in its write buffer.                                         *)
NothingLost == \A i \in Ids : session[i] = "HttpDataTransferMode" => Conserved(i)

(* The relay is opened by one message: the client hears 200 for a CONNECT,  *)
(* and only when the remote host is connected; for another request the host *)
(* hears the request before any chunk and the client hears nothing of the   *)
(* proxy; a 500 is only ever sent without a connect.                        *)
OpenedOnce ==
    \A i \in Ids :
        /\ server[i].said \in {<<>>, <<"200">>, <<"500">>}
        /\ client[i].said \in {<<>>, <<"request">>}
        /\ server[i].said = <<"200">> => response[i] = "200" /\ client[i].phase = "connected"
        /\ server[i].said = <<"500">> => client[i].phase = "idle"
        /\ client[i].said # <<>> => response[i] = "request" /\ server[i].said = <<>>
        /\ server[i].got + client[i].got > 0 =>
               IF response[i] = "200" THEN server[i].said = <<"200">>
                                      ELSE client[i].said = <<"request">>

(* A late completion of an erased session, the 500 that stop() overtook     *)
(* among them, neither revives it nor starts another operation.             *)
ClosedStaysQuiet == [][\A i \in Ids : NoNewOperation(i)]_vars

(* A failing connection ends its own session and not the program.           *)
(* (HttpStreamManager::stop relies on the client stream being there.  It    *)
(* holds of plain TCP, as long as no request or first segment of one has a  *)
(* Host or Connection header with nothing after its name.)                  *)
Survives == running # "crashed"

(* After a session was erased its streams are released, also when a 500 was *)
(* still to be written: every operation that holds one ends.                *)
ClosedDrains ==
    \A i \in Ids : ~Live(i) /\ i \leq stream_id ~> Quiet(i) \/ running # "running"
=============================================================================
