------------------------------ MODULE UdpRelay ------------------------------
(***************************************************************************)
(* A SOCKS5 UDP association: what becomes of a session of SocksProxy that  *)
(* reads a request for UDP ASSOCIATE over plain TCP.  The request is       *)
(* answered on the TCP ("control") connection, and from then on datagrams  *)
(* go from the client's UDP socket to the hosts they name and back.        *)
(*                                                                         *)
(* The module starts where SocksProxy stands in SocksConnectionRequest     *)
(* with its read outstanding, and follows one association: associations    *)
(* share nothing but the session map, which SocksProxy models.             *)
(***************************************************************************)
EXTENDS UdpStreams, Streams

CONSTANTS MaxDatagrams,   \* bound: datagrams that reach the client's socket
          MaxAnswers,     \* bound: datagrams that hosts send back
          MaxControl      \* bound: segments the client sends after its request

(* main.cpp supports UDP ASSOCIATE only without TLS *)
ASSUME UdpAssumption ==
    /\ ~Tls
    /\ MaxDatagrams \in Nat /\ MaxAnswers \in Nat /\ MaxControl \in Nat

VARIABLES session,    \* the state object of the session, or Erased, or Ended
          control,    \* the TCP side of the server stream
          local,      \* the UDP side of the server stream
          host,       \* the client stream
          segments,   \* how many segments the client sent on the control connection
          answers     \* how many datagrams the hosts sent

vars == <<session, control, local, host, segments, answers>>

(* Ended: an exception has ended the program, and every session with it *)
Erased == "none"
Ended == "ended"
Live == session \notin {Erased, Ended}
States == {"SocksConnectionRequest", "SocksReadyUdpTransferData", "SocksDataUdpTransferMode"}

(* UDP ASSOCIATE with a request as long as the answer will be, or of another *)
(* length; or what parse_requested_socks_mode turns down.                    *)
Requests == {"udp", "udp_other_length", "bad"}

Init ==
    /\ session = "SocksConnectionRequest"
    /\ control = [TcpServerStream_read_tcp(NoServer) EXCEPT !.open = TRUE, !.said = <<"NoAuth">>]
    /\ local = NoLocal
    /\ host = NoHost
    /\ segments = 0
    /\ answers = 0

-----------------------------------------------------------------------------
Handled(state, s, l, h) ==
    /\ session # Ended
    /\ session' = state
    /\ control' = s
    /\ local' = l
    /\ host' = h

Ignored(s, l, h) == Handled(session, s, l, h)

(* Slip: the UDP socket of the server stream is forgotten *)
stop_ControlOnly(s, l, h) == Handled(Erased, TcpServerStream_stop(s), l, UdpClientStream_stop(h))

stop(s, l, h) ==
    Handled(Erased, TcpServerStream_stop(s), close_udp(l), UdpClientStream_stop(h))

(* write_to_server, connect and the change of state.  The first write after *)
(* udp_associate also reads from the control connection and from the UDP    *)
(* socket, and is the last one that goes to the control connection.         *)
Associate(s, l, h) ==
    Handled("SocksReadyUdpTransferData",
            TcpServerStream_read_tcp(TcpServerStream_write_tcp(s, Message("succeeded"))),
            read_udp([udp_associate(l) EXCEPT !.use_udp = TRUE]),
            UdpClientStream_start(h))

(* Slip: the relay does not wait for the answer to be written *)
SocksConnectionRequest_handle_server_read_RelaysEarly(s, l, h) ==
    Handled("SocksDataUdpTransferMode",
            TcpServerStream_read_tcp(TcpServerStream_write_tcp(s, Message("succeeded"))),
            read_udp([udp_associate(l) EXCEPT !.use_udp = TRUE]),
            UdpClientStream_start(h))

(* Either of the two UDP sockets may fail to be opened or bound: that of    *)
(* the server stream in udp_associate, that of the client stream in connect *)
(* and start.  Nothing catches what is thrown then.                         *)
SocksConnectionRequest_handle_server_read(s, l, h) ==
    \E request \in Requests :
        CASE request = "udp"              -> Associate(s, l, h) \/ Handled(Ended, s, l, h)
          [] request = "udp_other_length" -> \/ Ignored(s, udp_associate(l), h)
                                             \/ Handled(Ended, s, l, h)
          [] request = "bad"              -> stop(s, l, h)

(* Slip: the receive is left to the one that write() has started *)
SocksReadyUdpTransferData_handle_server_write_NoRead(s, l, h) ==
    Handled("SocksDataUdpTransferMode", s, l, h)

SocksReadyUdpTransferData_handle_server_write(s, l, h) ==
    Handled("SocksDataUdpTransferMode", s, read_udp(l), h)

SocksDataUdpTransferMode_handle_server_read(to, s, l, h) ==
    IF to = "short" THEN Handled(Ended, s, l, h)
    ELSE Ignored(s, read_udp(l), UdpClientStream_write(h, to))

SocksDataUdpTransferMode_handle_client_read(s, l, h) ==
    Ignored(s, write_answer(l), host_read(h))

-----------------------------------------------------------------------------
(* The control connection.  Bytes that come on it while datagrams are       *)
(* relayed are taken for one of them.                                       *)
on_control_read ==
    /\ control.reads > 0
    /\ LET s == server_read_ok(control)
       IN \/ /\ session = "SocksConnectionRequest"
             /\ SocksConnectionRequest_handle_server_read(s, local, host)
             /\ UNCHANGED segments
          \/ /\ session = "SocksDataUdpTransferMode"
             /\ segments < MaxControl /\ segments' = segments + 1
             /\ \E to \in Destinations :
                    SocksDataUdpTransferMode_handle_server_read(to, s, local, host)
          \/ /\ session \in {"SocksReadyUdpTransferData", Erased}
             /\ segments < MaxControl /\ segments' = segments + 1
             /\ Ignored(s, local, host)
    /\ UNCHANGED answers

on_control_write ==
    /\ control.writes > 0
    /\ LET s == server_write_ok(control)
       IN IF session = "SocksReadyUdpTransferData"
          THEN SocksReadyUdpTransferData_handle_server_write(s, local, host)
          ELSE Ignored(s, local, host)
    /\ UNCHANGED <<segments, answers>>

on_control_error ==
    /\ \E op \in ServerFailures(control) :
           LET s == server_failed(control, op)
           IN IF Live THEN stop(s, local, host) ELSE Ignored(s, local, host)
    /\ UNCHANGED <<segments, answers>>

(* The UDP socket of the server stream *)

datagram ==
    /\ local.open /\ local.receives > 0
    /\ local.arrived < MaxDatagrams
    /\ \E to \in Destinations : Ignored(control, receive_done(local, to), host)
    /\ UNCHANGED <<segments, answers>>

(* Slip: the session is not looked up *)
on_datagram_Unchecked ==
    /\ local.filled # <<>>
    /\ LET l == received(local)
       IN IF session = "SocksReadyUdpTransferData"
          THEN Ignored(control, l, host)
          ELSE \E to \in Understood(local) :
                   SocksDataUdpTransferMode_handle_server_read(to, control, l, host)
    /\ UNCHANGED <<segments, answers>>

on_datagram ==
    /\ local.filled # <<>>
    /\ LET l == received(local)
       IN IF session = "SocksDataUdpTransferMode"
          THEN \E to \in Understood(local) :
                   SocksDataUdpTransferMode_handle_server_read(to, control, l, host)
          ELSE Ignored(control, l, host)
    /\ UNCHANGED <<segments, answers>>

on_answer_sent ==
    /\ local.sends > 0
    /\ Ignored(control, answer_sent(local), host)
    /\ UNCHANGED <<segments, answers>>

on_local_error ==
    /\ \E op \in LocalFailures(local) :
           LET l == local_failed(local, op)
           IN IF Live THEN stop(control, l, host) ELSE Ignored(control, l, host)
    /\ UNCHANGED <<segments, answers>>

(* The client stream.  A datagram may come from any host at any time. *)

on_answer ==
    /\ host.receives > 0
    /\ answers < MaxAnswers /\ answers' = answers + 1
    /\ LET h == host_received(host)
       IN IF session = "SocksDataUdpTransferMode"
          THEN SocksDataUdpTransferMode_handle_client_read(control, local, h)
          ELSE Ignored(control, local, h)
    /\ UNCHANGED segments

on_packet_sent ==
    /\ host.sends > 0
    /\ Ignored(control, local, packet_sent(host))
    /\ UNCHANGED <<segments, answers>>

on_resolved ==
    /\ host.resolves > 0
    /\ Ignored(control, local, name_resolved(host))
    /\ UNCHANGED <<segments, answers>>

on_host_error ==
    /\ \E op \in HostFailures(host) :
           LET h == host_failed(host, op)
           IN IF Live THEN stop(control, local, h) ELSE Ignored(control, local, h)
    /\ UNCHANGED <<segments, answers>>

-----------------------------------------------------------------------------
ControlStep == on_control_read \/ on_control_write \/ on_control_error
LocalStep   == datagram \/ on_datagram \/ on_answer_sent \/ on_local_error
HostStep    == on_answer \/ on_packet_sent \/ on_resolved \/ on_host_error

Next == ControlStep \/ LocalStep \/ HostStep

Spec == Init /\ [][Next]_vars

(***************************************************************************)
(* Fairness, as long as the io_context runs.  Sends, Resolves: sending a   *)
(* datagram and resolving a name end, in success or failure, without the   *)
(* help of a peer.  Handlers: the handler of a receive that was done is    *)
(* run.  Reply: the answer, which is the request with its address replaced *)
(* (ten or twenty-two bytes), fits the send buffer of the control          *)
(* connection.  Drain: what is outstanding on a socket that was shut down  *)
(* or closed ends.  UdpClientStream::stop closes nothing, and no host is   *)
(* assumed to send.                                                        *)
(***************************************************************************)
LocalSends   == local.sends + local.doomed > 0 /\ (on_answer_sent \/ on_local_error)
HostSends    == host.sends > 0 /\ (on_packet_sent \/ on_host_error)
Resolves     == host.resolves > 0 /\ (on_resolved \/ on_host_error)
Reply        == control.writes > 0 /\ (on_control_write \/ on_control_error)
DrainControl == ~control.open /\ ControlStep
DrainLocal   == local.bound /\ ~local.open /\ LocalStep

FairSpec ==
    /\ Spec
    /\ WF_vars(on_datagram) /\ WF_vars(LocalSends)
    /\ WF_vars(HostSends) /\ WF_vars(Resolves) /\ WF_vars(Reply)
    /\ WF_vars(DrainControl) /\ WF_vars(DrainLocal)

-----------------------------------------------------------------------------
(* Types of the state. *)
TypeOK ==
    /\ session \in States \cup {Erased, Ended}
    /\ control \in ServerStream
    /\ local \in LocalSocket
    /\ host \in HostSocket
    /\ segments \in Nat
    /\ answers \in Nat

(* How often the client's socket will still give a datagram to the session *)
Receiving == local.receives + Len(local.filled)

(* A live session waits for what can move it on.  A datagram that comes     *)
(* before the answer is written is ignored and its receive is not started   *)
(* again.  On the client's side the state starts another one, so that while *)
(* datagrams are relayed there is always a receive, two at most, and one    *)
(* more for each segment that came on the control connection, whose watch   *)
(* the segment ended.  On the hosts' side there is one receive unless a     *)
(* datagram was ignored.  (A request of another length than its answer is   *)
(* left with nothing to wait for.)                                          *)
Armed ==
    /\ session = "SocksConnectionRequest" =>
           control.writes = 0 /\ control.reads = (IF local.bound THEN 0 ELSE 1)
    /\ session = "SocksReadyUdpTransferData" =>
           /\ control.writes = 1
           /\ Receiving \leq 1
           /\ control.reads + segments = 1
    /\ session = "SocksDataUdpTransferMode" =>
           /\ control.writes = 0
           /\ Receiving \geq 1 /\ Receiving \leq 2 + segments
           /\ control.reads = (IF segments = 0 THEN 1 ELSE 0)
           /\ host.receives = (IF answers = local.heard THEN 1 ELSE 0)

(* What the comment in TcpServerStream::write says of its read: while a     *)
(* client is associated, the end of its control connection is watched for.  *)
ControlWatched ==
    session \in {"SocksReadyUdpTransferData", "SocksDataUdpTransferMode"} => control.reads = 1

(* A queue's front is referred to by the operation that sends or resolves   *)
(* it, so there is one such operation at most, whether the session lives or *)
(* not; and each flag is set while its operation is outstanding.            *)
OneAtATime ==
    /\ local.sends + local.doomed \leq 1
    /\ host.receives \leq 1 /\ host.sends \leq 1 /\ host.resolves \leq 1
    /\ local.sends + local.doomed > 0 => local.writing /\ local.queue # <<>>
    /\ host.sends > 0 <=> host.writing
    /\ host.resolves > 0 <=> host.resolving
    /\ host.writing => host.write_queue # <<>>
    /\ host.resolving => host.dns_queue # <<>>

(* While the session lives no queue waits for the next call to be served,   *)
(* but for packets whose name was resolved while nothing was being sent.    *)
QueuesServed ==
    Live =>
        /\ local.queue # <<>> => local.sends + local.doomed > 0
        /\ host.dns_queue # <<>> => host.resolves > 0
        /\ (\E i \in DOMAIN host.write_queue : host.write_queue[i].to = "address") => host.sends > 0

(* The packets that were taken are, each once, sent or in a queue; those to *)
(* an address in the order they came, and so those to a name.  The answers  *)
(* are sent or queued in the order they came.                               *)
InOrder ==
    LET all == host.sent \o host.write_queue \o host.dns_queue
    IN /\ Len(all) = host.taken
       /\ {all[i].n : i \in DOMAIN all} = 1..host.taken
       /\ \A i, j \in DOMAIN all : i < j /\ all[i].to = all[j].to => all[i].n < all[j].n
       /\ local.back \o local.queue = [i \in 1..local.heard |-> i]

(* A late completion of an erased session takes no packet and starts no     *)
(* receive: what is still sent was taken before.                            *)
ClosedShrinks ==
    [][~Live => /\ ~Live'
                /\ host'.taken = host.taken /\ local'.heard = local.heard
                /\ local'.receives \leq local.receives
                /\ host'.receives \leq host.receives
                /\ control'.reads \leq control.reads]_vars

(* After a session was erased every operation ends that holds its streams,  *)
(* but for the receive of the client stream, whose socket stays open.       *)
ClosedDrains ==
    session = Erased ~>
        /\ ServerQuiet(control)
        /\ local.filled = <<>>
        /\ local.receives = 0 /\ local.sends = 0 /\ local.doomed = 0
        /\ host.sends = 0 /\ host.resolves = 0

(* Unless the session ends, a packet to an address is sent, a name is       *)
(* resolved, and an answer goes back to the client.                         *)
Forwarded ==
    /\ \A n \in 1..(MaxDatagrams + MaxControl) :
           /\ (\E i \in DOMAIN host.write_queue : host.write_queue[i] = [n |-> n, to |-> "address"])
                  ~> (~Live \/ \E i \in DOMAIN host.sent : host.sent[i].n = n)
           /\ (\E i \in DOMAIN host.dns_queue : host.dns_queue[i].n = n)
                  ~> (~Live \/ \A i \in DOMAIN host.dns_queue : host.dns_queue[i].n # n)
    /\ \A n \in 1..MaxAnswers :
           local.heard = n ~> (~Live \/ Len(local.back) \geq n)

-----------------------------------------------------------------------------
(* The association that is promised: open once the answer was written *)
Abstract == INSTANCE Association WITH
    phase <- IF ~Live THEN "closed" ELSE IF Len(control.said) > 1 THEN "open" ELSE "asking",
    taken <- host.taken,
    sent  <- [i \in DOMAIN host.sent |-> host.sent[i].n],
    heard <- local.heard,
    back  <- local.back

(* The relay of datagrams implements the abstract association. *)
Implements == Abstract!Spec
=============================================================================
