----------------------------- MODULE UdpStreams -----------------------------
(***************************************************************************)
(* The datagram sides of a SOCKS5 UDP association as records and operators *)
(* on them: the UDP socket of a TcpServerStream, on which the local client *)
(* sends and receives, and UdpClientStream, whose socket faces the hosts.  *)
(*                                                                         *)
(* An operation that was started and whose handler has not run is counted  *)
(* (receives, sends, resolves), because only flags and the discipline of   *)
(* the states keep there from being two.  A receive of the local socket    *)
(* has two steps: the reactor fills the one buffer as soon as a datagram   *)
(* is there, and the handler runs later; with two receives outstanding it  *)
(* may fill the buffer twice in between.                                   *)
(*                                                                         *)
(* Datagrams of the client are numbered as they reach the buffer, packets  *)
(* for the hosts and answers for the client as their stream takes them.    *)
(* arrived, taken, sent, heard and back are history.                       *)
(***************************************************************************)
EXTENDS Naturals, Sequences

(* What UdpClientStream::write tells apart: the header names an address, or *)
(* a name to be resolved, or neither can be read from it; or it is that of  *)
(* IPv6 and ends too soon, which the program does not survive (see          *)
(* parse_datagram of SocksMessages).                                        *)
Destinations == {"address", "name", "bad", "short"}

Packet == [n : Nat, to : {"address", "name"}]

LocalSocket == [bound : BOOLEAN, open : BOOLEAN, use_udp : BOOLEAN,
                receives : Nat, arrived : Nat, filled : Seq(Nat),
                buffer : Destinations, known : BOOLEAN,
                queue : Seq(Nat), writing : BOOLEAN, sends : Nat, doomed : Nat,
                heard : Nat, back : Seq(Nat)]

HostSocket == [made : BOOLEAN, receives : Nat,
               write_queue : Seq(Packet), writing : BOOLEAN, sends : Nat,
               dns_queue : Seq(Packet), resolving : BOOLEAN, resolves : Nat,
               taken : Nat, sent : Seq(Packet)]

(* udp_socket_ is nullopt; a null client pointer *)
NoLocal == [bound |-> FALSE, open |-> FALSE, use_udp |-> FALSE,
            receives |-> 0, arrived |-> 0, filled |-> <<>>, buffer |-> "bad", known |-> FALSE,
            queue |-> <<>>, writing |-> FALSE, sends |-> 0, doomed |-> 0,
            heard |-> 0, back |-> <<>>]
NoHost == [made |-> FALSE, receives |-> 0,
           write_queue |-> <<>>, writing |-> FALSE, sends |-> 0,
           dns_queue |-> <<>>, resolving |-> FALSE, resolves |-> 0,
           taken |-> 0, sent |-> <<>>]

-----------------------------------------------------------------------------
(* The UDP socket of TcpServerStream *)

udp_associate(l) == [l EXCEPT !.bound = TRUE, !.open = TRUE]

read_udp(l) == [l EXCEPT !.receives = @ + 1]

(* The front of the queue is sent to sender_ep_.  On a closed socket, or     *)
(* before any datagram has set sender_ep_, the operation can only fail.      *)
write_udp(l) ==
    IF l.queue = <<>> \/ l.writing THEN l
    ELSE IF l.open /\ l.known THEN [l EXCEPT !.writing = TRUE, !.sends = @ + 1]
    ELSE [l EXCEPT !.writing = TRUE, !.doomed = @ + 1]

(* The last branch of TcpServerStream::write, with its header *)
write_answer(l) == write_udp([l EXCEPT !.heard = @ + 1, !.queue = Append(@, l.heard + 1)])

close_udp(l) == [l EXCEPT !.open = FALSE]

(* The reactor performs a receive: buffer and sender_ep_ are overwritten *)
receive_done(l, to) ==
    [l EXCEPT !.receives = @ - 1, !.arrived = @ + 1, !.known = TRUE, !.buffer = to,
              !.filled = Append(@, l.arrived + 1)]

received(l) == [l EXCEPT !.filled = Tail(@)]

(* What the handler makes of the datagram.  It has the length of the one    *)
(* its receive was done for, but the bytes of the last one: these may be    *)
(* cut by that length, and if they were too few to be understood, what is   *)
(* left of the earlier one behind them may complete them.                   *)
Understood(l) ==
    IF Head(l.filled) = l.arrived THEN {l.buffer}
    ELSE {to \in Destinations : /\ l.buffer = "address" => to # "name"
                                /\ l.buffer = "name" => to \in {"name", "bad"}}

answer_sent(l) ==
    write_udp([l EXCEPT !.sends = @ - 1, !.back = Append(@, Head(l.queue)),
                        !.queue = Tail(@), !.writing = FALSE])

LocalFailures(l) ==
    {op \in {"receive", "send", "doomed"} :
        \/ op = "receive" /\ l.receives > 0
        \/ op = "send"    /\ l.sends > 0
        \/ op = "doomed"  /\ l.doomed > 0}

(* udp_write_in_progress_ stays set and the packet stays in the queue *)
local_failed(l, op) ==
    CASE op = "receive" -> [l EXCEPT !.receives = @ - 1]
      [] op = "send"    -> [l EXCEPT !.sends = @ - 1]
      [] op = "doomed"  -> [l EXCEPT !.doomed = @ - 1]

-----------------------------------------------------------------------------
(* UdpClientStream *)

host_read(h) == [h EXCEPT !.receives = @ + 1]

UdpClientStream_start(h) == host_read([h EXCEPT !.made = TRUE])

(* shutdown fails on a socket that is not connected: nothing pending ends *)
UdpClientStream_stop(h) == h

(* Slip: the guard on write_in_progress_ is missing *)
write_packet_Unguarded(h) ==
    IF h.write_queue = <<>> THEN h ELSE [h EXCEPT !.writing = TRUE, !.sends = @ + 1]

write_packet(h) ==
    IF h.write_queue = <<>> \/ h.writing THEN h
    ELSE [h EXCEPT !.writing = TRUE, !.sends = @ + 1]

make_dns_resolve(h) ==
    IF h.dns_queue = <<>> \/ h.resolving THEN h
    ELSE [h EXCEPT !.resolving = TRUE, !.resolves = @ + 1]

(* Slip: a packet is queued and left for the handlers to send *)
UdpClientStream_write_QueueOnly(h, to) ==
    LET packet == [n |-> h.taken + 1, to |-> to]
    IN CASE to = "bad"     -> h
         [] to = "address" -> [h EXCEPT !.taken = @ + 1, !.write_queue = Append(@, packet)]
         [] to = "name"    -> make_dns_resolve([h EXCEPT !.taken = @ + 1,
                                                         !.dns_queue = Append(@, packet)])

UdpClientStream_write(h, to) ==
    LET packet == [n |-> h.taken + 1, to |-> to]
    IN CASE to = "bad"     -> h
         [] to = "address" -> write_packet([h EXCEPT !.taken = @ + 1,
                                                     !.write_queue = Append(@, packet)])
         [] to = "name"    -> make_dns_resolve([h EXCEPT !.taken = @ + 1,
                                                         !.dns_queue = Append(@, packet)])

host_received(h) == [h EXCEPT !.receives = @ - 1]

(* Slip: the packet is sent and not popped *)
packet_sent_NoPop(h) ==
    write_packet([h EXCEPT !.sends = @ - 1, !.writing = FALSE,
                           !.sent = Append(@, Head(h.write_queue))])

packet_sent(h) ==
    write_packet([h EXCEPT !.sends = @ - 1, !.writing = FALSE,
                           !.sent = Append(@, Head(h.write_queue)), !.write_queue = Tail(@)])

(* Slip: the flag is not reset *)
name_resolved_KeepsFlag(h) ==
    make_dns_resolve([h EXCEPT !.resolves = @ - 1, !.dns_queue = Tail(@),
                               !.write_queue = Append(@, Head(h.dns_queue))])

(* The packet moves to the send queue; nothing starts to send it *)
name_resolved(h) ==
    make_dns_resolve([h EXCEPT !.resolves = @ - 1, !.resolving = FALSE, !.dns_queue = Tail(@),
                               !.write_queue = Append(@, Head(h.dns_queue))])

HostFailures(h) ==
    {op \in {"receive", "send", "resolve"} :
        \/ op = "receive" /\ h.receives > 0
        \/ op = "send"    /\ h.sends > 0
        \/ op = "resolve" /\ h.resolves > 0}

(* The flag is reset, and what could not be sent stays in its queue *)
host_failed(h, op) ==
    CASE op = "receive" -> host_received(h)
      [] op = "send"    -> [h EXCEPT !.sends = @ - 1, !.writing = FALSE]
      [] op = "resolve" -> [h EXCEPT !.resolves = @ - 1, !.resolving = FALSE]
=============================================================================
