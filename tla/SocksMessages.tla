---------------------------- MODULE SocksMessages ----------------------------
(***************************************************************************)
(* The parsers of the SOCKS5 greeting, of the request and of the header of *)
(* a UDP datagram, as operators on the message a client sends and on how   *)
(* many of its bytes the program has.  Of a field its value matters where  *)
(* the code compares it; of an address, of a name and of the data, their   *)
(* lengths.                                                                *)
(*                                                                         *)
(* A parser's verdict is "refused", "taken", "foreign" (taken, although    *)
(* some of the address or of the port lies after the end of the buffer and *)
(* is whatever the memory holds there) or "length_error", the exception    *)
(* that ends the program.                                                  *)
(***************************************************************************)
EXTENDS Naturals, Sequences

Refused == [verdict |-> "refused", what |-> <<>>]
Taken(what) == [verdict |-> "taken", what |-> what]

(* The greeting: a version, and the methods after their number *)
Greeting(maxMethods) ==
    [kind : {"greeting"}, version : {4, 5},
     methods : UNION {[1..n -> {"NoAuth", "UserPass"}] : n \in 0..maxMethods}]

GreetingLength(g) == 2 + Len(g.methods)

(* Slip: the number of methods is not compared with the bytes there are *)
is_socks5_auth_request_NoLength(g, length) ==
    IF /\ length \geq 2
       /\ g.version = 5
       /\ \E i \in DOMAIN g.methods : g.methods[i] = "NoAuth"
    THEN Taken(<<"NoAuth">>) ELSE Refused

is_socks5_auth_request(g, length) ==
    IF /\ length \geq 2
       /\ g.version = 5
       /\ Len(g.methods) + 2 \leq length
       /\ \E i \in DOMAIN g.methods : g.methods[i] = "NoAuth"
    THEN Taken(<<"NoAuth">>) ELSE Refused

-----------------------------------------------------------------------------
(* A request, and a datagram, whose header has the same layout: four bytes, *)
(* an address or a name with its length before it, and a port.  name is the *)
(* length of the name.                                                      *)
AddressTypes == {"ipv4", "dom", "ipv6", "other"}

SocksRequest(maxName) ==
    [kind : {"request"}, version : {4, 5},
     command : {"tcp_connection", "tcp_port", "udp_port"},
     type : AddressTypes, name : 0..maxName]

Datagram(maxName, maxData) ==
    [kind : {"datagram"}, type : AddressTypes, name : 0..maxName, data : 0..maxData]

request_header_min_length == 10

HeaderLength(m) == CASE m.type = "ipv4" -> 10
                     [] m.type = "ipv6" -> 22
                     [] OTHER           -> 4 + 1 + m.name + 2

parse_requested_socks_mode(r, length) ==
    /\ length \geq request_header_min_length
    /\ r.version = 5
    /\ r.command \in {"tcp_connection", "udp_port"}
    /\ r.type \in {"ipv4", "ipv6", "dom"}

(* Only the least length is compared with what the buffer holds *)
get_remote_address_info(m, length) ==
    /\ length \geq request_header_min_length
    /\ m.type = "dom" => m.name > 0
    /\ m.type # "other"

(* SocksConnectionRequest::handle_server_read, as far as it parses *)
parse_request(r, length) ==
    IF parse_requested_socks_mode(r, length) /\ get_remote_address_info(r, length)
    THEN [Taken(<<r.command>>) EXCEPT !.verdict =
              IF HeaderLength(r) \leq length THEN "taken" ELSE "foreign"]
    ELSE Refused

-----------------------------------------------------------------------------
(* Slip: the byte that holds the length of the name is not counted *)
determine_udp_data_offset_NoLengthByte(d, size) ==
    IF size < 10 THEN 0
    ELSE CASE d.type = "ipv4" -> 10
           [] d.type = "ipv6" -> 22
           [] OTHER           -> IF 4 + d.name + 2 < size THEN 4 + d.name + 2 ELSE 0

(* A type that is not known is taken for a name *)
determine_udp_data_offset(d, size) ==
    IF size < 10 THEN 0
    ELSE CASE d.type = "ipv4" -> 10
           [] d.type = "ipv6" -> 22
           [] OTHER           -> IF 4 + d.name + 1 + 2 < size THEN 4 + d.name + 1 + 2 ELSE 0

(* UdpClientStream::write as far as it parses: what is left is the length   *)
(* of the data, which is computed without a sign.                           *)
parse_datagram(d, size) ==
    LET offset == determine_udp_data_offset(d, size)
    IN IF ~get_remote_address_info(d, size) \/ offset = 0 THEN Refused
       ELSE IF offset > size THEN [verdict |-> "length_error", what |-> <<>>]
       ELSE Taken(<<size - offset>>)
=============================================================================
