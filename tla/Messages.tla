------------------------------- MODULE Messages -------------------------------
(***************************************************************************)
(* The parsers, run on every message of a bounded set as its bytes (of an  *)
(* HTTP request, its tokens) arrive.  The program parses what one read     *)
(* brings and never waits for the rest, so every length it may be given is *)
(* a state; a datagram comes whole, and each length is another one's.      *)
(***************************************************************************)
EXTENDS SocksMessages, HttpMessages

CONSTANTS MaxMethods,   \* bound: methods in a greeting
          MaxName,      \* bound: length of a name
          MaxData,      \* bound: data of a datagram
          MaxHeaders    \* bound: headers of a request

ASSUME MessagesAssumption ==
    MaxMethods \in Nat /\ MaxName \in Nat /\ MaxData \in Nat /\ MaxHeaders \in Nat

(* The forms of a request target, and of a header *)
TargetText == [authority |-> <<"e", "x", ":", "4">>,
               absolute  |-> <<"http", ":", "//ex">>,
               port      |-> <<"http", ":", "//ex", ":", "4">>,
               origin    |-> <<"/">>]
HeaderText == [host      |-> <<"Host:", SP, "e", "x">>,
               unspaced  |-> <<"Host:", "e", "x">>,
               empty     |-> <<"Host:">>,
               forwarded |-> <<"X-Forwarded-", "Host:", SP, "o">>,
               closing   |-> <<"Connection:", SP, "close">>,
               bare      |-> <<"Connection:">>,
               other     |-> <<"Accept:", SP, "*">>]

HttpRequest == [kind : {"http"}, method : {"CONNECT", "GET", "PUT"},
                target : DOMAIN TargetText, headers : BoundedSeq(DOMAIN HeaderText, MaxHeaders)]

Text(m) == <<m.method, SP>> \o TargetText[m.target] \o <<SP, "HTTP/1.1", CRLF>>
           \o FlattenSeq([i \in DOMAIN m.headers |-> HeaderText[m.headers[i]] \o <<CRLF>>])
           \o <<CRLF>>

VARIABLES message,   \* what a client sends
          length     \* how much of it is there

vars == <<message, length>>

Whole == CASE message.kind = "greeting" -> GreetingLength(message)
           [] message.kind = "request"  -> HeaderLength(message)
           [] message.kind = "datagram" -> HeaderLength(message) + message.data
           [] message.kind = "http"     -> Len(Text(message))

Init == /\ message \in Greeting(MaxMethods) \cup SocksRequest(MaxName)
                         \cup Datagram(MaxName, MaxData) \cup HttpRequest
        /\ length = 1

Arrive == length < Whole /\ length' = length + 1 /\ UNCHANGED message

Next == Arrive

Spec == Init /\ [][Next]_vars

-----------------------------------------------------------------------------
(* HttpWaitRequest::handle_server_read, as far as it parses *)
parse_http(str) ==
    LET req     == get_headers(str)
        host    == get_host(req)
        service == get_service(req)
    IN IF req.host = length_error THEN [verdict |-> "length_error", what |-> <<>>]
       ELSE IF host = Nowhere \/ service = Nowhere THEN Refused
       ELSE Taken(<<host, service>>)

Parsed(n) ==
    CASE message.kind = "greeting" -> is_socks5_auth_request(message, n)
      [] message.kind = "request"  -> parse_request(message, n)
      [] message.kind = "datagram" -> parse_datagram(message, n)
      [] message.kind = "http"     -> parse_http(SubSeq(Text(message), 1, n))

-----------------------------------------------------------------------------
(* What the protocols mean by a message, as far as the proxy serves them *)
Meant == CASE message.kind = "greeting" -> <<"NoAuth">>
           [] message.kind = "request"  -> <<message.command>>
           [] message.kind = "datagram" -> <<message.data>>
           [] message.kind = "http"     ->
                  << <<"e", "x">>, IF message.method = "CONNECT" THEN <<"4">> ELSE <<"http">> >>

(* A name of one or two letters makes a request too short for the parser, a *)
(* datagram to a name must have data, an absolute URI must not have a port, *)
(* the first header that ends in "Host:" must be Host, with a space, and    *)
(* once the host is known there must be no Connection header without value. *)
Served ==
    CASE message.kind = "greeting" ->
             message.version = 5 /\ \E i \in DOMAIN message.methods : message.methods[i] = "NoAuth"
      [] message.kind = "request"  ->
             /\ message.version = 5 /\ message.command # "tcp_port"
             /\ message.type # "other"
             /\ message.type = "dom" => message.name \geq 3
      [] message.kind = "datagram" ->
             \/ message.type \in {"ipv4", "ipv6"}
             \/ /\ message.type = "dom" /\ message.name > 0
                /\ message.data > 0 /\ message.name + message.data \geq 3
      [] message.kind = "http"     ->
             \/ message.method = "CONNECT" /\ message.target = "authority" /\ message.headers # <<>>
                /\ ~Contains(message.headers, "bare")
             \/ /\ message.method = "GET" /\ message.target = "absolute"
                /\ \E i \in DOMAIN message.headers :
                       /\ message.headers[i] = "host"
                       /\ \A j \in 1..(i - 1) : message.headers[j] \in {"closing", "bare", "other"}
                       /\ \A j \in DOMAIN message.headers : j > i => message.headers[j] # "bare"

(* A whole message of a form the proxy serves is taken for what it means,   *)
(* and no other part of it, nor anything beyond its end, is taken instead.  *)
Understood == length = Whole /\ Served => Parsed(length) = Taken(Meant)

(* The first bytes of a request, when they make a destination, make the one *)
(* of the whole request: what the proxy connects to does not depend on      *)
(* where the first read ends (http_state.cpp:74).  Without CONNECT that is  *)
(* so only from the end of the line on that names the host: before, the     *)
(* host itself may be cut.  And the whole may end the program instead, if   *)
(* the value of a Connection header is missing.                             *)
HostLineEnded ==
    \/ message.method = "CONNECT"
    \/ \E i, j \in 1..length : i < j /\ Text(message)[i] = "Host:" /\ Text(message)[j] = CRLF

CutStable ==
    /\ message.kind = "http"
    /\ Parsed(length).verdict = "taken"
    /\ HostLineEnded
    => \/ Parsed(Whole) = Parsed(length)
       \/ Parsed(Whole).verdict = "length_error" /\ Contains(message.headers, "bare")

(* A SOCKS message that is cut, or whose length byte says more than there   *)
(* is, is not taken for a whole one.  Two length tests are missing in the   *)
(* code and no others: of a name or an IPv6 address in a request, which is  *)
(* then read from behind the end of the buffer (socks.cpp:65-77), and of an *)
(* IPv6 address in a datagram, whose data then have a length below zero     *)
(* (udp_client_stream.cpp:33, 104).                                         *)
CutRefused ==
    /\ message.kind = "greeting" /\ length < Whole => Parsed(length) = Refused
    /\ message.kind = "request" /\ length < HeaderLength(message) =>
           \/ Parsed(length) = Refused
           \/ /\ Parsed(length).verdict = "foreign"
              /\ message.type \in {"dom", "ipv6"} /\ length \geq request_header_min_length
    /\ message.kind = "datagram" /\ length < HeaderLength(message) =>
           \/ Parsed(length) = Refused
           \/ /\ Parsed(length).verdict = "length_error"
              /\ message.type = "ipv6" /\ length \geq request_header_min_length
=============================================================================
