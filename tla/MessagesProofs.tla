---------------------------- MODULE MessagesProofs ----------------------------
(***************************************************************************)
(* The SOCKS parsers understand messages of every size: greetings of any   *)
(* number of methods, names and data of any length.  The theorems are      *)
(* about these three kinds of message.  An HTTP request is split into      *)
(* lines and fields by definitions that recur on the text; what those      *)
(* compute is left to the run of Messages.                                 *)
(***************************************************************************)
EXTENDS Messages, TLAPS

Socks == message.kind # "http"

SocksMessage == Greeting(MaxMethods) \cup SocksRequest(MaxName) \cup Datagram(MaxName, MaxData)

IInv ==
    /\ message \in SocksMessage \cup HttpRequest
    /\ Socks => length \in 1..Whole

-----------------------------------------------------------------------------
(* What the fields of a message are. *)
LEMMA Kinds ==
    ASSUME NEW m
    PROVE  /\ m \in Greeting(MaxMethods) =>
                  m.kind = "greeting" /\ m.methods \in Seq({"NoAuth", "UserPass"})
           /\ m \in SocksRequest(MaxName) =>
                  /\ m.kind = "request" /\ m.type \in AddressTypes /\ m.name \in Nat
                  /\ m.command \in {"tcp_connection", "tcp_port", "udp_port"}
           /\ m \in Datagram(MaxName, MaxData) =>
                  /\ m.kind = "datagram" /\ m.type \in AddressTypes
                  /\ m.name \in Nat /\ m.data \in Nat
           /\ m \in HttpRequest => m.kind = "http"
  <1>1. ASSUME m \in Greeting(MaxMethods)
        PROVE  m.kind = "greeting" /\ m.methods \in Seq({"NoAuth", "UserPass"})
    <2>1. /\ m.kind = "greeting"
          /\ m.methods \in UNION {[1..n -> {"NoAuth", "UserPass"}] : n \in 0..MaxMethods}
      BY <1>1 DEF Greeting
    <2>2. PICK n \in 0..MaxMethods : m.methods \in [1..n -> {"NoAuth", "UserPass"}]
      BY <2>1
    <2>3. n \in Nat
      BY MessagesAssumption
    <2>4. QED BY <2>1, <2>2, <2>3
  <1>2. ASSUME m \in SocksRequest(MaxName)
        PROVE  /\ m.kind = "request" /\ m.type \in AddressTypes /\ m.name \in Nat
               /\ m.command \in {"tcp_connection", "tcp_port", "udp_port"}
    BY <1>2, MessagesAssumption DEF SocksRequest
  <1>3. ASSUME m \in Datagram(MaxName, MaxData)
        PROVE  /\ m.kind = "datagram" /\ m.type \in AddressTypes
               /\ m.name \in Nat /\ m.data \in Nat
    BY <1>3, MessagesAssumption DEF Datagram
  <1>4. ASSUME m \in HttpRequest PROVE m.kind = "http"
    BY <1>4 DEF HttpRequest
  <1>5. QED BY <1>1, <1>2, <1>3, <1>4

LEMMA ThreeKinds ==
    ASSUME message \in SocksMessage \cup HttpRequest, Socks
    PROVE  \/ message \in Greeting(MaxMethods) /\ message.kind = "greeting"
           \/ message \in SocksRequest(MaxName) /\ message.kind = "request"
           \/ message \in Datagram(MaxName, MaxData) /\ message.kind = "datagram"
  BY Kinds DEF SocksMessage, Socks

(* A header is four bytes, at least one for the name, and two at least. *)
LEMMA HeaderLengths ==
    ASSUME NEW m, m.type \in AddressTypes, m.name \in Nat
    PROVE  HeaderLength(m) \in Nat /\ HeaderLength(m) \geq 7
  BY DEF HeaderLength, AddressTypes

LEMMA Wholes ==
    ASSUME message \in SocksMessage \cup HttpRequest, Socks
    PROVE  Whole \in Nat /\ Whole \geq 2
  <1>1. CASE message \in Greeting(MaxMethods) /\ message.kind = "greeting"
    <2>1. Len(message.methods) \in Nat
      BY <1>1, Kinds
    <2>2. QED BY <1>1, <2>1 DEF Whole, GreetingLength
  <1>2. CASE message \in SocksRequest(MaxName) /\ message.kind = "request"
    BY <1>2, Kinds, HeaderLengths DEF Whole
  <1>3. CASE message \in Datagram(MaxName, MaxData) /\ message.kind = "datagram"
    <2>1. message.data \in Nat /\ HeaderLength(message) \in Nat /\ HeaderLength(message) \geq 7
      BY <1>3, Kinds, HeaderLengths
    <2>2. QED BY <1>3, <2>1 DEF Whole
  <1>4. QED BY <1>1, <1>2, <1>3, ThreeKinds

-----------------------------------------------------------------------------
(* A whole message of a form the proxy serves, one lemma per parser. *)
LEMMA GreetingUnderstood ==
    ASSUME NEW g \in Greeting(MaxMethods), g.version = 5,
           \E i \in DOMAIN g.methods : g.methods[i] = "NoAuth"
    PROVE  is_socks5_auth_request(g, GreetingLength(g)) = Taken(<<"NoAuth">>)
  <1>1. Len(g.methods) \in Nat
    BY Kinds
  <1>2. 2 + Len(g.methods) \geq 2 /\ Len(g.methods) + 2 \leq 2 + Len(g.methods)
    BY <1>1
  <1>3. QED BY <1>2 DEF is_socks5_auth_request, GreetingLength

LEMMA RequestUnderstood ==
    ASSUME NEW r \in SocksRequest(MaxName), r.version = 5, r.command # "tcp_port",
           r.type # "other", r.type = "dom" => r.name \geq 3
    PROVE  parse_request(r, HeaderLength(r)) = Taken(<<r.command>>)
  <1>1. /\ r.type \in AddressTypes /\ r.name \in Nat
        /\ r.command \in {"tcp_connection", "tcp_port", "udp_port"}
    BY Kinds
  <1>2. HeaderLength(r) \in Nat /\ HeaderLength(r) \geq request_header_min_length
    BY <1>1 DEF HeaderLength, AddressTypes, request_header_min_length
  <1>3. parse_requested_socks_mode(r, HeaderLength(r))
    BY <1>1, <1>2 DEF parse_requested_socks_mode, AddressTypes
  <1>4. get_remote_address_info(r, HeaderLength(r))
    BY <1>1, <1>2 DEF get_remote_address_info
  <1>5. HeaderLength(r) \leq HeaderLength(r)
    BY <1>2
  <1>6. QED BY <1>3, <1>4, <1>5 DEF parse_request, Taken

LEMMA DatagramUnderstood ==
    ASSUME NEW d \in Datagram(MaxName, MaxData),
           \/ d.type \in {"ipv4", "ipv6"}
           \/ d.type = "dom" /\ d.name > 0 /\ d.data > 0 /\ d.name + d.data \geq 3
    PROVE  parse_datagram(d, HeaderLength(d) + d.data) = Taken(<<d.data>>)
  <1> DEFINE size == HeaderLength(d) + d.data
  <1>1. d.type \in AddressTypes /\ d.name \in Nat /\ d.data \in Nat
    BY Kinds
  <1>2. HeaderLength(d) \in Nat
    BY <1>1, HeaderLengths
  <1>3. size \in Nat /\ size \geq 10
    BY <1>1 DEF HeaderLength
  <1>4. get_remote_address_info(d, size)
    BY <1>1, <1>3 DEF get_remote_address_info, request_header_min_length
  <1>5. determine_udp_data_offset(d, size) = HeaderLength(d)
    <2>1. CASE d.type \in {"ipv4", "ipv6"}
      BY <1>3, <2>1 DEF determine_udp_data_offset, HeaderLength
    <2>2. CASE d.type = "dom" /\ d.name > 0 /\ d.data > 0 /\ d.name + d.data \geq 3
      <3>1. 4 + d.name + 1 + 2 < size /\ HeaderLength(d) = 4 + d.name + 1 + 2
        BY <1>1, <2>2 DEF HeaderLength
      <3>2. QED BY <1>3, <2>2, <3>1 DEF determine_udp_data_offset
    <2>3. QED BY <2>1, <2>2
  <1>6. HeaderLength(d) # 0 /\ ~(HeaderLength(d) > size) /\ size - HeaderLength(d) = d.data
    BY <1>1, <1>2, HeaderLengths
  <1> HIDE DEF size
  <1>7. parse_datagram(d, size) = Taken(<<d.data>>)
    BY <1>4, <1>5, <1>6 DEF parse_datagram
  <1>8. QED BY <1>7 DEF size

-----------------------------------------------------------------------------
(* A message of which a part is missing, one lemma per parser. *)
LEMMA GreetingCut ==
    ASSUME NEW g \in Greeting(MaxMethods), NEW n \in Nat, n < GreetingLength(g)
    PROVE  is_socks5_auth_request(g, n) = Refused
  <1>1. Len(g.methods) \in Nat
    BY Kinds
  <1>2. ~(Len(g.methods) + 2 \leq n)
    BY <1>1 DEF GreetingLength
  <1>3. QED BY <1>2 DEF is_socks5_auth_request

LEMMA RequestCut ==
    ASSUME NEW r \in SocksRequest(MaxName), NEW n \in Nat, n < HeaderLength(r)
    PROVE  \/ parse_request(r, n) = Refused
           \/ /\ parse_request(r, n).verdict = "foreign"
              /\ r.type \in {"dom", "ipv6"} /\ n \geq request_header_min_length
  <1>1. CASE ~parse_requested_socks_mode(r, n)
    BY <1>1 DEF parse_request
  <1>2. CASE ~get_remote_address_info(r, n)
    BY <1>2 DEF parse_request
  <1>3. CASE parse_requested_socks_mode(r, n) /\ get_remote_address_info(r, n)
    <2>1. n \geq request_header_min_length /\ r.type \in {"ipv4", "ipv6", "dom"}
      BY <1>3 DEF parse_requested_socks_mode
    <2>2. r.type # "ipv4"
      BY <2>1 DEF HeaderLength, request_header_min_length
    <2>3. HeaderLength(r) \in Nat
      BY Kinds, HeaderLengths
    <2>4. ~(HeaderLength(r) \leq n)
      BY <2>3
    <2>5. parse_request(r, n).verdict = "foreign"
      BY <1>3, <2>4 DEF parse_request, Taken
    <2>6. QED BY <2>1, <2>2, <2>5
  <1>4. QED BY <1>1, <1>2, <1>3

LEMMA DatagramCut ==
    ASSUME NEW d \in Datagram(MaxName, MaxData), NEW n \in Nat, n < HeaderLength(d)
    PROVE  \/ parse_datagram(d, n) = Refused
           \/ /\ parse_datagram(d, n).verdict = "length_error"
              /\ d.type = "ipv6" /\ n \geq request_header_min_length
  <1>1. d.type \in AddressTypes /\ d.name \in Nat
    BY Kinds
  <1>2. CASE n < 10
    <2>1. ~get_remote_address_info(d, n)
      BY <1>2 DEF get_remote_address_info, request_header_min_length
    <2>2. QED BY <2>1 DEF parse_datagram
  <1>3. CASE n \geq 10 /\ d.type = "ipv4"
    BY <1>3 DEF HeaderLength
  <1>4. CASE n \geq 10 /\ d.type = "ipv6"
    <2>1. determine_udp_data_offset(d, n) = 22 /\ n < 22
      BY <1>4 DEF determine_udp_data_offset, HeaderLength
    <2>2. CASE ~get_remote_address_info(d, n)
      BY <2>2 DEF parse_datagram
    <2>3. CASE get_remote_address_info(d, n)
      <3>1. parse_datagram(d, n) = [verdict |-> "length_error", what |-> <<>>]
        BY <2>1, <2>3 DEF parse_datagram
      <3>2. QED BY <1>4, <3>1 DEF request_header_min_length
    <2>4. QED BY <2>2, <2>3
  <1>5. CASE n \geq 10 /\ d.type \in {"dom", "other"}
    <2>1. determine_udp_data_offset(d, n) = 0
      <3>1. n < 4 + 1 + d.name + 2
        BY <1>5 DEF HeaderLength
      <3>2. ~(4 + d.name + 1 + 2 < n)
        BY <1>1, <3>1
      <3>3. QED BY <1>5, <3>2 DEF determine_udp_data_offset
    <2>2. QED BY <2>1 DEF parse_datagram
  <1>6. QED BY <1>1, <1>2, <1>3, <1>4, <1>5 DEF AddressTypes

-----------------------------------------------------------------------------
(* A message arrives byte by byte, and not beyond its end. *)
THEOREM Invariance == Spec => []IInv
  <1>1. Init => IInv
    <2> SUFFICES ASSUME Init PROVE IInv
      OBVIOUS
    <2>1. message \in SocksMessage \cup HttpRequest /\ length = 1
      BY DEF Init, SocksMessage
    <2>2. QED BY <2>1, Wholes DEF IInv
  <1>2. IInv /\ [Next]_vars => IInv'
    <2> SUFFICES ASSUME IInv, [Next]_vars PROVE IInv'
      OBVIOUS
    <2>1. CASE Arrive
      <3>1. message' = message /\ length' = length + 1 /\ length < Whole
        BY <2>1 DEF Arrive
      <3>2. Whole' = Whole
        BY <3>1 DEF Whole, Text
      <3>3. ASSUME Socks PROVE length + 1 \in 1..Whole
        BY <3>1, <3>3, Wholes DEF IInv
      <3>4. QED BY <3>1, <3>2, <3>3 DEF IInv, Socks
    <2>2. CASE UNCHANGED vars
      BY <2>2 DEF IInv, vars, Socks, Whole, Text
    <2>3. QED BY <2>1, <2>2 DEF Next
  <1>3. QED BY <1>1, <1>2, PTL DEF Spec

(* Every whole greeting, request and datagram of a form the proxy serves is *)
(* taken for what it means (socks.cpp, UdpClientStream::write).             *)
THEOREM SocksUnderstood == Spec => [](Socks => Understood)
  <1>1. IInv => (Socks => Understood)
    <2> SUFFICES ASSUME IInv, Socks, length = Whole, Served
                 PROVE  Parsed(length) = Taken(Meant)
      BY DEF Understood
    <2>1. CASE message \in Greeting(MaxMethods) /\ message.kind = "greeting"
      BY <2>1, GreetingUnderstood DEF Whole, Served, Parsed, Meant
    <2>2. CASE message \in SocksRequest(MaxName) /\ message.kind = "request"
      BY <2>2, RequestUnderstood DEF Whole, Served, Parsed, Meant
    <2>3. CASE message \in Datagram(MaxName, MaxData) /\ message.kind = "datagram"
      BY <2>3, DatagramUnderstood DEF Whole, Served, Parsed, Meant
    <2>4. QED BY <2>1, <2>2, <2>3, ThreeKinds DEF IInv
  <1>2. QED BY <1>1, Invariance, PTL

(* Of a SOCKS message that is cut at any length none is taken for a whole   *)
(* one, but for the two length tests that are missing (socks.cpp:65-77,     *)
(* udp_client_stream.cpp:33, 104).                                          *)
THEOREM SocksCutRefused == Spec => [](Socks => CutRefused)
  <1>1. IInv => (Socks => CutRefused)
    <2> SUFFICES ASSUME IInv, Socks PROVE CutRefused
      OBVIOUS
    <2>1. length \in Nat
      BY Wholes DEF IInv
    <2>2. CASE message \in Greeting(MaxMethods) /\ message.kind = "greeting"
      <3>1. Parsed(length) = is_socks5_auth_request(message, length)
        BY <2>2 DEF Parsed
      <3>2. Whole = GreetingLength(message)
        BY <2>2 DEF Whole
      <3>3. QED BY <2>1, <2>2, <3>1, <3>2, GreetingCut DEF CutRefused
    <2>3. CASE message \in SocksRequest(MaxName) /\ message.kind = "request"
      <3>1. Parsed(length) = parse_request(message, length)
        BY <2>3 DEF Parsed
      <3>2. QED BY <2>1, <2>3, <3>1, RequestCut DEF CutRefused
    <2>4. CASE message \in Datagram(MaxName, MaxData) /\ message.kind = "datagram"
      <3>1. Parsed(length) = parse_datagram(message, length)
        BY <2>4 DEF Parsed
      <3>2. QED BY <2>1, <2>4, <3>1, DatagramCut DEF CutRefused
    <2>5. QED BY <2>2, <2>3, <2>4, ThreeKinds DEF IInv
  <1>2. QED BY <1>1, Invariance, PTL
=============================================================================
