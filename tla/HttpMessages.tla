---------------------------- MODULE HttpMessages -----------------------------
(***************************************************************************)
(* The parser of HTTP requests, http::get_headers and the host and service *)
(* of its result, on texts that are sequences of tokens.  A delimiter, and *)
(* each letter of a host or of a port, is a token of its own; a method, a  *)
(* scheme, a version and the name of a header with its colon are one each. *)
(***************************************************************************)
EXTENDS Naturals, SequencesExt

SP == " "
CRLF == "CRLF"

(* A string that is not set, and one whose length has gone below zero *)
Nowhere == <<>>
length_error == <<"length_error">>

(* The runs of tokens between delimiters; there are no empty items *)
split(str, delimiter) ==
    LET first(i) == str[i] # delimiter /\ (i > 1 => str[i - 1] = delimiter)
        starts   == SelectSeq([i \in DOMAIN str |-> i], first)
        end(i)   == CHOOSE j \in i..Len(str) :
                        /\ \A k \in i..j : str[k] # delimiter
                        /\ j < Len(str) => str[j + 1] = delimiter
    IN [k \in DOMAIN starts |-> SubSeq(str, starts[k], end(starts[k]))]

Methods == {"GET", "POST", "DELETE", "UPDATE", "HEAD", "CONNECT"}

no_headers == [connect |-> FALSE, uri |-> Nowhere, host |-> Nowhere]

(* What follows the name and the one character after it *)
get_http_header_value(name, str) ==
    LET rest == SubSeq(str, SelectInSeq(str, LAMBDA token : token = name) + 1, Len(str))
    IN IF rest = <<>> THEN length_error ELSE Tail(rest)

(* Slip: each line that names a host is taken, also when there is one already *)
get_remaining_required_fields_LastWins(headers, host) ==
    FoldLeft(LAMBDA known, line : IF Contains(line, "Host:")
                                  THEN get_http_header_value("Host:", line) ELSE known,
             host, headers)

(* A line names a header if the name occurs anywhere in it.  Host is looked *)
(* for until there is one, and Connection from then on.  The value of       *)
(* Connection is stored and never used, but without one the exception ends  *)
(* the loop, as it does for Host.                                           *)
get_remaining_required_fields(headers, host) ==
    LET value(name, line, otherwise) ==
            IF Contains(line, name) THEN get_http_header_value(name, line) ELSE otherwise
        next(known, line) ==
            CASE known = length_error -> length_error
              [] known = Nowhere      -> value("Host:", line, Nowhere)
              [] OTHER                -> IF value("Connection:", line, known) = length_error
                                         THEN length_error ELSE known
    IN FoldLeft(next, host, headers)

(* get_request_fields and the rest of get_headers.  The host of the result  *)
(* is length_error if the exception was thrown on the way.                  *)
get_headers(str) ==
    LET lines  == split(str, CRLF)
        fields == split(lines[1], SP)
        connect == fields[1] = <<"CONNECT">>
        host   == get_remaining_required_fields(Tail(lines), IF connect THEN fields[2] ELSE Nowhere)
    IN IF /\ Len(lines) \geq 2
          /\ Len(fields) = 3
          /\ Len(fields[1]) = 1 /\ fields[1][1] \in Methods
          /\ host # Nowhere
       THEN [connect |-> connect, uri |-> fields[2], host |-> host]
       ELSE no_headers

get_service(req) ==
    LET parts == split(IF req.connect THEN req.host ELSE req.uri, ":")
    IN IF Len(parts) # 2 THEN Nowhere
       ELSE IF req.connect THEN parts[2] ELSE parts[1]

get_host(req) ==
    LET parts == split(req.host, ":")
    IN IF ~req.connect THEN req.host ELSE IF Len(parts) = 2 THEN parts[1] ELSE Nowhere
=============================================================================
