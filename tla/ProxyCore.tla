------------------------------ MODULE ProxyCore ------------------------------
(***************************************************************************)
(* What the three stream managers (FwdStreamManager, HttpStreamManager and *)
(* SocksStreamManager) have in common: the acceptor that numbers the       *)
(* connections, the map of sessions, and the two streams of a session.     *)
(*                                                                         *)
(* The program runs one io_context on one thread: a completion handler is  *)
(* one atomic action.  It may still run when its session has long been     *)
(* erased from the map, because the handler keeps its stream alive; every  *)
(* callback of a manager therefore first looks its stream's id up.         *)
(***************************************************************************)
EXTENDS Streams

CONSTANTS MaxSessions,   \* bound: connections accepted in a behaviour
          MaxChunks      \* bound: chunks relayed from one stream of a session

ASSUME BoundsAssumption == MaxSessions \in Nat /\ MaxChunks \in Nat

Ids == 1..MaxSessions

VARIABLES running,     \* "running", "stopped" by a signal, or "crashed"
          stream_id,   \* Server::stream_id_, the last id given to a connection
          session,     \* [Ids -> the state object of the session, or Erased]
          server,      \* [Ids -> the accepted stream]
          client       \* [Ids -> the stream to the remote host]

coreVars == <<running, stream_id, session, server, client>>

(* sessions_.find(id) == sessions_.end() *)
Erased == "none"
Live(i) == session[i] # Erased

CoreInit ==
    /\ running = "running"
    /\ stream_id = 0
    /\ session = [i \in Ids |-> Erased]
    /\ server = [i \in Ids |-> NoServer]
    /\ client = [i \in Ids |-> NoClient]

CoreTypeOK(states) ==
    /\ running \in {"running", "stopped", "crashed"}
    /\ stream_id \in 0..MaxSessions
    /\ session \in [Ids -> states \cup {Erased}]
    /\ server \in [Ids -> ServerStream]
    /\ client \in [Ids -> ClientStream]

-----------------------------------------------------------------------------
(* The effect of a handler on session i: the state it changes to and what  *)
(* it leaves of the two streams.                                           *)
Handled(i, state, s, c) ==
    /\ running = "running"
    /\ session' = [session EXCEPT ![i] = state]
    /\ server' = [server EXCEPT ![i] = s]
    /\ client' = [client EXCEPT ![i] = c]
    /\ UNCHANGED <<running, stream_id>>

(* The session's state does not react, or the session is not found: only   *)
(* the stream has changed.                                                 *)
Ignored(i, s, c) == Handled(i, session[i], s, c)

(* stop(id) of a manager that checks its pointers *)
StopBoth(i, s, c) == Handled(i, Erased, server_stop(s), client_stop(c))

(* A relayed chunk is read from x; it is the x.got-th *)
Take(x) == [x EXCEPT !.got = @ + 1]

-----------------------------------------------------------------------------
(* A connection is accepted: the stream is numbered and started, and its   *)
(* session enters the map in its first state.                              *)
accept(i, first) ==
    /\ i = stream_id + 1
    /\ stream_id' = i
    /\ running = "running"
    /\ session' = [session EXCEPT ![i] = first]
    /\ server' = [server EXCEPT ![i] = ServerStream_start]
    /\ UNCHANGED <<running, client>>

(* The handler of async_resolve goes on to connect() on its own *)
resolved(i) ==
    /\ client[i].phase = "resolving"
    /\ Ignored(i, server[i], client_resolved(client[i]))

(* SIGINT or SIGTERM: the acceptor is closed and the io_context stopped, so *)
(* no handler runs any more.                                                *)
signal ==
    /\ running = "running"
    /\ running' = "stopped"
    /\ UNCHANGED <<stream_id, session, server, client>>

-----------------------------------------------------------------------------
(* What is outstanding on the streams of session i *)
Quiet(i) == ServerQuiet(server[i]) /\ ClientQuiet(client[i])

(* A stream has one read buffer and one write buffer, and at most one       *)
(* operation uses each.  What TlsServerStream::stop starts uses neither     *)
(* (its write is empty), but that write is a second one beside the last of  *)
(* the session; no other operation is started with it or after it.          *)
OneOperation(i) ==
    /\ server[i].reads + (IF server[i].starting THEN 1 ELSE 0) \leq 1
    /\ server[i].writes \leq 1
    /\ client[i].reads \leq 1
    /\ client[i].writes \leq 1
    /\ Live(i) => server[i].closing = {}

(* No chunk is skipped or dropped between two streams: what has been read  *)
(* from one and not sent to the other is in the other's write buffer.      *)
Conserved(i) ==
    /\ server[i].got = Len(client[i].put) + client[i].writes
    /\ client[i].got = Len(server[i].put) + server[i].writes

(* Exactly the two halves of a relay are armed: each direction is waiting  *)
(* either for data or for its last chunk to be sent.                       *)
RelayArmed(i) ==
    /\ ~server[i].starting
    /\ client[i].phase = "connected"
    /\ server[i].reads + client[i].writes = 1
    /\ client[i].reads + server[i].writes = 1

(* The proxy's only outstanding operation is the resolution or the connect *)
OnlyConnecting(i) ==
    /\ ServerQuiet(server[i])
    /\ client[i].phase \in {"resolving", "connecting"}
    /\ client[i].reads = 0
    /\ client[i].writes = 0

(* Only the server stream has something outstanding *)
OnlyServer(i) == ClientQuiet(client[i]) /\ server[i].closing = {}

(* The state of each mode that waits for the resolution and the connect *)
ConnectStates == {"FwdConnectionEstablished", "HttpConnectionEstablished",
                  "SocksConnectionEstablished"}

(* A resolution or a connect is outstanding only for a session that waits   *)
(* for it: erasing a session never leaves a connect behind that would open  *)
(* a connection nobody owns.  (TcpClientStream::stop cannot cancel one;     *)
(* nothing is asked of the server stream meanwhile, so nothing there can    *)
(* fail and stop the session.)                                              *)
ConnectOwned ==
    \A i \in Ids : client[i].phase \in {"resolving", "connecting"} =>
                       session[i] \in ConnectStates

(* No step starts an operation on the streams of a session that is already *)
(* gone; resolution going on to connect would be one.                      *)
NoNewOperation(i) ==
    ~Live(i) /\ i \leq stream_id =>
        /\ ~Live(i)'
        /\ server'[i].reads \leq server[i].reads
        /\ server'[i].writes \leq server[i].writes
        /\ client'[i].reads \leq client[i].reads
        /\ client'[i].writes \leq client[i].writes
        /\ ClientQuiet(client[i]) => ClientQuiet(client'[i])

-----------------------------------------------------------------------------
(* The sessions implement tunnels, open while the session is in the state   *)
(* of its mode that relays.                                                 *)
RelayStates == {"FwdDataTransferMode", "HttpDataTransferMode", "SocksDataTransferMode"}

tunnelPhase(i) == CASE i > stream_id -> "new"
                    [] i \leq stream_id /\ ~Live(i) -> "closed"
                    [] i \leq stream_id /\ session[i] \in RelayStates -> "open"
                    [] OTHER -> "opening"

T == INSTANCE Tunnel WITH
        phase     <- [i \in Ids |-> tunnelPhase(i)],
        upTaken   <- [i \in Ids |-> server[i].got],
        upGiven   <- [i \in Ids |-> client[i].put],
        downTaken <- [i \in Ids |-> client[i].got],
        downGiven <- [i \in Ids |-> server[i].put]

(* Every behaviour of the proxy is one of the tunnels': chunks arrive in    *)
(* order, whole, once, and only between open and close.                     *)
Implements == T!Spec

(* Whenever and however a session ends (the end of file of one stream stops *)
(* both), each peer has been sent what was read from the other, in order    *)
(* and without a gap, and at most the last chunk of a direction is cut off. *)
AtMostOneCut == T!Arrived
=============================================================================
