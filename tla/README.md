# A TLA+ model of mtls-mproxy

mtls-mproxy accepts TCP or mutually authenticated TLS connections and relays
each of them to a remote host. Three modes decide which host: `tun` (one host
from the command line), `http` (the host of the first request) and `socks5`
(the host of the SOCKS request, or, for UDP ASSOCIATE, the host each datagram
names). This directory models the sessions of the three modes, the UDP relay,
the parsers and the choice of mode, model-checks them with TLC, and proves
their safety with TLAPS. Paths below are relative to `src/src/`.

## 1. The system

### Parts, their state and their operations

| Part | State | Operations |
|---|---|---|
| `Server`, `TlsServer` (`app/transport/tcp/server.cpp`, `tls/tls_server.cpp`) | acceptor, `stream_id_` | accept: number the stream, hand it to the manager; signal: close the acceptor, stop the `io_context` |
| `TcpServerStream` (`app/transport/tcp/tcp_server_stream.cpp`) | socket, one read and one write buffer, `rip_`, `wip_`; for UDP a second socket, a queue, `use_udp_` | `start`, `stop`, `read`, `write`, `udp_associate` |
| `TlsServerStream` (`app/transport/tls/tls_server_stream.cpp`) | TLS socket, one read and one write buffer, **no** flags | `start` (handshake), `stop` (two concurrent operations), `read`, `write` |
| `TcpClientStream` (`app/transport/tcp_client_stream.cpp`) | socket, resolver, two buffers, `rip_`, `wip_` | `start` (resolve, then connect), `stop`, `read`, `write` |
| `UdpClientStream` (`app/transport/udp_client_stream.cpp`) | socket, one receive buffer, send queue, DNS queue, two in-progress flags | `start`, `stop` (closes nothing), `read`, `write` (parse, queue, resolve or send) |
| `FwdStreamManager`, `HttpStreamManager`, `SocksStreamManager` | `sessions_`: id -> (server stream, client stream, session) | one callback per completion: `on_accept`, `on_server_ready`, `on_read`, `on_write`, `on_connect`, `on_error`; `stop(id)` erases |
| `FwdSession`, `HttpSession`, `SocksSession` | the current state object, endpoint, prepared answer, byte counters | dispatch of the callback to the state; `connect`, `stop`, reads and writes through the manager |
| `*State` classes | none (the class is the state) | one handler per callback |
| `http.cpp`, `socks.cpp` | none | parse the first bytes of a connection |
| `main.cpp` | the options, `ServerConf` | check the options, choose the mode, TLS, and whether UDP ASSOCIATE is allowed (only without TLS) |

### How they interact

One thread runs one `io_context`; there is no lock because there is no second
thread. A stream starts asynchronous operations; a completion handler does its
own bookkeeping (reset a flag, copy the bytes out) and calls the manager, which
finds the session by the stream's id and lets the session's state handle the
event; the handler starts further operations on either stream, changes the
state, or stops the session. Every handler captures a shared pointer to its
stream, so a completion can still run long after its session has been erased.

So the unit of atomicity is the completion handler, and what is hard is not two
threads but the *order of completions*: which are outstanding at the same time,
on which buffer, for which session state, and after which `stop()`.

### What is hard, and what makes each part correct

* **Streams.** A read or write that is asked for while one is outstanding is
  silently dropped by a TCP stream (`rip_`, `wip_`), and corrupts the shared
  buffer of a TLS stream. Correct when it is never asked: `BuffersExclusive`.
  (`TlsServerStream::stop` starts an `async_write` of its own, of an empty
  buffer, possibly beside the last write of the session: it uses neither buffer,
  and must not be started while the session lives.)
* **States.** Each state must have exactly the operations outstanding that its
  handlers wait for. With none, the session stays in the map for ever; with one
  too many it advances twice: `Armed`.
* **Relay.** Chunks cross two streams through three buffers; they must arrive
  whole, once, in order, between opening and closing: `NothingLost`, `Implements`.
* **Datagrams.** A packet passes through two queues whose fronts an operation
  refers to while it runs. It must be sent once, in the order of its kind
  (`InOrder`), by one operation at a time (`OneAtATime`), and no queue may be
  left waiting for the next call (`QueuesServed`, `Forwarded`).
* **Parsers.** A read brings what it brings, and the code never waits for the
  rest: what is whole must be understood (`Understood`); an HTTP request that is
  cut, if it is taken at all, must be taken for the destination of the whole one
  (`CutStable`); and a SOCKS message that is cut must be refused (`CutRefused`,
  which states the two cases the code does not refuse).
* **Options.** `main` decides three times whether clients speak TLS; the three
  must agree, and agree with the options (`TlsHonoured`).
* **Opening.** `200`, the forwarded request and the SOCKS answers must be sent
  once, after the connect, before any chunk, and be true: `OpenedOnce`, `Transcript`.
* **Closing.** Late completions must not act on an erased session
  (`ClosedStaysQuiet`, `ClosedShrinks`), its operations must end (`ClosedDrains`), a connect cannot
  be cancelled and so must not be left behind (`ConnectOwned`), a failed connect
  must end the session (`ConnectEnds`), and no failure may end the program
  (`Survives`). The end of file of one stream stops both: of either direction at
  most the last chunk may be cut off (`AtMostOneCut`).

`PROJECT.json` lists every hazard at its line with the properties that cover it.

## 2. The modules

```
Streams           the TCP and TLS stream classes as records and operators on them
  ProxyCore       acceptor, session map, what the three managers share
    FwdProxy      tun mode         ----\
    HttpProxy     http mode        -----+--> each implements Tunnel (INSTANCE ... WITH)
    SocksProxy    socks5 mode, TCP ----/
UdpStreams        the UDP side of TcpServerStream, and UdpClientStream
  UdpRelay        one UDP association; EXTENDS Streams too  --> implements Association
Tunnel            what a proxied connection promises
Association       what a UDP association promises
SocksMessages     the SOCKS5 parsers      ---\
HttpMessages      the HTTP request parser ----+--> Messages runs them on bytes as they arrive
Config            main.cpp: from the options to a mode and a server

StreamsProofs     lemmas about every operation of Streams
RelayProofs       what the three modes have in common of the argument for their
                  safety, and of the one that they implement Tunnel
FwdProxyProofs, HttpProxyProofs, SocksProxyProofs, UdpProofs, ConfigProofs,
MessagesProofs    the inductive invariant of each and its theorems
```

* **Streams.** A stream is a record. `starting`, `reads`, `writes`, `closing`
  and `phase` say which operations are outstanding; `reads` and `writes` are
  *counts*, because in the code nothing but `rip`/`wip` keeps them at one.
  `rip`, `wip` are the flags; `wbuf` is the content of the write buffer and is
  overwritten by a write that comes too early, as in the code. `got`, `put` and
  `said` are history variables. A method (`TcpServerStream_write_tcp`) or the
  stream's part of a completion handler (`server_write_ok`) is an operator from
  records to records. A chunk is its number in the stream it was read from, so
  a lost, repeated, stale or overwritten chunk is visible.
* **ProxyCore.** `session[i]` is the state object of session `i` or `Erased`
  (not in the map). `Handled` is the frame of a handler; `Ignored` is what is
  left when the session is not found or its state does not react. `accept`,
  `resolved` and `signal` are common to all modes.
* **FwdProxy, HttpProxy, SocksProxy.** One action per callback of the manager
  (`on_connect(i)` is the completion of the connect of session `i`), one
  operator per handler (`SocksConnectionRequest_handle_server_read`). The
  action contains everything the completion does: the stream's bookkeeping, the
  look-up, the handler, the operations it starts, `stop()` and the erasure.
  `on_server_error` and `on_client_error` choose any outstanding operation to
  fail, at any time. In HttpProxy `running = "crashed"` is the end of the
  program by a null pointer or by an exception.
* **UdpStreams, UdpRelay.** The module starts where SocksProxy stands when it
  waits for the request, with plain TCP, and follows one association. `control`
  is the TCP side of the server stream (a record of Streams), `local` its UDP
  side, `host` the client stream. A receive of the local socket has two steps:
  the reactor fills the buffer (`datagram`), the handler runs later
  (`on_datagram`). The code starts two receives on one buffer, and each control
  segment adds one, so the buffer may be filled twice before a handler looks at
  it: the handler then has the length of one datagram and the first bytes of
  another, and `Understood` of UdpStreams is what it may make of them: the
  header may be cut, and one that was too short may be completed by what the
  earlier datagram left. `session = "ended"` is the end of the program by an
  exception: of a datagram that is too short, or of a UDP socket that cannot be
  opened or bound when the association is set up
  (`tcp_server_stream.cpp:118-119`, `udp_client_stream.cpp:71`, `84`).
* **Tunnel, Association.** The abstract specifications: a one-place channel in
  each direction; and packets sent at most once in any order, answers returned
  at most once in order, between opening and closing. The refinement mappings
  read the phase off the session state, and the rest off the history variables.
* **SocksMessages, HttpMessages, Messages.** A parser is an operator on a
  message and on how much of it is there. Its verdict is `refused`, `taken`,
  `foreign` (taken, but partly from behind the end of the buffer) or
  `length_error`. `Messages` lets each message arrive byte by byte (token by
  token for HTTP), so every length a read may bring is a state.
* **Config.** The command line is any combination of options; the three steps
  are the checks, the choice of the manager and that of the server.

Operators marked `Slip` are what a plausible mistake would make of the operator
after them. No specification uses them; they document that each property can be
broken, and are listed with the property they break under `mutants`.

### Inputs

| Input | Values | Because the code tells only these apart |
|---|---|---|
| first read in HTTP mode | `connect`, `other`, `bad`, `valueless` | CONNECT is answered, another request is forwarded, no host or service is a 500, and a `Host:` or `Connection:` with nothing after it is an exception (see section 6) |
| greeting | `noauth`, `bad` | `is_socks5_auth_request` is empty or not |
| SOCKS request, TCP | `connect`, `udp`, `bad` | BIND is rejected by `parse_requested_socks_mode` like any unknown command, so it is `bad`; `udp` here only with TLS, where it is turned down; without TLS it is UdpRelay |
| SOCKS request, UDP | `udp`, `udp_other_length`, `bad` | whether the answer has the length of the request |
| destination of a datagram | `address`, `name`, `bad`, `short` | sent, resolved first, dropped, or an exception |
| chunks, datagrams, answers | numbered | content never matters to the relay |
| messages of the parsers | every combination of the fields the code compares, with the lengths of the others | |
| options | all combinations, one mode name that is not known | |

The end of file and the failure of a read are the same to a TCP stream; a TLS
stream closes its socket on end of file before it reports, which `server_failed`
keeps apart.

## 3. What the runs check

| Run | Instance | Checks |
|---|---|---|
| `fwd_tcp` | 2 sessions, 2 chunks each way, fairness | `Armed NothingLost ConnectOwned ClosedStaysQuiet Implements ConnectEnds ClosedDrains` |
| `fwd_tls` | TLS, 2 sessions, 2 chunks, fairness | `BuffersExclusive AtMostOneCut ClosedDrains` |
| `http_tcp` | 2 sessions, 2 chunks, three kinds of request, fairness | `Armed NothingLost Survives Implements ClosedDrains` |
| `http_tls` | TLS, 2 sessions, 2 chunks, all requests | `BuffersExclusive OpenedOnce ClosedStaysQuiet` |
| `http_tls_auth` | TLS, 1 session, 1 chunk | `Survives`, **violated** |
| `socks_tcp` | 2 sessions, 2 chunks, fairness | `Armed NothingLost Implements ConnectEnds ClosedDrains` |
| `socks_tls` | TLS, 2 sessions, 2 chunks, `udp` too | `BuffersExclusive Transcript ConnectOwned ClosedStaysQuiet` |
| `udp` | 2 datagrams, 2 answers, 1 control segment, fairness | `Armed OneAtATime QueuesServed InOrder ClosedShrinks Implements ClosedDrains Forwarded` |
| `udp_control` | the same | `ControlWatched`, **violated** |
| `config` | every command line | `TlsHonoured` |
| `config_tun` | every command line | `TunChecked`, **violated** |
| `messages` | 2 methods, names up to 4, 2 bytes of data, 3 headers | `Understood CutStable CutRefused` |

`TypeOK`, the type invariant of the three modes and of UdpRelay, is proved for
each and so is in no run. `AtMostOneCut` and `ConnectOwned` are defined once,
for all modes, and are proved for each. The others are spread over TCP and TLS
by what the stream class puts at risk. The TCP streams' flags hide a second
operation by dropping it, so there the question is what gets lost
(`NothingLost`, `Armed`); the TLS stream has no flag, so there it is whether a
second one is ever started on the same buffer (`BuffersExclusive`).

**Bounds.** `MaxSessions` bounds the connections accepted in a behaviour and
`MaxChunks` the chunks a stream is read for; a read completes successfully only
below that bound, and can always fail. Sessions share nothing but the map and
the id counter: two are enough for one to be accepted, run or be erased while
the other is in any state. One chunk in each direction reaches every state of
the relay; the second is there to see one chunk overtake, overwrite or be read
before another, so every run of a relay has two.

`MaxDatagrams`, `MaxAnswers` and `MaxControl` bound what peers send to an
association. A segment on the control connection is taken for a datagram, so up
to three packets meet in the two queues: one being sent, one being resolved, and
one that waits; and two receives can both be filled before a handler runs. Two answers are what one
needs to overtake another. The proofs remove the bounds of `fwd_*`, `http_*`,
`socks_*` and `udp` for the safety properties listed in section 5.

In `messages` four letters are one more than the shortest name the parser
accepts, so both sides of that limit occur; two methods, two bytes of data and
three headers let the one that counts stand first, last, or in between.

**Deadlock** is not checked (`CHECK_DEADLOCK FALSE`): a signal stops the
program, once every bounded session has ended nothing is left to do, and a
message that has arrived or a program that serves takes no further step of the
small models. That no *session* is stuck is `Armed`, `ConnectEnds`,
`ClosedDrains` and `Forwarded`.

**Fairness.** Only what the system beneath the code guarantees while the
`io_context` runs, each as a weak fairness condition per session:

| Condition | Why it is justified |
|---|---|
| `Posted` | a call that was posted to the `io_context` is run |
| `Setup` | a resolution or a connect ends, in success or failure, by the time limits of the resolver and of TCP |
| `Reply` (SOCKS, UDP) | the answer is the segment that was read, with its code (and, for UDP, the address) replaced (`socks_state.cpp:129`, `146-149`, `174`, `180`), and only two bytes were sent before it: it fits the send buffer of the socket |
| `Closing` | the empty `async_write` of `TlsServerStream::stop` needs nothing from the peer |
| `DrainServer`, `DrainClient`, `DrainControl`, `DrainLocal` | what is outstanding on a socket that was shut down or closed completes, with an error if need be |
| `on_datagram` | the handler of a receive that was done is run |
| `LocalSends`, `HostSends`, `Resolves` | sending a datagram and resolving a name end, in success or failure, without the help of a peer |

A drain asks for a socket that *is* shut down or closed. A TLS shutdown alone
does not qualify, since it may wait for the peer: an erased TLS session drains
because the handler of the empty write closes the socket, and the mutant that
starts only the shutdown breaks `ClosedDrains`. `UdpClientStream::stop` shuts
down a socket that is not connected, which closes nothing: its receive is in no
fairness condition and `ClosedDrains` of UdpRelay leaves it out. No peer is
assumed to send, to read, or to finish a handshake: the code has no timer, so a
session that waits for its peer may wait for ever, and nothing is claimed about
it.

## 4. Findings

**A failed TLS handshake ends the program in HTTP mode** (`http_tls_auth`).
`TlsServerStream::do_handshake` reports a failed handshake as any other error of
one session (`tls_server_stream.cpp:83-84`). `HttpState::handle_server_error`
stops the session, and `HttpStreamManager::stop` calls `client->stop()` without
the check its two siblings have (`http_stream_manager.cpp:15`; compare
`fwd_stream_manager.cpp:18`, `socks_stream_manager.cpp:17`). The client stream
is created in `on_server_ready`, that is only after a handshake that succeeded:
a null pointer is called. The same property holds over plain TCP (`http_tcp`),
where a stream cannot fail before it is ready. `Armed` in HttpProxy says
nothing of a crashed program.

**The control connection of an association is watched for one segment only**
(`udp_control`). The comment at `tcp_server_stream.cpp:91-92` says that a TCP
read is needed to be told of the end of the connection. It is started once; when
it brings bytes they are taken for a datagram, and the next `read()` reads the
UDP socket (`socks_state.cpp:222-227`, `tcp_server_stream.cpp:123-130`).

**A mode in capitals skips the checks of the tunnel** (`config_tun`). The checks
compare `-m` as written, the choice compares it in lower case, and what is not
`http` or `socks5` is a tunnel: `-m TUN`, or an unknown mode, starts a plain TCP
tunnel without a target, against the messages at `main.cpp:79-82` and
`main.cpp:100-101`.

## 5. What is proved

For every value of the bounds in `Nat`, with and without TLS (an association is
only ever without), for every set of inputs and of mode names (the named
assumptions of the modules: `BoundsAssumption`, `TlsAssumption`,
`RequestsAssumption`, `UdpAssumption`, `ModeNamesAssumption` and their like). Each line is `Spec => []P`, or
`Spec => P` for the action properties and refinements:

| Module | Properties proved |
|---|---|
| `FwdProxyProofs` | `TypeOK Armed BuffersExclusive NothingLost ConnectOwned ClosedStaysQuiet Implements` (Tunnel) `AtMostOneCut` |
| `HttpProxyProofs` | `TypeOK Armed BuffersExclusive NothingLost OpenedOnce ConnectOwned ClosedStaysQuiet Implements AtMostOneCut`; `Survives` as long as no handshake fails and without the request `valueless` |
| `SocksProxyProofs` | `TypeOK Armed BuffersExclusive NothingLost Transcript ConnectOwned ClosedStaysQuiet Implements AtMostOneCut` |
| `UdpProofs` | `TypeOK Armed OneAtATime QueuesServed InOrder ClosedShrinks Implements` (Association) |
| `ConfigProofs` | `TlsHonoured` |
| `MessagesProofs` | `Understood` and `CutRefused` of SOCKS messages |

Each module but ConfigProofs, whose invariant is small, first proves `Invariance`,
`Spec => []IInv`, its inductive invariant.

**Sessions over TCP and TLS.** `Armed` is not inductive. Whether `read()` starts
a read depends on `rip_`, so the invariant must say that a flag is clear when
nothing is outstanding (`Flagged`) while the session lives; after an error the
flag of a TCP stream stays set, so that part must be given up once the session
is erased. An error is harmless while connecting only because nothing else is
outstanding then. A chunk is conserved only if what is in a write buffer is a
chunk (`wbuf.kind = "data"`). And the streams of an id not yet given out must be
untouched (`Fresh`), or `accept` would not establish the first state.

Every action changes one session. `SessionInv` therefore speaks of one state
name and two records; one lemma lifts it to the session map; each handler has a
lemma without primes, and each action a short lemma that combines the two. What
the stream operations do to a record is stated once, in StreamsProofs. The
relaying states of the three modes have the same shape (`Relaying` of RelayProofs)
and the same lemmas: what a chunk does on its way, and that a completion of an
erased session only takes one operation away (`Shrinks`, from which
`ClosedStaysQuiet` follows).

* SOCKS adds, per opening state, what it waits for (`Waiting`) and what has been
  said so far (`Spoken`): `Transcript` holds because the answer to the request
  is the only write then, and because its content is fixed by the state that
  sends it.
* HTTP adds `response`: `Spoken` says that a session is not yet opened, opened
  in the way its request asks for, or refused. What the first state listens for
  is claimed only while the program has not crashed, since a crash leaves the
  session as it is.
* `Survives` needs no more than that in HTTP mode the client stream exists
  whenever a stream can fail. Nothing but a handshake can fail before
  `on_server_ready` made it, so the theorem asks that each handshake that ends
  has succeeded (`HandshakeSucceeds`, which plain TCP gives for nothing) and that
  no request is `valueless`. Both are needed: `http_tls_auth` refutes it
  otherwise, and a `Host` or `Connection` header with nothing after its name
  ends the program in any case. The theorem says that these two are the *only*
  ways in which a session of the model can end the program.

**The refinement of Tunnel.** `NothingLost` only counts chunks, and only while
the session relays. The refinement needs to know *which* chunk a pending write
carries, and after the session was erased too, when the last chunk may still
arrive: the one taken last, which is the only one not given yet (`InFlight`,
that is `Carrying` of each session). The argument is made once, in RelayProofs:

* A step of a session `Advances` if it leaves `Carrying` and takes a chunk,
  gives one, or does neither and at most opens or closes the tunnel. Such a step
  is one action of Tunnel or a stutter (`StepMaps`).
* What opens a session (greeting, answers, `200`, `500`, the forwarded request)
  never writes a chunk, so these steps touch neither channel (`Keeps`,
  `KeepsMaps`); nor does the step that ends the program (`Dies`).
* What is left for each mode is to say, for each of its actions, which of the
  lemmas applies; the handlers of the relay are those of RelayProofs.

`AtMostOneCut` is a property of Tunnel (`TunnelsOrdered`), so the refinement
gives it to each mode, also for a session that was erased, of which `Relaying`
says nothing.

**The UDP association.** The invariant has a part for each UDP socket that holds
in every state, also after the end (`LocalGood`, `HostGood`: the flags agree
with what is outstanding, the queues with the histories), a part that holds
while the session lives (`LocalServed`, `HostServed`: no queue waits), and one
per state (`Requesting`, `Answering`, `Relaying`: how many receives there are).
`InOrder` speaks of three sequences at once; it is inductive because a step that
sends or resolves moves the front of one queue to the end of the one before it,
which leaves their concatenation as it was (`MoveHead`), and a packet that is
taken is the largest of its kind and goes behind all of its kind
(`InsertNumbered`). Each action's lemma proves the invariant after it and, at
the same time, that it is a step of Association or none (`Refines`).

**Config.** The options of the TLS files are kept all together or not at all,
which is what makes three decisions from three different fields agree.

**SOCKS messages.** The only state is how many bytes have arrived. What a parser
makes of a whole message of a form it serves is computed from its layout
(`GreetingUnderstood`, `RequestUnderstood`, `DatagramUnderstood`). Of a cut one
the length tests of the code leave exactly what `CutRefused` allows
(`GreetingCut`, `RequestCut`, `DatagramCut`): a request with a name or an IPv6
address that is read beyond the buffer, and a datagram of type IPv6. Both hold
whatever the number of methods and the length of names and data.

## 6. What is only model-checked, what is not modelled, and the plan

Only model-checked:

* all liveness (`ConnectEnds`, `ClosedDrains`, `Forwarded`), which is out of the
  prover's reach;
* `Understood` and `CutStable` of HTTP requests: `HttpMessages` splits a text
  into lines and fields by recursion on the text, and what that computes for
  every text would need an induction the provers cannot do.

Known limits, each of them where the code promises nothing that a property could
state:

* `Survives` is checked without the request `valueless`: a line that ends after
  `Host:`, or after `Connection:` once the host is known, in the request itself
  or because the segment ends there, makes a length underflow, and the exception
  ends the program (`http.cpp:73`, called at `83` and `85`). So does a datagram
  with the type of IPv6 and fewer than 22 bytes (`udp_client_stream.cpp:104`; the
  input `short`), and so does a UDP socket that cannot be opened or bound. In
  `messages` the headers `closing` and `bare` are a `Connection` with and without
  a value; `Served` and `CutStable` name the condition.
* A request for a host name of one or two letters has fewer than ten bytes and
  is refused; a request with a name or an IPv6 address that is cut short is read
  beyond its end (`foreign`). `Served` and `CutRefused` say so.
* Endpoints are not told apart in UdpRelay. There is one `sender_ep_`, and an
  answer goes to whatever it holds when the answer is sent; no rule says what it
  should be.
* A packet whose name was resolved waits for the next packet that needs no
  resolution (`udp_client_stream.cpp:177`). `QueuesServed` and `Forwarded` name
  the packets they speak of; these are not among them.
* Associations share nothing but the session map, so UdpRelay has one, and its
  greeting is SocksProxy's.

Not modelled: logging, argument parsing by `cliap`, the certificate set-up of
`TlsServer`, socket options (one-off configuration without later effect), the
formatting of endpoints for the log, and the submodules `asio`, `asynclog`,
`cliap`, whose sources are not in the repository (asio is modelled by what the
handlers rely on). A failed accept only accepts again. In `http.cpp` the
value of the `Connection` header, which is stored and never used, and a function
that is never called are left out; the exception that an empty value throws is
modelled.

What the plan has left:

1. HTTP requests. What the recursion of `HttpMessages` computes cannot be
   proved, but what follows from it can be separated from it: that `get_host`
   and `get_service` of a request whose host line has ended do not depend on
   the text after that line, given the lines the text is split into.
2. A reader's pass over the longest proofs (the opening states of SOCKS, the two
   queues of UDP).
