# Verification of the protocol proxy

TLA+ models of utopia-php/protocol-proxy, a proxy for TCP, HTTP and SMTP that
asks a resolver where each connection goes. The repository holds a PHP/Swoole
implementation (`src/src/`, below *P*) and a Rust port
(`src/rust/crates/utopia-proxy/src/`, below *R*). The models are translated
from the code of both; `PROJECT.json` maps every definition to the lines it
stands for.

To repeat a check, in this directory:

    tlc -config Tcp.cfg TcpServer        # one run; PROJECT.json lists them all
    tlapm TcpServerProofs.tla            # one proof module

## 1. The system

A client connects; the server reads its first bytes (a packet, a request with
a Host header, an EHLO line), asks the **resolver** for an endpoint, checks the
endpoint's address, dials it and passes bytes on until somebody closes. The
three protocols differ in what the first bytes are and how the two connections
are coupled afterwards.

| Part | State | Operations | What makes it hard |
|---|---|---|---|
| TCP server and adapter (R `server/tcp/server.rs`, `adapter/tcp.rs`) | cache of backend connections and of sockmap pairs, both keyed by the client's fd number | accept, read first packet, TLS upgrade, `get_connection`, send, `activate_sockmap`, relay, `close_connection` | tasks on several threads; fd numbers are handed out again as soon as a stream is dropped; maps are updated one after another |
| Sockmap (R `sockmap/`) | kernel table of pairs, table of allocated pairs | `insert_pair`, `remove_pair` | two kernel updates, the second may fail; sockets leave the table when they close |
| Byte relay (R `server/tcp/server.rs`) | bytes in two sockets and in the proxy's hands | first packet, `forward_serialised`, `copy_bidirectional` | bounded buffers, short reads, half-closed streams |
| HTTP pool (R `server/http/pool.rs`, `handler.rs`) | semaphore, deque of idle clients, health flags | `acquire`, send, collect, invalidate, drop, cancellation | timeouts at every await, keep-alive connections with an exchange under way |
| HTTP raw forwarder (R `server/http/handler.rs`) | read buffer | connect, write, read head, read body | replies in pieces of any size, several framings |
| SMTP session (R `server/smtp/server.rs`) | command or data mode, backend connection | EHLO, commands, DATA, message lines | the mode is tracked apart from the backend's, one read stands for one reply |
| Routing (R `adapter/mod.rs`, `dns.rs`) | routing cache, DNS cache | `route`, `validate`, `resolve`, `set_ttl`, `clear` | two caches, concurrent misses, check then use |
| TCP event server (P `Server/TCP/Swoole.php`, `Adapter/TCP.php`) | connections, cached clients, initial data, pairs | `onReceive`, `forward`, `onClose` | every packet is a coroutine of its own and yields while it routes and dials |
| TCP coroutine server (P `Server/TCP/Swoole/Coroutine.php`) | cached clients keyed by object id, a channel per session | `handleConnectionData` and its relay | two coroutines that wait for each other without timeouts |
| HTTP handler (P `Server/HTTP/Swoole/Handler.php`) | a Channel of clients per backend | `forwardRequest`, `forwardRawRequest` | raw connections used again by other requests |
| SMTP server (P `Server/SMTP/Swoole.php`) | mode and backend of each client | `onReceive`, `onClose` | packets of several lines, reads that fail without ending the session, closes during a dial |
| Sockmap loader (P `Sockmap/Loader.php`, `relay.bpf.c`) | as R | `insertPair`, `removePair` | as R |
| Routing and DNS (P `Adapter.php`, `Dns.php`) | as R | as R | as R |
| Process and server start (R `bins/proxy/src/main.rs`, `server/*/server.rs`, `server/*/config.rs`, `tls/`) | environment, settings, adapters, listeners, accept loops | `main`, `start`, `bind`, set-up of workers, accept, interrupt | clients connect while later ports are still to be bound; binds, accepts and TLS files fail |
| Protocol names, resolver interface, PHP configuration | values | construction | little |

What must hold, part by part: a client's bytes go to its own backend and to no
other, once and in order; what a session put into a shared map is removed with
it; a request gets its own response; permits and clients of a pool are neither
lost nor doubled; the proxy and an SMTP backend agree on which lines are
commands; only addresses that were checked are dialed and their age is bounded;
whatever can wait comes to an end. `PROJECT.json` lists the hazards line by
line with the properties aimed at them.

## 2. The modules

| Module | Models | Main abstractions |
|---|---|---|
| `TcpServer` (`MCTcpServer`) | R TCP sessions, connection cache, sockmap tables | no bytes, only which connection they go to; one action per access to a shared map; connections named by the session that dialed them |
| `Duplex` | what a relay promises: two independent streams, delivered in order, cut off when the session ends | abstract specification |
| `Relay` (`MCRelay`) | R first packet and both relay loops over buffers of `Cap` bytes | byte *k* of a stream is the number *k*; tokio's `copy_bidirectional` is external |
| `HttpPool` | R pool and `forward_request` | a client is named by the request that dialed it; hyper's connection task is external |
| `HttpRaw` | R `handle` and `forward_raw_request` | a byte is `b`, `r` or `n`, so that the search for the end of the header is real; the Content-Length is a number of its own, below, at or above what is sent |
| `Startup` | R the binary and `start` of the three servers, from the environment to the exit code | a switch is one of three texts, a file what is found at its path; ports and widths of numbers are kept |
| `HttpServer` (`MCHttpServer`) | the composition: `HttpRaw` as the task of a client that `Startup` has accepted | one client's request is followed, in the environments `Followed` |
| `SmtpSession` | R `handle_client` and its handlers, with a backend | a line is one of its kinds as the code's tests tell them apart; replies whole or in two pieces |
| `Endpoint` | R endpoint syntax, `parse_endpoint`, `is_blocked_ip` | an endpoint is a host and what follows its first colon; the two octets and eight segments the code looks at are numbers |
| `Routing` (`MCRouting`) | R `route`, `validate`, the routing and the DNS cache, over `Endpoint` | one key; an answer is an endpoint or address and when it was true; a clock |
| `TupleKey` | R `sockmap/tuple.rs`, `build_tuple_key`, and the key of P `relay.bpf.c` | words and byte orders as numbers below 2^16 and 2^32 |
| `SwooleTcp` | P event server for one client, adapter and loader | a packet is its number and names the coroutine that handles it and the backend it dials; a send may wait for room; other clients appear in the kernel's table of pairs |
| `CoroutineTcp` | P coroutine server | a session is two program counters; object ids are a small set |
| `SwooleHttp` | P HTTP handler, both paths, one backend | a reply is a head and a body piece with its framing |
| `SwooleSmtp` | P SMTP server for one client | as `SmtpSession`; a packet is one line or two, a reply comes in one piece or two |
| `ServerProcess` | a process that runs one of `SwooleTcp`, `CoroutineTcp`, `SwooleHttp` and `HttpPool` | which one is chosen at the start |
| `TcpServerProofs`, `HttpPoolProofs`, `SwooleTcpProofs`, `SwooleHttpProofs`, `SwooleSmtpProofs` | | proofs about the module each is named after |
| `StartupProofs` | | proofs about `Startup`, about `HttpRaw` and their composition `HttpServer` |
| `RoutingSmtpProofs` | | proofs about `Routing` and about `SmtpSession` |
| `RelayProofs` | | proofs about `CoroutineTcp`, `Relay` and `TupleKey` |

Modules that another model is extended with (`Startup`, `Routing`, `Relay`,
`CoroutineTcp`, `SwooleHttp`, `HttpPool`) put a name of their own before `Init`,
`Next` and `Spec`.

Variables and actions carry the names of the fields and functions they model.
An action is what runs between two points at which something else may run: in
the Rust modules an await or an access to shared state, in the PHP modules the
points where a coroutine yields (one thread runs everything else). Where the
code calls a library (tokio, hyper, Swoole, the kernel's sockhash, PHP's
reference counting) the model has what the code relies on, and the map marks
the definition external. Peers are free: clients and backends send, stall and
close whenever they like.

At the head of some modules' action sections stand definitions headed "Mistakes
of the kind this code invites". No action uses them; each is a variant of an
action with a plausible slip, and shows that a property would notice it.

## 3. The runs

Each of them takes two minutes at most.

### Rust

**tcp** (`TcpServer`, two sessions, three fd numbers, TLS and sockmap on).
`ExclusiveBackend`: no two clients with open streams use one backend
connection. `EntriesHaveOwner`: every entry of the adapter's and the loader's
maps has a session that is still going to remove it. `KernelJoinsOwnPair`: the
kernel redirects an open client only to and from the connection its session
holds. `SessionEnds`: a session whose peers have both closed ends. Two sessions
and three numbers are enough for the interesting case: a number is used by a
client, freed, and used again by the other client, or by its backend socket,
while the first session is still between the steps of its close.

**tcp_dials_own** (violation). `get_connection` is documented to dial on the
first call for a client. `run_client` drops the stream, and with it the fd
number, before `close_connection` evicts the cache entry of that number. A
client accepted in between on the same number is given the old client's backend
connection. `ExclusiveBackend` still holds, because the old client's stream is
gone by then.

**http_raw** (`MCHttpServer`: one client, two listeners, one failing accept,
some fifty environments; four bodies of up to six bytes, reads of at most
four). The whole process. `HandledAsConfigured`: whoever is served, however
early, is served by the adapter of the port it connected to, complete with its
settings. `FailsClosed`: a TCP server that was asked for TLS opens no port
without an acceptor made of good files, which checks client certificates where
they are required; which connections then use it is the question of
**tls_ports**. `ServesEveryPort`: `start` does not settle for some of its ports.
`ClientServed`: a client in the queue of a listener is taken from it. `ShutsDown`: an interrupt at any moment,
or a failed bind, ends the process. `WholeBody`: what is passed on is taken from
behind the header, in order and from the first byte on, and is never less than
the Content-Length declares; bytes beyond the length are passed on only if the
reads that found the header's end had taken them with it (the code does not cut
them off). `RequestAnswered`: every request is answered, by a stalling backend
too, unless the process ends or the declared length is one for which no buffer
can be had. Two listeners are the two TCP ports, or two workers on one port:
one is accepting while the other is being bound, or fails to be. The
environments have every server, every way to name it, each switch in its three
forms, and each file missing, garbled and good. One body contains a blank line,
and a read may end at any byte, also inside the header terminator. The lengths
are one that a body exceeds, that of the longest body, and one above the
largest buffer (`Capacity`).

**never_panics** (violation, same instance). `handle` is documented never to
panic. `BytesMut::with_capacity` takes the backend's Content-Length as it is,
and one that fits a `usize` and no memory panics; the release profile aborts
the process then, a debug build ends the connection's task.

**tls_ports** (violation, same instance). The documentation of TLS termination
names PostgreSQL and MySQL. The acceptor is used only on port 5432, after an
SSLRequest; `is_mysql_ssl_request` has no caller, and what arrives on any other
port is relayed as it is.

**smtp** (`SmtpSession`, four lines of ten kinds, replies in one or two
pieces). `ModeAgreement`: a line the proxy takes for message text is not
executed by the backend as a command, nor the reverse. `OwnReply`: what the
client gets for a line is the reply to it. `ReplyRelayed`. These three are
claimed until a read has ended in the middle of a reply (`torn`): the code takes
one read for one reply, and after such a read the rest of it is taken for the
next reply. `SessionEnds` needs no such condition. Four lines are EHLO, DATA,
the dot and one more, every mode change and back.

**relay** (`MCRelay`, four bytes each way, buffers of two). `ImplementsDuplex`:
both loops and the hand-over from the first packet implement `Duplex` under the
refinement mapping pipe = written, read and received bytes. `SerialDelivers`:
while both peers keep reading, `forward_serialised` gets every byte across,
unless the other stream ends or its sender receives no more; the end of a
stream does not overtake its bytes. That both peers keep reading is a premise of
the property. Streams are twice as long as a buffer, so every buffer fills.

**relay_stall** (violation, buffers of one byte). The comment on
`forward_serialised` calls it a correct fallback. While it writes one stream it
reads neither, so when both receive buffers are full, for instance because the
backend reads again only after it has sent its answer, nothing moves any more.
This loop is what normally runs: the adapter's cache holds an `Arc` of the
connection, so `Arc::try_unwrap` fails.

**routing** (`MCRouting`, two tasks, time 0..5, cache times to live around the
one built into the cache, addresses on either side of the end of a blocked
range). `OnlyValidated`: with validation on, what `route` returns is an address
outside every reserved range, also when it comes out of a cache.
`DialsChecked`: the IPv4 address and port that the servers split off the result
are those that were checked. `BoundedStaleness`: what `route` returns was true
at most the two times to live and one DNS timeout ago, although concurrent
misses overwrite each other; the time to live of the DNS cache is the one it was
built with (see **set_ttl**). The assumption `BlocksTheRanges`, which TLC
evaluates before the run, compares `is_blocked_ip` with the ranges its comments
name, in both directions, for all leading octets and segments.

**set_ttl** (violation, `MCRouting` with one task). `dns::set_ttl` is documented
to take effect for future cache entries. The cache reads the time to live when
it is first used and keeps it.

### Both

**servers** (`ServerProcess`). A process runs one of four servers, chosen at the
start; their properties need no other state than their own.

- *R HTTP pool* (`HttpPool`, two requests, one permit): `TypeOK`,
  `PermitsConserved`, `PooledWithinSize`, `ClientExclusive` (a client is with
  one request or once in the deque), `OwnResponse` (no request is answered with
  another's response, although clients are recycled after timeouts and
  cancellations) and `RequestEnds`. Two requests for one permit give waiting,
  overflow clients and recycling.
- *P TCP event server* (`SwooleTcp`, two packets, sockmap on). `InOrder`: a
  client that waits until its packet is passed on before it sends more has one
  backend, which gets each packet once and in order, by way of user space or of
  the kernel. `PairIsWhole`: adapter and loader agree on the pair, which does
  not outlive the cached client; the kernel has both its entries.
  `ReaderEnds`: the coroutine with the untimed `recv` ends when such a client
  has gone. Two packets are the one that dials and one that finds the
  connection; the theorems are about any number.
- *P TCP coroutine server* (`CoroutineTcp`, two sessions, two object ids).
  `DialsOwnBackend`: a session uses the connection it dialed, although ids are
  handed out again. `NothingLeft`: after its handler has returned a session has
  no entry in the cache and no open socket, and `connections` counts the
  handlers that run. `SessionEnds`: handler and relay both end when a peer has
  closed, neither waits for the other for good, except that the relay's send,
  which has no timeout, may wait for a client that neither reads nor closes.
- *P HTTP handler* (`SwooleHttp`, two requests, Channels of one slot).
  `ResponseIsOwn`, `Accounted` (a connected client is with one request or in
  one Channel), `Answered`.

### PHP SMTP

**swoole_smtp** (`SwooleSmtp`, three packets of one line of any kind, or one of
three pairs of lines: a pipelined DATA, the end of a message, a bare EHLO;
replies in one piece or two). `ModeAgreement` and `OwnReply`, until two lines
share a packet or a read ends without a reply or inside one (`plain`);
`NothingLeft`: no backend connection outlives its client, also if `onClose` ran
during the dial; `SessionEnds`. Three packets are EHLO, DATA and the dot, the
mode changed and changed back, or EHLO and what follows it in pairs; the
theorems are about sessions of any length.

### Where a claim stops

Some properties hold only under a condition that is part of their statement.
The conditions are the code's, not the model's: the runs include the behaviours
that break them.

- `InOrder` is about clients that wait (`~eager`). A packet that arrives while
  another is being routed, dialed for or sent starts a handler of its own. Such a
  client may be given two backends, or have the initial data of one packet sent
  in place of another; and two coroutines that send on one socket at a time are
  an error of Swoole's that ends the worker (`SendsTwice`).
- `InOrder` and the kernel's part of `PairIsWhole` end with `mispaired`.
  `insertPair` takes the server's `$fd` for a file descriptor of the process.
  It is a connection id, and the socket of that number may be the client's, some
  other one, or none. Adapter and loader agree all the same. Swoole does not
  give ids out again, so that a client cached after its `onClose` stays in the
  adapter's map for good.
- `ReaderEnds` speaks of the same clients as `InOrder`.
- `ModeAgreement` and `OwnReply` of `SmtpSession`: after a torn reply.
- The same two of `SwooleSmtp`: the tests for DATA and for the dot compare the
  whole packet, so that a dot that arrives together with the last line of the
  message is not seen; one read is taken for one reply, so that the second piece
  of a reply answers the next command; and a read that times out does not end
  the session, so that a late reply does too. `recv(8192)` gives 8192 as the
  timeout, in seconds, not as a size.
- `NothingLeft` of `SwooleSmtp` says that nothing stays open once the server has
  let go of it. PHP's reference counting closes what the code forgets, so the
  property could fail only through something that still refers to the socket.
- `SessionEnds` of `CoroutineTcp`: a client that neither reads nor closes.
- `SerialDelivers`: the first stream to end is the end of the session, and what
  is still to come in the other is lost.
- `HandledAsConfigured` compares protocol, port, validation, endpoint and
  sockmap; the timeouts and sizes of a configuration are not told apart.
- `SessionEnds` of `TcpServer`: `wait_for_close` looks at the client only, so a
  session behind the sockmap outlives its backend.
- `DialsChecked`: an IPv6 address that DNS has given is checked, and its text is
  then split at its first colon, so that something else is dialed: a text such as
  `2001`, which is no address to Rust's parser but which the system's resolver
  takes for an IPv4 one. The property says nothing of such results.
- `ClientServed`: accepts fail finitely often (`MaxErrors`); the HTTP and SMTP
  loops retry at once, the TCP loop after 50 ms. A worker whose
  `worker_start` hook panics closes its listener and serves nobody, while the
  others go on.
- `ShutsDown` is about the process. A program that embeds a server and whose
  `start` fails keeps the accept loops that were already spawned.
- `HttpPool`: requests that time out waiting for a permit dial clients outside
  the semaphore; the pool bounds idle clients and permit holders, not all live
  clients, although the comment at `pool.rs` 54-55 says so.

## 4. Fairness

Weak fairness, and only of the proxy's own steps: the runtime resumes a task or
coroutine whose wait is over, and a wait with a timeout comes to an end.
Nothing is assumed of clients or backends, with two exceptions. Where the code
waits without a timeout (`wait_for_close`, the relays' reads and sends), the
liveness properties are about what happens once a peer has closed, and the step
that notices it is fair because the kernel reports it; the coroutine relay's
send to its client may wait for ever. In `Relay`, where the properties are about
bytes that reach the far end, the client reads, and the backend sends what it
has to say and then reads; that both keep reading throughout is a premise of
`SerialDelivers`, and `KeepsMoving` has none. In `ServerProcess` what is fair to
a server that does not run is never enabled. In `HttpServer` the main task, the
accept loops and the task of the request are fair, and a hook is assumed to
return or panic; that a client arrives, that an accept fails and that an
interrupt comes is not. `Routing` states no fairness and has no liveness
property; deadlock is not checked there because the clock is bounded.

## 5. The proofs

TLAPS proves, for every value of the constants that the named assumptions of
the modules allow (any number of sessions, requests, packets, clients,
listeners, ids and fd numbers; any pool, buffer, read and stream size; any
length of an SMTP session; every body, address, time to live and environment):

| Theorem | Statement |
|---|---|
| `TcpServerProofs!TypeCorrect` | `Spec => []TypeOK` |
| `TcpServerProofs!BackendIsExclusive` | `Spec => []ExclusiveBackend` |
| `TcpServerProofs!NothingLeaks` | `Spec => []EntriesHaveOwner` |
| `TcpServerProofs!KernelPairsAreOwn` | `Spec => []KernelJoinsOwnPair` |
| `HttpPoolProofs!TypeCorrect` | `PoolSpec => []TypeOK` |
| `HttpPoolProofs!ClientsAreExclusive` | `PoolSpec => []ClientExclusive` |
| `HttpPoolProofs!ResponsesAreOwn` | `PoolSpec => []OwnResponse` |
| `HttpPoolProofs!PermitsAreConserved` | `PoolSpec => []PermitsConserved` |
| `HttpPoolProofs!PoolIsBounded` | `PoolSpec => []PooledWithinSize` |
| `RoutingSmtpProofs!ResultsAreValidated` | `RoutingSpec => []OnlyValidated` |
| `RoutingSmtpProofs!CheckedIsDialed` | `RoutingSpec => []DialsChecked` |
| `RoutingSmtpProofs!StalenessIsBounded` | `RoutingSpec => []BoundedStaleness` |
| `StartupProofs!AdapterIsConfigured` | `StartupSpec => []HandledAsConfigured` |
| `StartupProofs!TlsFailsClosed` | `StartupSpec => []FailsClosed` |
| `StartupProofs!EveryPortIsServed` | `StartupSpec => []ServesEveryPort` |
| `StartupProofs!BodiesAreWhole` | `ServerSpec => []WholeBody` |
| `StartupProofs!ServerIsStartup` | `ServerSpec => StartupSpec` |
| `StartupProofs!ServerAsConfigured` | `ServerSpec => [](HandledAsConfigured /\ FailsClosed /\ ServesEveryPort)` |
| `RelayProofs!RelayImplementsDuplex` | `RelaySpec => ImplementsDuplex` |
| `RoutingSmtpProofs!ModesAgree` | `Spec => []ModeAgreement` |
| `RoutingSmtpProofs!RepliesAreOwn` | `Spec => []OwnReply` |
| `SwooleSmtpProofs!ModesAgree` | `Spec => []ModeAgreement` |
| `SwooleSmtpProofs!RepliesAreOwn` | `Spec => []OwnReply` |
| `SwooleSmtpProofs!NothingIsLeft` | `Spec => []NothingLeft` |
| `RelayProofs!OwnBackendOnly` | `CoroutineSpec => []DialsOwnBackend` |
| `RelayProofs!HandlersLeaveNothing` | `CoroutineSpec => []NothingLeft` |
| `SwooleTcpProofs!PacketsInOrder` | `Spec => []InOrder` |
| `SwooleTcpProofs!PairsAreWhole` | `Spec => []PairIsWhole` |
| `SwooleHttpProofs!ResponsesAreOwn` | `HttpSpec => []ResponseIsOwn` |
| `SwooleHttpProofs!ClientsAccounted` | `HttpSpec => []Accounted` |
| `RelayProofs!KernelAgrees` | a bound IPv4 socket has one key, in the loader and in the BPF program |
| `RelayProofs!KeysAreDistinct` | two sockets of one local address share a key only if they are one connection |

*TcpServer.* The invariant `IInv` adds to the types and to `EntriesHaveOwner`:
open streams have distinct numbers (`FdsDistinct`); `run_client` holds an
`Arc` exactly from `get_connection` to its return (`ArcsHeld`); a connection is
used and cached only under the number of the session that dialed it
(`SameNumber`); the cache slot of a session with a connection is empty or holds
that connection (`SlotAgrees`); the kernel's entries of an open session are for
the connection it holds (`KernelAgrees`). `ExclusiveBackend` follows: two open
clients with one connection would both have its dialer's number, and open
numbers are distinct. It is not inductive by itself, since it says nothing of
the entries a session leaves behind while it closes.

*HttpPool.* `Shape` says where every client is and what is on its wire: a guard
exists exactly while a request holds a client, a client that was not dialed is
nowhere, the only exchange on a lent client's connection is its borrower's, idle
and ready clients have none, and no client is in two places. `OwnResponse` is
part of it. `Counts`, about permits and cardinalities, is inductive relative to
`Shape` and uses the library's theorems on finite sets.

*Routing.* First the pure part: what `is_blocked_ip` lets through is in no
reserved range, for every IPv4 and IPv6 address (`Unblocked4`, `Unblocked6`).
Then an invariant per place where an address rests: a DNS entry is no older than
the timeout when it is stored, an entry of the routing cache has passed
`validate` and was no older than DNS lifetime and timeout when it was stored,
and a task between two awaits has not seen the clock move. The order in which
tasks finish does not matter because the bound is on each entry by itself.

*Startup.* The settings are those of the environment from `Configure` on; the
listeners bound so far are the first of the configured ports; nobody listens
before TLS is settled; a loop that accepts has its adapter, and that adapter
conforms to the environment. The composition `HttpServer` is then shown to
implement `StartupSpec` (every step of it is one of `Startup` or leaves its
variables alone), so that it has these properties too.

The part of `FailsClosed` that is not plain is that the acceptor checks client
certificates: `rustls_server_config` leaves the check out without a CA, and only
`validate` keeps it from being called so.

*HttpRaw.* `WholeBody` is only about the end of a request; `RawInv` says for
each phase where the bytes of the reply are. The reply is one stream, and there
are positions p <= q in it: the handler has read the first p bytes, those up to
q have arrived, the rest is unsent. In the header phase p is less than the
length of the header, so that no read has completed the terminator yet; in the
body phase the body is what lies between the header and p. The declared length
is related to none of these: the body phase ends at it, at the end of the
connection or in an error, and the bytes beyond it that came with the header
are those still in the read buffer. `HeaderFound` is the
lemma that the search for the blank line stops at the end of the header, also
when the body contains one. The rest is about pieces of sequences. The proof is
about `ServerSpec`, where the process may drop the request at any moment.

*Relay.* The invariant says only that nothing is read into a buffer that still
holds bytes to be written. With it each step is a step of `Duplex` on
`Pipe(d)`, or none; most of the proof is about concatenation.

*SmtpSession.* While no reply was torn, what has arrived from the backend is at
most one reply, and to the line in hand (`ProxyInv`); at most one command is on
its way to the backend, and the dot that ends a message is the last line on its
way (`InboxInv`); and at each point of `handle_client` the two modes are related
in one way (`AgreeInv`). `ModeAgreement` alone is not inductive: it does not
exclude that a second command is under way when the first one changes the mode.

*CoroutineTcp.* The cache holds something under an id only while the handler
that has the id is past its dial, and no two running handlers have one id; so
that a handler finds nothing in the cache before its own dial. `held`, the open
sockets and the count follow the program counter.

*SwooleTcp.* A client that waits until its packet is passed on, while connection
ids find the right sockets, is in one of two situations (`IInv`). `Unserved`:
nothing was dialed, and it has sent nothing, or its first packet is in hand, or
that one has failed. `Served`: the only backend is the one dialed for packet 1,
the kernel's table has no entries but those of the pair, and the backend has
been sent the packets 1 to m, where m is, until it is closed, the number of
packets sent less the one that is queued or waits for room. `InOrder` alone
excludes neither a second handler that is about to dial nor a pair in the kernel
while a packet is still queued. A client that does send while a packet is in
hand leaves both situations for good (`eager`), and so does any once an id was
taken for another socket (`mispaired`); of them only the rest of `PairIsWhole`
is claimed, which `Basics` carries.

*SwooleHttp.* `HoldInv` says that a client is with one request or in one slot
of one Channel at most, that a connected one is somewhere, and that one still to
be dialed is nowhere. `WireInv` says what is on a client's connection: nothing,
or the exchange of the one request that holds it and waits. The two are needed
together: a client that two requests held could carry both replies.
`Accounted` counts, so its proof turns the absence of a second place into
cardinalities.

*SwooleSmtp.* As for `SmtpSession`, with one relation of the two modes for each
wait of the handler (`Quiet`, `GreetingShape`, `CommandShape`, `FinalShape`),
all under `plain`, and a place for the second piece of a reply, which a read
either takes with the first or leaves behind, which ends `plain`.
`SessionShape`, which holds of pipelined lines and abandoned
replies as well, says how the table entry, the socket and `onClose` depend on
each other; `NothingLeft` is part of it.

*TupleKey.* Arithmetic on words below 2^16 and 2^32: reading a port in network
order from memory and from the packet's socket gives the same number.

Each proof has a lemma per action or group of alike actions, a theorem that the
invariant holds in every state, and a temporal step per property.

Every invariant that a passing run checks is also proved, and so is the
refinement. Model-checked only are the liveness properties (`SessionEnds`,
`RequestEnds`, `ReplyRelayed`, `SerialDelivers`, `RequestAnswered`,
`ClientServed`, `ShutsDown`, `ReaderEnds`, `Answered`), for which the prover has
no rule of fairness, and that `is_blocked_ip` blocks nothing else than the
ranges its comments name (`BlocksTheRanges`).

## 6. Not modelled

- Socket options: values handed to the kernel whose failure is not acted on.
- TLS handshakes (rustls, Swoole) and the parsing of certificates: a file is
  missing, garbled or good. `is_mysql_ssl_request` has no caller.
- `is_valid_hostname` and the text of requests: outcomes only.
- PHP routing and DNS. The Rust adapter is a port of it; that the two agree is
  not shown. PHP keeps times in whole seconds and asks for IPv4 addresses only.
- Loading BPF objects through FFI or libbpf, and the redirect itself; the key
  the program computes is modelled.
- HTTP/2 and hyper's own connection handling; several backends in one pool
  registry (pools of different backends share nothing).
- PHP start-up, configuration, TLS contexts: values handed to Swoole.
- Several clients of the PHP event and SMTP servers at once: their state is kept
  per connection id, and ids are not given out again. What other clients of the
  event server do to this one's entries in the kernel's table is modelled.
- Tuple keys of IPv6 sockets: `build_tuple_key` reads every address as an IPv4
  one, and `TupleKey` is about IPv4 only.

Some things met while modelling need no run to be seen, and no property is
about them. `env_bool` returns its default for a word it does not know, where
its comment says false. In `server/http/server.rs` a comment says that workers
without port reuse share the first listener; the code binds again, and start
fails. The address of the default endpoints, 127.0.0.1, is one that validation
refuses. `TcpConfig::dns_cache_ttl` is not applied by the Rust server. The
comment in P `Server/TCP/Swoole.php` 323-326 explains the order of the first
send by a program on outgoing messages; `relay.bpf.c` has one on arriving
packets, and the return value of that send is not looked at.

## 7. Possible extensions

1. PHP routing and DNS, with an abstract specification that both adapters
   implement.
2. Two full clients of `SwooleTcp`, each in the other's way in the kernel's table.
3. `TcpServer` within `Startup`, as `HttpRaw` is in `HttpServer`.
