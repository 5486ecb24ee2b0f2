------------------------------ MODULE TcpServer ------------------------------
(***************************************************************************)
(* The life cycle of the sessions of one port of the Rust TCP proxy:       *)
(* handle_connection and run_client (server/tcp/server.rs), the backend    *)
(* connection cache and the sockmap hooks of the adapter (adapter/tcp.rs)  *)
(* and the pair table of the BPF loader (sockmap/linux.rs).                *)
(*                                                                         *)
(* Every accepted client is a task of a multi-threaded runtime, so every   *)
(* access to a shared map is a step of its own.  All of the maps are keyed *)
(* by the client's fd NUMBER, which the kernel hands out again as soon as  *)
(* the client's stream is dropped; client and backend sockets draw their   *)
(* numbers from one table.  A backend connection (an Arc<TcpClient>) is    *)
(* named by the session that dialed it: a session dials at most once.      *)
(*                                                                         *)
(* Bytes are not modelled here, only which connection they would go to.    *)
(***************************************************************************)

CONSTANTS
    Session,        \* the clients that may connect
    Fd,             \* the fd numbers the process may use for sockets
    None,
    TlsPort,        \* the port is 5432 and a TLS acceptor is configured
    SockmapLoaded   \* the adapter has a sockmap and it is available

ASSUME ConstantsAssumption ==
    /\ None \notin Session
    /\ None \notin Fd
    /\ TlsPort \in BOOLEAN
    /\ SockmapLoaded \in BOOLEAN

VARIABLES
    pc,              \* pc[s]: the point handle_connection has reached for s
    fd,              \* fd[s]: client_fd, kept after the stream is dropped
    tls,             \* tls[s]: the client side was upgraded to TLS
    held,            \* held[s]: the Arc<TcpClient> that run_client holds
    found,           \* found[s]: the clone that activate_sockmap holds
    bfd,             \* bfd[c]: TcpClient.fd of the connection c
    connections,     \* TcpAdapter.connections
    sockmap_pairs,   \* keys of TcpAdapter.sockmap_pairs (values are unused)
    allocated_pairs, \* Inner.allocated_pairs: fd -> <<client, connection>>
    fwd,             \* peers[key of client s], the connection stored there
    bwd,             \* peers[key of connection c], the client stored there
    sent,            \* sent[s]: the client has sent its first packet
    gone,            \* gone[s]: the client has closed its end
    bgone            \* bgone[c]: the backend has closed its end of c

adapterVars == <<connections, sockmap_pairs>>
kernelVars  == <<allocated_pairs, fwd, bwd>>
peerVars    == <<sent, gone, bgone>>
vars == <<pc, fd, tls, held, found, bfd, adapterVars, kernelVars, peerVars>>

-----------------------------------------------------------------------------
(* Where a session stands.  From "first" to "serial" its TcpStream is      *)
(* alive and its fd number taken; from "drop" on only the number is left.  *)

Dialed  == {"send", "find", "insert", "pair", "wait", "own", "copy", "serial"}
Opened  == {"first", "tls", "lookup", "route", "dial"} \cup Dialed
Closing == {"drop", "unpair", "unmap", "evict"}
PC      == {"idle", "done"} \cup Opened \cup Closing

Open(s) == pc[s] \in Opened

(* The backend connections whose socket is open: one that is being dialed, *)
(* or that an Arc still refers to.                                         *)
LiveConn ==
    {c \in Session : \/ pc[c] = "dial"
                     \/ \E s \in Session : c \in {held[s], found[s]}
                     \/ \E f \in Fd : connections[f] = c}

FreeFd ==
    Fd \ ({fd[s] : s \in {t \in Session : Open(t)}} \cup {bfd[c] : c \in LiveConn})

(* What the kernel still redirects: a sockhash drops an entry when the     *)
(* socket stored in it is closed.                                          *)
Redirects(s, c) == fwd[s] = c /\ c \in LiveConn
Returns(c, s)   == bwd[c] = s /\ Open(s)

Init ==
    /\ pc = [s \in Session |-> "idle"]
    /\ fd = [s \in Session |-> None]
    /\ tls = [s \in Session |-> FALSE]
    /\ held = [s \in Session |-> None]
    /\ found = [s \in Session |-> None]
    /\ bfd = [s \in Session |-> None]
    /\ connections = [f \in Fd |-> None]
    /\ sockmap_pairs = {}
    /\ allocated_pairs = [f \in Fd |-> None]
    /\ fwd = [s \in Session |-> None]
    /\ bwd = [s \in Session |-> None]
    /\ sent = [s \in Session |-> FALSE]
    /\ gone = [s \in Session |-> FALSE]
    /\ bgone = [s \in Session |-> FALSE]

Goto(s, label) == pc' = [pc EXCEPT ![s] = label]

(* run_client returns: its Arc and the client's stream are dropped.        *)
Return(s) ==
    /\ Goto(s, "unpair")
    /\ held' = [held EXCEPT ![s] = None]
    /\ UNCHANGED <<fd, tls, found, bfd, adapterVars, kernelVars, peerVars>>

-----------------------------------------------------------------------------
(* Mistakes of the kind this code invites, for checking that the           *)
(* properties notice them; no action uses these.                           *)

(* The cache is asked for any connection instead of the one under the fd.  *)
LookupByEndpoint(s) ==
    /\ pc[s] = "lookup"
    /\ \/ \E f \in Fd : /\ connections[f] # None
                        /\ held' = [held EXCEPT ![s] = connections[f]]
                        /\ Goto(s, "send")
       \/ Goto(s, "route") /\ UNCHANGED held
    /\ UNCHANGED <<fd, tls, found, bfd, adapterVars, kernelVars, peerVars>>

(* The cache gets the backend's fd in place of the connection.             *)
DialCachesFd(s) ==
    /\ pc[s] = "dial"
    /\ connections' = [connections EXCEPT ![fd[s]] = bfd[s]]
    /\ held' = [held EXCEPT ![s] = s]
    /\ Goto(s, "send")
    /\ UNCHANGED <<fd, tls, found, bfd, sockmap_pairs, kernelVars, peerVars>>

(* The first map update is not rolled back when the second one fails.      *)
InsertPairNoRollback(s) ==
    /\ pc[s] = "insert"
    /\ fwd' = [fwd EXCEPT ![s] = found[s]]
    /\ found' = [found EXCEPT ![s] = None]
    /\ Goto(s, "own")
    /\ UNCHANGED <<fd, tls, held, bfd, adapterVars, allocated_pairs, bwd, peerVars>>

(* close_connection forgets the pair without removing it from the kernel.  *)
UnpairOnly(s) ==
    /\ pc[s] = "unpair"
    /\ sockmap_pairs' = sockmap_pairs \ {fd[s]}
    /\ Goto(s, "evict")
    /\ UNCHANGED <<fd, tls, held, found, bfd, connections, kernelVars, peerVars>>

(* End of stream is taken for an empty packet and the read is repeated.    *)
FirstFailsIgnored(s) == pc[s] = "first" /\ gone[s] /\ UNCHANGED vars

-----------------------------------------------------------------------------
(* The peers.                                                              *)

ClientSend(s) ==
    /\ Open(s) /\ ~sent[s] /\ ~gone[s]
    /\ sent' = [sent EXCEPT ![s] = TRUE]
    /\ UNCHANGED <<pc, fd, tls, held, found, bfd, adapterVars, kernelVars, gone, bgone>>

ClientClose(s) ==
    /\ Open(s) /\ ~gone[s]
    /\ gone' = [gone EXCEPT ![s] = TRUE]
    /\ UNCHANGED <<pc, fd, tls, held, found, bfd, adapterVars, kernelVars, sent, bgone>>

BackendClose(c) ==
    /\ c \in LiveConn /\ pc[c] # "dial" /\ ~bgone[c]
    /\ bgone' = [bgone EXCEPT ![c] = TRUE]
    /\ UNCHANGED <<pc, fd, tls, held, found, bfd, adapterVars, kernelVars, sent, gone>>

-----------------------------------------------------------------------------
(* accept_loop: without a free number accept fails and is tried again.     *)

Accept(s) ==
    /\ pc[s] = "idle"
    /\ \E f \in FreeFd : fd' = [fd EXCEPT ![s] = f]
    /\ Goto(s, "first")
    /\ UNCHANGED <<tls, held, found, bfd, adapterVars, kernelVars, peerVars>>

(* read_some: a packet, or end of stream, or an error.                     *)
ReadFirst(s) ==
    /\ pc[s] = "first" /\ sent[s]
    /\ \/ Goto(s, "lookup")
       \/ TlsPort /\ Goto(s, "tls")
    /\ UNCHANGED <<fd, tls, held, found, bfd, adapterVars, kernelVars, peerVars>>

FirstFails(s) == pc[s] = "first" /\ gone[s] /\ Return(s)

(* The PostgreSQL SSLRequest: the reply, the handshake and the packet that *)
(* follows it all depend on the client.                                    *)
Upgrade(s) ==
    /\ pc[s] = "tls"
    /\ Goto(s, "lookup")
    /\ tls' = [tls EXCEPT ![s] = TRUE]
    /\ UNCHANGED <<fd, held, found, bfd, adapterVars, kernelVars, peerVars>>

UpgradeFails(s) == pc[s] = "tls" /\ Return(s)

-----------------------------------------------------------------------------
(* get_connection: the cache lookup, the route, the dial and the insert.   *)

Lookup(s) ==
    /\ pc[s] = "lookup"
    /\ IF connections[fd[s]] # None
       THEN /\ held' = [held EXCEPT ![s] = connections[fd[s]]]
            /\ Goto(s, "send")
       ELSE /\ Goto(s, "route")
            /\ UNCHANGED held
    /\ UNCHANGED <<fd, tls, found, bfd, adapterVars, kernelVars, peerVars>>

Route(s) ==
    /\ pc[s] = "route"
    /\ \E f \in FreeFd : bfd' = [bfd EXCEPT ![s] = f]
    /\ Goto(s, "dial")
    /\ UNCHANGED <<fd, tls, held, found, adapterVars, kernelVars, peerVars>>

Dial(s) ==
    /\ pc[s] = "dial"
    /\ connections' = [connections EXCEPT ![fd[s]] = s]
    /\ held' = [held EXCEPT ![s] = s]
    /\ Goto(s, "send")
    /\ UNCHANGED <<fd, tls, found, bfd, sockmap_pairs, kernelVars, peerVars>>

(* No route, no fd for the socket, refused, timed out, set_nodelay failed. *)
GetConnectionFails(s) == pc[s] \in {"route", "dial"} /\ Return(s)

(* send_to_backend; a TLS session skips the sockmap.                       *)
Send(s) ==
    /\ pc[s] = "send"
    /\ Goto(s, IF tls[s] THEN "own" ELSE "find")
    /\ UNCHANGED <<fd, tls, held, found, bfd, adapterVars, kernelVars, peerVars>>

SendFails(s) == pc[s] = "send" /\ bgone[held[s]] /\ Return(s)

-----------------------------------------------------------------------------
(* activate_sockmap: find the connection, insert_pair, record the pair.    *)

Find(s) ==
    /\ pc[s] = "find"
    /\ IF SockmapLoaded /\ connections[fd[s]] # None
       THEN /\ found' = [found EXCEPT ![s] = connections[fd[s]]]
            /\ Goto(s, "insert")
       ELSE /\ Goto(s, "own")
            /\ UNCHANGED found
    /\ UNCHANGED <<fd, tls, held, bfd, adapterVars, kernelVars, peerVars>>

(* Both map updates and the table entry, under the lock of the loader.     *)
InsertPair(s) ==
    /\ pc[s] = "insert"
    /\ fwd' = [fwd EXCEPT ![s] = found[s]]
    /\ bwd' = [bwd EXCEPT ![found[s]] = s]
    /\ allocated_pairs' = [allocated_pairs EXCEPT ![fd[s]] = <<s, found[s]>>]
    /\ Goto(s, "pair")
    /\ UNCHANGED <<fd, tls, held, found, bfd, adapterVars, peerVars>>

(* No key for a socket, or a failed update (the first one is rolled back). *)
InsertPairFails(s) ==
    /\ pc[s] = "insert"
    /\ found' = [found EXCEPT ![s] = None]
    /\ Goto(s, "own")
    /\ UNCHANGED <<fd, tls, held, bfd, adapterVars, kernelVars, peerVars>>

RecordPair(s) ==
    /\ pc[s] = "pair"
    /\ sockmap_pairs' = sockmap_pairs \cup {fd[s]}
    /\ found' = [found EXCEPT ![s] = None]
    /\ Goto(s, "wait")
    /\ UNCHANGED <<fd, tls, held, bfd, connections, kernelVars, peerVars>>

(* wait_for_close: one read of the client, which ends on end of stream, on *)
(* an error and on a byte that was not redirected.  It owns the stream, so *)
(* the fd is free before run_client drops its Arc.                         *)
WaitForClose(s) ==
    /\ pc[s] = "wait"
    /\ Goto(s, "drop")
    /\ UNCHANGED <<fd, tls, held, found, bfd, adapterVars, kernelVars, peerVars>>

DropArc(s) == pc[s] = "drop" /\ Return(s)

-----------------------------------------------------------------------------
(* bidirectional_copy: Arc::try_unwrap succeeds only on the last Arc.      *)

SoleReference(s) ==
    /\ \A t \in Session \ {s} : held[s] \notin {held[t], found[t]}
    /\ \A f \in Fd : connections[f] # held[s]

TryUnwrap(s) ==
    /\ pc[s] = "own"
    /\ Goto(s, IF SoleReference(s) THEN "copy" ELSE "serial")
    /\ UNCHANGED <<fd, tls, held, found, bfd, adapterVars, kernelVars, peerVars>>

(* copy_bidirectional and forward_serialised end on the end of the client, *)
(* on the end of the backend, or on an error of either.                    *)
RelayEnds(s) ==
    /\ pc[s] \in {"copy", "serial"}
    /\ gone[s] \/ bgone[held[s]]
    /\ Return(s)

-----------------------------------------------------------------------------
(* close_connection, called with the fd number of a stream that is gone.   *)

Unpair(s) ==
    /\ pc[s] = "unpair"
    /\ sockmap_pairs' = sockmap_pairs \ {fd[s]}
    /\ Goto(s, IF fd[s] \in sockmap_pairs THEN "unmap" ELSE "evict")
    /\ UNCHANGED <<fd, tls, held, found, bfd, connections, kernelVars, peerVars>>

(* remove_pair deletes the two keys the table has for the fd, if any.      *)
RemovePair(s) ==
    /\ pc[s] = "unmap"
    /\ LET keys == allocated_pairs[fd[s]]
       IN  IF keys = None
           THEN UNCHANGED kernelVars
           ELSE /\ fwd' = [fwd EXCEPT ![keys[1]] = None]
                /\ bwd' = [bwd EXCEPT ![keys[2]] = None]
                /\ allocated_pairs' = [allocated_pairs EXCEPT ![fd[s]] = None]
    /\ Goto(s, "evict")
    /\ UNCHANGED <<fd, tls, held, found, bfd, adapterVars, peerVars>>

Evict(s) ==
    /\ pc[s] = "evict"
    /\ connections' = [connections EXCEPT ![fd[s]] = None]
    /\ Goto(s, "done")
    /\ UNCHANGED <<fd, tls, held, found, bfd, sockmap_pairs, kernelVars, peerVars>>

-----------------------------------------------------------------------------
Peer(s) == ClientSend(s) \/ ClientClose(s) \/ BackendClose(s)

Task(s) ==
    \/ ReadFirst(s) \/ FirstFails(s) \/ Upgrade(s) \/ UpgradeFails(s)
    \/ Lookup(s) \/ Route(s) \/ Dial(s) \/ GetConnectionFails(s)
    \/ Send(s) \/ SendFails(s)
    \/ Find(s) \/ InsertPair(s) \/ InsertPairFails(s) \/ RecordPair(s)
    \/ WaitForClose(s) \/ DropArc(s)
    \/ TryUnwrap(s) \/ RelayEnds(s)
    \/ Unpair(s) \/ RemovePair(s) \/ Evict(s)

(* Every client has come and gone.                                         *)
Finished == (\A s \in Session : pc[s] = "done") /\ UNCHANGED vars

Next == (\E s \in Session : Peer(s) \/ Accept(s) \/ Task(s)) \/ Finished

Spec == Init /\ [][Next]_vars

(* The runtime keeps polling a task that can go on by itself: dials and    *)
(* lookups have timeouts, the maps are never locked across an await.       *)
Unaided(s) ==
    \/ ReadFirst(s) \/ FirstFails(s)
    \/ Lookup(s) \/ Route(s) \/ Dial(s) \/ GetConnectionFails(s)
    \/ Find(s) \/ InsertPair(s) \/ InsertPairFails(s) \/ RecordPair(s)
    \/ DropArc(s) \/ TryUnwrap(s)
    \/ Unpair(s) \/ RemovePair(s) \/ Evict(s)

(* A read or write that waits for a peer without a timeout is only sure to *)
(* end once the peers it waits for have closed.                            *)
Released(s) ==
    \/ UpgradeFails(s) /\ gone[s]
    \/ WaitForClose(s) /\ gone[s]
    \/ Send(s) /\ bgone[held[s]]
    \/ SendFails(s)
    \/ RelayEnds(s) /\ gone[s] /\ bgone[held[s]]

FairSpec == Spec /\ \A s \in Session : WF_vars(Unaided(s)) /\ WF_vars(Released(s))

-----------------------------------------------------------------------------
(* Properties.                                                             *)

Conn == Session \cup {None}

(* Every variable stays within its type: the maps hold fds and connections *)
(* of this process and a program counter names a point of the handler.     *)
TypeOK ==
    /\ pc \in [Session -> PC]
    /\ fd \in [Session -> Fd \cup {None}]
    /\ tls \in [Session -> BOOLEAN]
    /\ held \in [Session -> Conn]
    /\ found \in [Session -> Conn]
    /\ bfd \in [Session -> Fd \cup {None}]
    /\ connections \in [Fd -> Conn]
    /\ sockmap_pairs \in SUBSET Fd
    /\ allocated_pairs \in [Fd -> (Session \X Session) \cup {None}]
    /\ fwd \in [Session -> Conn]
    /\ bwd \in [Session -> Conn]
    /\ sent \in [Session -> BOOLEAN]
    /\ gone \in [Session -> BOOLEAN]
    /\ bgone \in [Session -> BOOLEAN]

(* Two clients whose streams are open never use one backend connection:    *)
(* run_client has the Arc of get_connection to itself, although the cache  *)
(* is keyed by a number that outlives the client (server.rs 269-282).      *)
ExclusiveBackend ==
    \A s, t \in Session :
        s # t /\ Open(s) /\ Open(t) /\ held[s] # None => held[s] # held[t]

(* Nothing is left in a map of the adapter or of the loader for good: some *)
(* session on that fd is still to run the step of close_connection that    *)
(* removes the entry, however the closes of two sessions interleave.       *)
EntriesHaveOwner ==
    \A f \in Fd :
        LET At(labels) == \E s \in Session : fd[s] = f /\ pc[s] \in labels
        IN  /\ connections[f] # None => At(Dialed \cup Closing)
            /\ f \in sockmap_pairs => At({"wait", "drop", "unpair"})
            /\ allocated_pairs[f] # None =>
                   f \in sockmap_pairs \/ At({"pair", "unmap"})

(* The kernel never joins a client to a connection it does not use, nor    *)
(* takes bytes from a session that copies them itself: what insert_pair,   *)
(* remove_pair and closed sockets leave in the sockhash redirects an open  *)
(* client only to the connection its session holds, and back, and only     *)
(* once activate_sockmap has taken (linux.rs 70-117, server.rs 272-282).   *)
KernelJoinsOwnPair ==
    \A s, c \in Session :
        Open(s) /\ (Redirects(s, c) \/ Returns(c, s)) =>
            held[s] = c /\ pc[s] \in {"pair", "wait"}

(* A session gives its number back and stops: once its client has closed   *)
(* and so has the backend of any connection it holds, it reaches the end   *)
(* of close_connection.                                                    *)
SessionEnds ==
    \A s \in Session :
        <>[](gone[s] /\ (held[s] # None => bgone[held[s]])) => <>(pc[s] = "done")

(* What the documentation of get_connection promises: the first call for a *)
(* client dials its own backend (adapter/tcp.rs 135-137).                  *)
DialsOwnBackend == \A s \in Session : held[s] \in {None, s}
=============================================================================
