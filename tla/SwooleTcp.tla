------------------------------ MODULE SwooleTcp ------------------------------
(***************************************************************************)
(* One client of the event-driven PHP TCP server: the onReceive, onClose   *)
(* and forward callbacks of Server/TCP/Swoole.php over the connection      *)
(* cache of Adapter/TCP.php and the pair table of Sockmap/Loader.php.      *)
(*                                                                         *)
(* A worker is one thread, and every callback a coroutine of it: other     *)
(* callbacks run only while one waits, which onReceive does in the route   *)
(* and in the dial of getConnection, and in a send while the buffer of the *)
(* socket is full.  The client's packets are numbered; the coroutine of    *)
(* onReceive for packet n is named n, and so is the backend connection it  *)
(* dials.                                                                  *)
(*                                                                         *)
(* The server's fds are connection ids that it does not give out again, so *)
(* clients share only the kernel's table of pairs.  insertPair takes a     *)
(* connection id for a file descriptor of the process: the socket it finds *)
(* may be the client's own, another one, or none.  mispaired says that     *)
(* some call has found another one.                                        *)
(***************************************************************************)
EXTENDS Naturals, Sequences

CONSTANTS
    MaxPackets,     \* bound on the packets the client sends
    Sockmap,        \* the worker has loaded the sockmap
    Own, Other,     \* the client's accepted socket, and a stranger's
    None

ASSUME SwooleAssumption ==
    /\ MaxPackets \in Nat \ {0}
    /\ Sockmap \in BOOLEAN
    /\ Own \notin Nat /\ Other \notin Nat /\ None \notin Nat
    /\ Own # Other /\ None \notin {Own, Other}
    /\ None \notin [near : {Own, Other}, far : Nat]

Packet == 1..MaxPackets
Socket == Packet \cup {Own}

VARIABLES
    sent,           \* the number of packets the client has sent
    queue,          \* packets received whose onReceive has not begun
    eager,          \* the client sent while a packet was still in hand
    pc,             \* pc[n]: where onReceive for packet n is
    target,         \* target[n]: the backend that it is sending on
    exist,          \* $server->exist($fd)
    told,           \* onClose has been called
    registered,     \* $this->connections[$fd] is set
    backend,        \* the two fields of that Connection object
    backendSocket,
    connections,    \* $adapter->connections[$fd]
    initialData,    \* $adapter->initialData[$fd], the packet it was made of
    sockmapPairs,   \* $adapter->sockmapPairs[$fd]
    allocatedPairs, \* the loader's entry for $fd, the two sockets of the pair
    peers,          \* the kernel's table: where what arrives on a socket goes
    mispaired,      \* a connection id was taken for the wrong socket
    wire,           \* wire[b]: what was sent on backend connection b
    closed,         \* backend connections that either end has closed
    reader          \* reader[n]: the backend that the forward coroutine
                    \* which onReceive for n started is reading

clientVars  == <<sent, queue, eager>>
runVars     == <<pc, target>>
serverVars  == <<registered, backend, backendSocket>>
adapterVars == <<connections, initialData>>
pairVars    == <<sockmapPairs, allocatedPairs, peers, mispaired>>
vars == <<clientVars, runVars, exist, told, serverVars, adapterVars, pairVars,
          wire, closed, reader>>

Init ==
    /\ sent = 0 /\ queue = <<>> /\ eager = FALSE
    /\ pc = [n \in Packet |-> "new"] /\ target = [n \in Packet |-> None]
    /\ exist = TRUE /\ told = FALSE
    /\ registered = FALSE /\ backend = None /\ backendSocket = None
    /\ connections = None /\ initialData = None
    /\ sockmapPairs = None /\ allocatedPairs = None
    /\ peers = [s \in Socket |-> None] /\ mispaired = FALSE
    /\ wire = [b \in Packet |-> <<>>]
    /\ closed = {}
    /\ reader = [n \in Packet |-> None]

Waiting(n) == pc[n] \in {"route", "dial", "initial", "send"}
InHand     == queue # <<>> \/ \E n \in Packet : Waiting(n)
Sending(b) == \E n \in Packet : target[n] = b

(* The backend connections PHP still refers to; the socket of another one  *)
(* is closed with its last reference, and the kernel forgets it.           *)
Held ==
    ({connections, backend, backendSocket} \cup {reader[n] : n \in Packet}
        \cup {target[n] : n \in Packet}) \ {None}

-----------------------------------------------------------------------------
(* Mistakes of the kind this code invites, for checking that the           *)
(* properties notice them; no action uses these.                           *)

(* The fast path is lost: every packet goes through getConnection, which   *)
(* finds the client, and the initial data is sent again.                   *)
GetConnectionAlways(n) ==
    /\ registered' = TRUE
    /\ \/ /\ connections # None /\ ~Sending(connections)
          /\ backend' = connections
          /\ pc' = [pc EXCEPT ![n] = "initial"] /\ target' = [target EXCEPT ![n] = connections]
       \/ /\ connections = None
          /\ pc' = [pc EXCEPT ![n] = "route"] /\ UNCHANGED <<target, backend>>
    /\ UNCHANGED <<exist, backendSocket, adapterVars, pairVars, reader>>

(* closeConnection forgets the client before it looks for the pair.        *)
CloseConnectionFirst ==
    /\ connections' = None /\ initialData' = None
    /\ UNCHANGED pairVars

(* onClose relies on Client::close to end the forward coroutine.           *)
OnCloseKeepsSocket ==
    /\ ~exist /\ ~told
    /\ told' = TRUE /\ registered' = FALSE
    /\ connections' = None /\ initialData' = None
    /\ sockmapPairs' = None /\ allocatedPairs' = None
    /\ peers' = [s \in Socket |-> None] /\ UNCHANGED mispaired
    /\ backend' = None /\ backendSocket' = None
    /\ UNCHANGED <<clientVars, runVars, exist, wire, closed, reader>>

-----------------------------------------------------------------------------
(* The client, the backends and the other clients.  While a socket is in   *)
(* the table the kernel takes what arrives on it past the server.          *)

ClientSend ==
    /\ exist /\ sent < MaxPackets
    /\ sent' = sent + 1
    /\ eager' = (eager \/ InHand)
    /\ IF peers[Own] # None
       THEN /\ wire' = IF peers[Own] \in Held \ closed
                       THEN [wire EXCEPT ![peers[Own]] = Append(@, sent + 1)] ELSE wire
            /\ UNCHANGED queue
       ELSE /\ queue' = Append(queue, sent + 1)
            /\ UNCHANGED wire
    /\ UNCHANGED <<runVars, exist, told, serverVars, adapterVars, pairVars, closed, reader>>

(* insertPair or removePair for another client, whose connection id is the *)
(* number of this one's socket; the first such call is followed.           *)
OtherPairs ==
    /\ Sockmap /\ ~mispaired
    /\ \E t \in {Other, None} : peers' = [peers EXCEPT ![Own] = t]
    /\ mispaired' = TRUE
    /\ UNCHANGED <<clientVars, runVars, exist, told, serverVars, adapterVars, sockmapPairs,
                   allocatedPairs, wire, closed, reader>>

ClientClose ==
    /\ exist /\ exist' = FALSE
    /\ UNCHANGED <<clientVars, runVars, told, serverVars, adapterVars, pairVars, wire, closed, reader>>

BackendClose(b) ==
    /\ b \in Held \ closed
    /\ closed' = closed \cup {b}
    /\ UNCHANGED <<clientVars, runVars, exist, told, serverVars, adapterVars, pairVars, wire, reader>>

-----------------------------------------------------------------------------
(* The end of onReceive, from the return of getConnection on: the initial  *)
(* data, activateSockmap, and forward if that did not take.  What the two  *)
(* look up may have changed during the send.                               *)

(* A second send on a connection whose first still waits is a fatal error  *)
(* of Swoole: the worker is gone, with all it had.                         *)
WorkerExits ==
    /\ exist' = FALSE /\ told' = TRUE /\ queue' = <<>>
    /\ pc' = [n \in Packet |-> "over"] /\ target' = [n \in Packet |-> None]
    /\ registered' = FALSE /\ backend' = None /\ backendSocket' = None
    /\ connections' = None /\ initialData' = None
    /\ sockmapPairs' = None /\ allocatedPairs' = None
    /\ peers' = [s \in Socket |-> None]
    /\ reader' = [n \in Packet |-> None]
    /\ UNCHANGED <<sent, eager, mispaired, wire, closed>>

Send(n, b, label) ==
    /\ ~Sending(b)
    /\ pc' = [pc EXCEPT ![n] = label] /\ target' = [target EXCEPT ![n] = b]

Connected(n, b) == backend' = b /\ Send(n, b, "initial")

(* Both directions, or neither when the second update fails.  The address  *)
(* of a closed socket cannot be asked for.                                 *)
InsertPair(b) ==
    /\ b \notin closed
    /\ \E near \in {Own, Other} :
           /\ near = Own => ~told
           /\ allocatedPairs' = [near |-> near, far |-> b]
           /\ peers' = [s \in Socket |-> IF s = b THEN near ELSE IF s = near THEN b ELSE peers[s]]
           /\ mispaired' = (mispaired \/ near # Own)

Activate ==
    /\ Sockmap /\ connections # None
    /\ InsertPair(connections)
    /\ sockmapPairs' = connections

(* The coroutine looks for the client at once, then waits in its recv; if  *)
(* there is no backend or its socket cannot be exported the client is      *)
(* closed.                                                                 *)
Forward(n) ==
    \/ /\ backend # None
       /\ backendSocket' = backend
       /\ reader' = IF exist THEN [reader EXCEPT ![n] = backend] ELSE reader
       /\ UNCHANGED exist
    \/ /\ exist' = FALSE
       /\ UNCHANGED <<backendSocket, reader>>

(* The result of the send of the first packet is not looked at.  A new     *)
(* socket has room for it, so only one that is closed refuses it.          *)
InitialSent(n) ==
    /\ pc[n] = "initial"
    /\ wire' = IF target[n] \in closed THEN wire
               ELSE [wire EXCEPT ![target[n]] = Append(@, target[n])]
    /\ pc' = [pc EXCEPT ![n] = "over"] /\ target' = [target EXCEPT ![n] = None]
    /\ \/ Activate /\ UNCHANGED <<exist, backendSocket, reader>>
       \/ Forward(n) /\ UNCHANGED pairVars
    /\ UNCHANGED <<clientVars, told, registered, backend, adapterVars, closed>>

-----------------------------------------------------------------------------
(* onReceive and what it waits for.                                        *)

(* A connection that has its backend; with an active pair the packet is    *)
(* dropped.                                                                *)
PassOn(n) ==
    /\ registered /\ backend # None
    /\ \/ sockmapPairs # None /\ pc' = [pc EXCEPT ![n] = "over"] /\ UNCHANGED target
       \/ sockmapPairs = None /\ Send(n, backend, "send")
    /\ UNCHANGED <<exist, serverVars, adapterVars, pairVars, reader>>

(* A new one: getConnection, which may find the client in the adapter.     *)
GetConnection(n) ==
    /\ ~(registered /\ backend # None)
    /\ registered' = TRUE
    /\ \/ connections # None /\ Connected(n, connections)
       \/ /\ connections = None
          /\ pc' = [pc EXCEPT ![n] = "route"] /\ UNCHANGED <<target, backend>>
    /\ UNCHANGED <<exist, backendSocket, adapterVars, pairVars, reader>>

OnReceive ==
    /\ ~told /\ queue # <<>>
    /\ queue' = Tail(queue)
    /\ PassOn(Head(queue)) \/ GetConnection(Head(queue))
    /\ UNCHANGED <<sent, eager, told, wire, closed>>

(* The send completes, or fails on a closed socket or by a timeout.        *)
Sent(n) ==
    /\ pc[n] = "send"
    /\ wire' = IF target[n] \in closed THEN wire
               ELSE [wire EXCEPT ![target[n]] = Append(@, n)]
    /\ pc' = [pc EXCEPT ![n] = "over"] /\ target' = [target EXCEPT ![n] = None]
    /\ UNCHANGED <<clientVars, exist, told, serverVars, adapterVars, pairVars, closed, reader>>

SendFails(n) ==
    /\ pc[n] = "send"
    /\ exist' = FALSE
    /\ pc' = [pc EXCEPT ![n] = "over"] /\ target' = [target EXCEPT ![n] = None]
    /\ UNCHANGED <<clientVars, told, serverVars, adapterVars, pairVars, wire, closed, reader>>

(* connect looks into the cache again.                                     *)
Routed(n) ==
    /\ pc[n] = "route"
    /\ \/ connections # None /\ Connected(n, connections)
       \/ /\ connections = None
          /\ pc' = [pc EXCEPT ![n] = "dial"] /\ UNCHANGED <<target, backend>>
    /\ UNCHANGED <<clientVars, exist, told, registered, backendSocket, adapterVars, pairVars,
                   wire, closed, reader>>

Dialed(n) ==
    /\ pc[n] = "dial"
    /\ connections' = n /\ initialData' = n
    /\ Connected(n, n)
    /\ UNCHANGED <<clientVars, exist, told, registered, backendSocket, pairVars, wire, closed,
                   reader>>

(* The route, the transformer or the dial throws.                          *)
GetConnectionFails(n) ==
    /\ pc[n] \in {"route", "dial"}
    /\ pc' = [pc EXCEPT ![n] = "over"]
    /\ exist' = FALSE
    /\ UNCHANGED <<clientVars, target, told, serverVars, adapterVars, pairVars, wire, closed,
                   reader>>

(* onReceive, or connect, comes to send where another coroutine waits.     *)
SendsTwice ==
    /\ \/ /\ ~told /\ queue # <<>>
          /\ IF registered /\ backend # None
             THEN sockmapPairs = None /\ Sending(backend)
             ELSE connections # None /\ Sending(connections)
       \/ \E n \in Packet : pc[n] = "route" /\ connections # None /\ Sending(connections)
    /\ WorkerExits

-----------------------------------------------------------------------------
(* The forward coroutine leaves its loop when recv returns nothing, or     *)
(* when what it returns can no longer be sent to the client.               *)
ForwardEnds(n) ==
    /\ reader[n] # None
    /\ reader[n] \in closed \/ ~exist
    /\ reader' = [reader EXCEPT ![n] = None]
    /\ exist' = FALSE
    /\ UNCHANGED <<clientVars, runVars, told, serverVars, adapterVars, pairVars, wire, closed>>

RemovePair ==
    /\ allocatedPairs' = None
    /\ peers' = [s \in Socket |-> IF s \in {allocatedPairs.near, allocatedPairs.far}
                                  THEN None ELSE peers[s]]
    /\ UNCHANGED mispaired

(* closeConnection: nothing at all if the cache has no client.             *)
CloseConnection ==
    IF connections = None
    THEN UNCHANGED <<adapterVars, pairVars>>
    ELSE /\ connections' = None /\ initialData' = None
         /\ IF sockmapPairs # None
            THEN sockmapPairs' = None /\ RemovePair
            ELSE UNCHANGED pairVars

(* Client::close closes a socket that was not exported.                    *)
Unexported == IF connections \in {backendSocket, sockmapPairs} THEN None ELSE connections

OnClose ==
    /\ ~exist /\ ~told
    /\ told' = TRUE
    /\ IF registered
       THEN /\ registered' = FALSE
            /\ CloseConnection
            /\ closed' = closed \cup ({backendSocket, Unexported} \ {None})
            /\ backend' = None /\ backendSocket' = None
       ELSE UNCHANGED <<serverVars, adapterVars, pairVars, closed>>
    /\ UNCHANGED <<clientVars, runVars, exist, wire, reader>>

-----------------------------------------------------------------------------
Coroutine(n) ==
    \/ Routed(n) \/ Dialed(n) \/ GetConnectionFails(n)
    \/ InitialSent(n) \/ Sent(n) \/ SendFails(n)

(* The client is gone and no coroutine of it is left.                      *)
Finished ==
    /\ told /\ \A n \in Packet : ~Waiting(n) /\ reader[n] = None
    /\ UNCHANGED vars

Next ==
    \/ ClientSend \/ ClientClose
    \/ OnReceive \/ OnClose \/ SendsTwice \/ OtherPairs
    \/ \E n \in Packet : BackendClose(n) \/ Coroutine(n) \/ ForwardEnds(n)
    \/ Finished

Spec == Init /\ [][Next]_vars

(* The worker calls what is due; routes, dials and sends have timeouts.  A *)
(* recv has none: the coroutine wakes for certain only if the socket is    *)
(* closed.                                                                 *)
Fairness ==
    /\ WF_vars(OnReceive) /\ WF_vars(OnClose)
    /\ \A n \in Packet :
           /\ WF_vars(Coroutine(n))
           /\ WF_vars(reader[n] \in closed /\ ForwardEnds(n))

-----------------------------------------------------------------------------
(* Properties.                                                             *)

(* A client that waits until its packet is passed on before it sends more  *)
(* has one backend, which gets every packet once and in order, whether     *)
(* user space or the kernel carries it and wherever onClose or a lost      *)
(* backend comes in between (Swoole.php 284-341), as long as connection    *)
(* ids find the right sockets.                                             *)
InOrder ==
    ~eager /\ ~mispaired =>
        /\ \A b, c \in Packet : wire[b] # <<>> /\ wire[c] # <<>> => b = c
        /\ \A b \in Packet : \E m \in 0..sent : wire[b] = [k \in 1..m |-> k]
        /\ exist /\ backend # None /\ backend \notin closed /\ ~InHand
               => Len(wire[backend]) = sent

(* Whatever the client does, adapter and loader agree on the pair, and it  *)
(* never outlives the cached client, without which closeConnection would   *)
(* not remove it (TCP.php 262-334, Loader.php 209-257).  As long as        *)
(* connection ids find the right sockets the kernel has both its entries,  *)
(* and no others if the client waits for its packets to be passed on.      *)
PairIsWhole ==
    /\ allocatedPairs = None <=> sockmapPairs = None
    /\ allocatedPairs # None =>
          /\ connections # None /\ allocatedPairs.far = sockmapPairs
          /\ ~mispaired => /\ allocatedPairs.near = Own
                           /\ peers[Own] = sockmapPairs /\ peers[sockmapPairs] = Own
    /\ ~eager /\ ~mispaired =>
          \A s \in Socket : peers[s] # None => s \in {Own, sockmapPairs} /\ sockmapPairs # None

(* The coroutine parked on an untimed recv ends once its client has gone,  *)
(* though the backend neither sends nor closes (Swoole.php 418-421): no    *)
(* closing order leaves it behind.                                         *)
ReaderEnds == (~exist /\ ~eager) ~> (\A n \in Packet : reader[n] = None)
=============================================================================
