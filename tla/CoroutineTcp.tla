----------------------------- MODULE CoroutineTcp -----------------------------
(***************************************************************************)
(* The sessions of the coroutine PHP TCP server: handleConnectionData of   *)
(* Server/TCP/Swoole/Coroutine.php, which is two coroutines per client,    *)
(* the handler and a relay from the backend, over the connection cache of  *)
(* Adapter/TCP.php.                                                        *)
(*                                                                         *)
(* The cache is keyed by spl_object_id of the Connection object, a number  *)
(* PHP gives to another object as soon as the handler has returned.  One   *)
(* thread runs everything, so that a step goes from one wait to the next.  *)
(* A backend connection is named by the session that dialed it.            *)
(***************************************************************************)
EXTENDS Integers, FiniteSets

CONSTANTS
    Session,        \* the clients that may connect
    Id,             \* the object ids
    Nobody

ASSUME CoroutineAssumption == IsFiniteSet(Session) /\ Nobody \notin Session

VARIABLES
    handler,        \* handler[s]: what the handler of s waits for
    relay,          \* relay[s]: what its relay coroutine waits for
    id,             \* id[s]: $clientId
    held,           \* held[s]: $backendClient
    done,           \* done[s]: the channel holds the relay's signal
    count,          \* $this->connections
    cache,          \* $adapter->connections
    clientOpen,     \* clientOpen[s]: the proxy has not closed $clientSocket
    backendOpen,    \* backendOpen[c]: nor the $backendSocket of c
    cgone, bgone    \* the client, the backend of c has closed its end

socketVars == <<clientOpen, backendOpen>>
peerVars   == <<cgone, bgone>>
coroutineVars == <<handler, relay, id, held, done, count, cache, socketVars, peerVars>>

Piping == {"initial", "popfirst", "read", "write", "pop"}
Active(s) == handler[s] \in {"first", "route", "dial"} \cup Piping

CoroutineInit ==
    /\ handler = [s \in Session |-> "new"]
    /\ relay = [s \in Session |-> "none"]
    /\ id = [s \in Session |-> Nobody]
    /\ held = [s \in Session |-> Nobody]
    /\ done = [s \in Session |-> FALSE]
    /\ count = 0
    /\ cache = [i \in Id |-> Nobody]
    /\ clientOpen = [s \in Session |-> FALSE]
    /\ backendOpen = [s \in Session |-> FALSE]
    /\ cgone = [s \in Session |-> FALSE]
    /\ bgone = [s \in Session |-> FALSE]

Await(s, label) == handler' = [handler EXCEPT ![s] = label]

(* The handler returns and handleConnection counts it out.                 *)
Returns(s) == Await(s, "over") /\ count' = count - 1

-----------------------------------------------------------------------------
(* Mistakes of the kind this code invites, for checking that the           *)
(* properties notice them; no action uses these.                           *)

(* The handler closes the client only when the relay did not.              *)
PopFirstTrusts(s) ==
    /\ handler[s] = "popfirst"
    /\ cache' = [cache EXCEPT ![id[s]] = Nobody]
    /\ Returns(s)
    /\ UNCHANGED <<relay, id, held, done, socketVars, peerVars>>

(* Nothing but the client itself wakes the handler.                        *)
ClientEndsAlone(s) ==
    /\ handler[s] = "read" /\ cgone[s]
    /\ backendOpen' = [backendOpen EXCEPT ![held[s]] = FALSE]
    /\ Await(s, "pop")
    /\ UNCHANGED <<relay, id, held, done, count, cache, clientOpen, peerVars>>

(* Any cached connection will do for a new client.                         *)
ReadFirstAny(s) ==
    /\ handler[s] = "first" /\ ~cgone[s]
    /\ \/ \E i \in Id : /\ cache[i] # Nobody
                        /\ held' = [held EXCEPT ![s] = cache[i]]
                        /\ relay' = [relay EXCEPT ![s] = "recv"]
                        /\ Await(s, "initial")
       \/ Await(s, "route") /\ UNCHANGED <<relay, held>>
    /\ UNCHANGED <<id, done, count, cache, socketVars, peerVars>>

-----------------------------------------------------------------------------
(* The peers.                                                              *)

ClientHangsUp(s) ==
    /\ Active(s) /\ ~cgone[s]
    /\ cgone' = [cgone EXCEPT ![s] = TRUE]
    /\ UNCHANGED <<handler, relay, id, held, done, count, cache, socketVars, bgone>>

BackendHangsUp(c) ==
    /\ backendOpen[c] /\ ~bgone[c]
    /\ bgone' = [bgone EXCEPT ![c] = TRUE]
    /\ UNCHANGED <<handler, relay, id, held, done, count, cache, socketVars, cgone>>

-----------------------------------------------------------------------------
(* Up to the connection of the backend.                                    *)

Accept(s) ==
    /\ handler[s] = "new"
    /\ \E i \in Id \ {id[t] : t \in {u \in Session : Active(u)}} :
           id' = [id EXCEPT ![s] = i]
    /\ count' = count + 1
    /\ clientOpen' = [clientOpen EXCEPT ![s] = TRUE]
    /\ Await(s, "first")
    /\ UNCHANGED <<relay, held, done, cache, backendOpen, peerVars>>

(* getConnection has returned c: the relay starts and waits for it, the    *)
(* handler writes the first packet.                                        *)
Piped(s, c) ==
    /\ held' = [held EXCEPT ![s] = c]
    /\ relay' = [relay EXCEPT ![s] = "recv"]
    /\ Await(s, "initial")

(* The first packet, and the first look into the cache.                    *)
ReadFirst(s) ==
    /\ handler[s] = "first" /\ ~cgone[s]
    /\ IF cache[id[s]] # Nobody
       THEN Piped(s, cache[id[s]])
       ELSE Await(s, "route") /\ UNCHANGED <<relay, held>>
    /\ UNCHANGED <<id, done, count, cache, socketVars, peerVars>>

(* End of stream, an error, or the timeout of this one read.               *)
FirstFails(s) ==
    /\ handler[s] = "first"
    /\ clientOpen' = [clientOpen EXCEPT ![s] = FALSE]
    /\ Returns(s)
    /\ UNCHANGED <<relay, id, held, done, cache, backendOpen, peerVars>>

(* connect looks into the cache again before it dials.                     *)
RoutedFor(s) ==
    /\ handler[s] = "route"
    /\ IF cache[id[s]] # Nobody
       THEN Piped(s, cache[id[s]])
       ELSE Await(s, "dial") /\ UNCHANGED <<relay, held>>
    /\ UNCHANGED <<id, done, count, cache, socketVars, peerVars>>

DialedFor(s) ==
    /\ handler[s] = "dial"
    /\ cache' = [cache EXCEPT ![id[s]] = s]
    /\ backendOpen' = [backendOpen EXCEPT ![s] = TRUE]
    /\ Piped(s, s)
    /\ UNCHANGED <<id, done, count, clientOpen, peerVars>>

NoConnection(s) ==
    /\ handler[s] \in {"route", "dial"}
    /\ clientOpen' = [clientOpen EXCEPT ![s] = FALSE]
    /\ Returns(s)
    /\ UNCHANGED <<relay, id, held, done, cache, backendOpen, peerVars>>

-----------------------------------------------------------------------------
(* The handler: client to backend.                                         *)

CloseBackend(s, label) ==
    /\ backendOpen' = [backendOpen EXCEPT ![held[s]] = FALSE]
    /\ Await(s, label)
    /\ UNCHANGED <<relay, id, held, done, count, cache, clientOpen, peerVars>>

(* sendAll returns: the first packet, or one of the loop, is written.      *)
Written(s) ==
    /\ handler[s] \in {"initial", "write"}
    /\ backendOpen[held[s]]
    /\ Await(s, "read")
    /\ UNCHANGED <<relay, id, held, done, count, cache, socketVars, peerVars>>

InitialFails(s) == handler[s] = "initial" /\ CloseBackend(s, "popfirst")

(* The signal, or a second without it.                                     *)
PopFirst(s) ==
    /\ handler[s] = "popfirst"
    /\ clientOpen' = [clientOpen EXCEPT ![s] = FALSE]
    /\ cache' = [cache EXCEPT ![id[s]] = Nobody]
    /\ Returns(s)
    /\ UNCHANGED <<relay, id, held, done, backendOpen, peerVars>>

ClientRecv(s) ==
    /\ handler[s] = "read" /\ clientOpen[s] /\ ~cgone[s]
    /\ Await(s, "write")
    /\ UNCHANGED <<relay, id, held, done, count, cache, socketVars, peerVars>>

(* recv has no timeout: it ends with the client or when the relay closes   *)
(* the socket.                                                             *)
ClientEnds(s) ==
    /\ handler[s] = "read" /\ (cgone[s] \/ ~clientOpen[s])
    /\ CloseBackend(s, "pop")

WriteFails(s) == handler[s] = "write" /\ CloseBackend(s, "pop")

PopDone(s) ==
    /\ handler[s] = "pop" /\ done[s]
    /\ done' = [done EXCEPT ![s] = FALSE]
    /\ cache' = [cache EXCEPT ![id[s]] = Nobody]
    /\ Returns(s)
    /\ UNCHANGED <<relay, id, held, socketVars, peerVars>>

-----------------------------------------------------------------------------
(* The relay: backend to client.                                           *)

RelayRecv(s) ==
    /\ relay[s] = "recv" /\ backendOpen[held[s]] /\ ~bgone[held[s]]
    /\ relay' = [relay EXCEPT ![s] = "send"]
    /\ UNCHANGED <<handler, id, held, done, count, cache, socketVars, peerVars>>

RelaySent(s) ==
    /\ relay[s] = "send" /\ clientOpen[s]
    /\ relay' = [relay EXCEPT ![s] = "recv"]
    /\ UNCHANGED <<handler, id, held, done, count, cache, socketVars, peerVars>>

RelayEnds(s) ==
    /\ \/ relay[s] = "recv" /\ (bgone[held[s]] \/ ~backendOpen[held[s]])
       \/ relay[s] = "send" /\ (cgone[s] \/ ~clientOpen[s])
    /\ clientOpen' = [clientOpen EXCEPT ![s] = FALSE]
    /\ done' = [done EXCEPT ![s] = TRUE]
    /\ relay' = [relay EXCEPT ![s] = "over"]
    /\ UNCHANGED <<handler, id, held, count, cache, backendOpen, peerVars>>

-----------------------------------------------------------------------------
Handler(s) ==
    \/ ReadFirst(s) \/ FirstFails(s) \/ RoutedFor(s) \/ DialedFor(s) \/ NoConnection(s)
    \/ Written(s) \/ InitialFails(s) \/ PopFirst(s)
    \/ ClientRecv(s) \/ ClientEnds(s) \/ WriteFails(s) \/ PopDone(s)

Relay(s) == RelayRecv(s) \/ RelaySent(s) \/ RelayEnds(s)

CoroutineFinished ==
    /\ \A s \in Session : handler[s] = "over" /\ relay[s] \in {"none", "over"}
    /\ UNCHANGED coroutineVars

CoroutineNext ==
    \/ \E s \in Session :
           Accept(s) \/ Handler(s) \/ Relay(s) \/ ClientHangsUp(s) \/ BackendHangsUp(s)
    \/ CoroutineFinished

CoroutineSpec == CoroutineInit /\ [][CoroutineNext]_coroutineVars

(* Routes, dials and writes to the backend have timeouts; the reads of the *)
(* two loops and the writes to the client have none, and nobody has to     *)
(* send, read or close.                                                    *)
CoroutineFairness ==
    \A s \in Session :
        /\ WF_coroutineVars(FirstFails(s) /\ cgone[s])
        /\ WF_coroutineVars(RoutedFor(s) \/ DialedFor(s) \/ NoConnection(s))
        /\ WF_coroutineVars(Written(s) \/ InitialFails(s) \/ WriteFails(s))
        /\ WF_coroutineVars(ClientEnds(s))
        /\ WF_coroutineVars(PopFirst(s) \/ PopDone(s))
        /\ WF_coroutineVars(RelayEnds(s))

-----------------------------------------------------------------------------
(* Properties.                                                             *)

(* A client is only ever served by the backend connection dialed for it,   *)
(* although object ids are used again: every way out of the handler that   *)
(* follows a dial empties the cache first (Coroutine.php 181-282).         *)
DialsOwnBackend == \A s \in Session : held[s] \in {Nobody, s}

(* When a handler has returned, on whichever path, both of its sockets are *)
(* closed and the adapter has nothing of it, also when its relay goes on   *)
(* for a while; the connection count of stats() is that of the handlers    *)
(* still running (Coroutine.php 170-178, 207-277).                         *)
NothingLeft ==
    /\ \A s \in Session : handler[s] = "over" =>
          /\ ~clientOpen[s] /\ ~backendOpen[s]
          /\ \A i \in Id : cache[i] # s
    /\ count = Cardinality({s \in Session : Active(s)})

(* The two coroutines of a session never wait for each other for good:     *)
(* when the client or the backend closes, both come to their end though    *)
(* the other peer says nothing more, except that the relay, which sends    *)
(* without a timeout, may wait for ever for a client that neither reads    *)
(* nor closes (Coroutine.php 228-277).                                     *)
SessionEnds ==
    \A s \in Session :
        \/ <>[](relay[s] = "send" /\ ~cgone[s])
        \/ (Active(s) /\ (cgone[s] \/ bgone[s])) ~> (handler[s] = "over" /\ relay[s] # "recv")
=============================================================================
