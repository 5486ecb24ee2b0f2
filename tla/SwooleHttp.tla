----------------------------- MODULE SwooleHttp -----------------------------
(***************************************************************************)
(* The request handler of the PHP HTTP servers (HTTP/Swoole/Handler.php)   *)
(* for one backend: each request runs in a coroutine, takes a client from  *)
(* a Channel or makes one, and puts it back after it has answered.         *)
(* forwardRequest leaves the exchange to Swoole's HTTP client;             *)
(* forwardRawRequest writes and reads the socket of a pooled client        *)
(* itself.  The two have a Channel each.                                   *)
(*                                                                         *)
(* A client is named by the request that made it.  Channel, HTTP client    *)
(* and backend are external.  The backend answers the requests of a        *)
(* connection in order, frames a reply by length or by closing, may stay   *)
(* silent and may close at any time.                                       *)
(***************************************************************************)
EXTENDS Naturals, FiniteSets, Sequences

CONSTANTS
    Incoming,   \* the requests
    PoolSize    \* config->poolSize

VARIABLES
    stage,      \* where the coroutine of a request is
    kind,       \* the request: "pooled", or a raw "get" or "head"
    client,     \* the client a request holds
    got,        \* the pieces of replies that a request has read
    answered,   \* how the request was answered
    pool,       \* the Channels
    up,         \* the proxy's end of a client is connected
    peer,       \* the backend's end is open
    owed,       \* the requests the backend has yet to answer, by client
    replies     \* pieces of replies on their way, by client

connVars == <<up, peer, owed, replies>>
httpVars == <<stage, kind, client, got, answered, pool, connVars>>

Null    == "none"
Kinds   == {"pooled", "get", "head"}
Framing == {"length", "empty", "closing"}
Channel == {"pooled", "raw"}

ASSUME SwooleHttpAssumption == PoolSize \in Nat \ {0} /\ Null \notin Incoming

ChannelOf(r) == IF kind[r] = "pooled" THEN "pooled" ELSE "raw"

HttpInit ==
    /\ stage = [r \in Incoming |-> "new"]
    /\ kind = [r \in Incoming |-> "get"]
    /\ client = [r \in Incoming |-> Null]
    /\ got = [r \in Incoming |-> <<>>]
    /\ answered = [r \in Incoming |-> Null]
    /\ pool = [k \in Channel |-> <<>>]
    /\ up = [c \in Incoming |-> FALSE]
    /\ peer = [c \in Incoming |-> FALSE]
    /\ owed = [c \in Incoming |-> <<>>]
    /\ replies = [c \in Incoming |-> <<>>]

-----------------------------------------------------------------------------
(* The backend.                                                            *)

Piece(r, part, framing) == [of |-> r, part |-> part, framing |-> framing]

ReplyTo(r, framing) ==
    <<Piece(r, "head", framing)>>
        \o IF kind[r] = "head" \/ framing = "empty" THEN <<>> ELSE <<Piece(r, "body", framing)>>

BackendAnswers(c) ==
    /\ peer[c] /\ owed[c] # <<>>
    /\ \E framing \in Framing :
        /\ replies' = [replies EXCEPT ![c] = @ \o ReplyTo(Head(owed[c]), framing)]
        /\ peer' = [peer EXCEPT ![c] = framing # "closing"]
    /\ owed' = [owed EXCEPT ![c] = Tail(@)]
    /\ UNCHANGED <<stage, kind, client, got, answered, pool, up>>

PeerCloses(c) ==
    /\ peer[c]
    /\ peer' = [peer EXCEPT ![c] = FALSE]
    /\ UNCHANGED <<stage, kind, client, got, answered, pool, up, owed, replies>>

-----------------------------------------------------------------------------
(* Mistakes of the kind this code invites, for checking that the           *)
(* properties notice them; no action uses these.                           *)

(* A client whose reply did not come in time is put back.                  *)
RecvFailsReleases(r) ==
    /\ stage[r] \in {"head", "body"}
    /\ replies[client[r]] = <<>>
    /\ answered' = [answered EXCEPT ![r] = "502"]
    /\ stage' = [stage EXCEPT ![r] = "release"]
    /\ UNCHANGED <<kind, client, got, pool, connVars>>

(* Only the backend's closing ends the wait for a reply.                   *)
RecvFailsOnClose(r) ==
    /\ stage[r] \in {"head", "body"}
    /\ replies[client[r]] = <<>> /\ ~peer[client[r]]
    /\ answered' = [answered EXCEPT ![r] = "502"]
    /\ up' = [up EXCEPT ![client[r]] = FALSE]
    /\ client' = [client EXCEPT ![r] = Null]
    /\ stage' = [stage EXCEPT ![r] = "done"]
    /\ UNCHANGED <<kind, got, pool, peer, owed, replies>>

(* A client that the Channel does not take is not closed.                  *)
DiscardForgets(r) ==
    /\ stage[r] = "release"
    /\ up[client[r]] => Len(pool[ChannelOf(r)]) = PoolSize
    /\ client' = [client EXCEPT ![r] = Null]
    /\ stage' = [stage EXCEPT ![r] = "done"]
    /\ UNCHANGED <<kind, got, answered, pool, connVars>>

-----------------------------------------------------------------------------
(* onRequest.                                                              *)

GoOn(r, p) == stage' = [stage EXCEPT ![r] = p]

(* $response->end.                                                         *)
End(r, a) == answered' = [answered EXCEPT ![r] = a]

Opened(c) ==
    /\ up' = [up EXCEPT ![c] = TRUE]
    /\ peer' = [peer EXCEPT ![c] = TRUE]
    /\ owed' = [owed EXCEPT ![c] = <<>>]
    /\ replies' = [replies EXCEPT ![c] = <<>>]

Close(c) ==
    /\ up' = [up EXCEPT ![c] = FALSE]
    /\ peer' = [peer EXCEPT ![c] = FALSE]
    /\ owed' = [owed EXCEPT ![c] = <<>>]
    /\ replies' = [replies EXCEPT ![c] = <<>>]

(* The raw path gives up: 502.                                             *)
BadGateway(r) ==
    /\ Close(client[r])
    /\ End(r, "502")
    /\ client' = [client EXCEPT ![r] = Null]
    /\ GoOn(r, "done")
    /\ UNCHANGED <<kind, got, pool>>

(* A direct response, a bad Host header, or a route that fails.            *)
Rejected(r) ==
    /\ stage[r] = "new"
    /\ End(r, "local")
    /\ GoOn(r, "done")
    /\ UNCHANGED <<kind, client, got, pool, connVars>>

OnRequest(r) ==
    /\ stage[r] = "new"
    /\ \E k \in Kinds : kind' = [kind EXCEPT ![r] = k]
    /\ GoOn(r, "pop")
    /\ UNCHANGED <<client, got, answered, pool, connVars>>

(* $pool->pop: a client, which the raw path replaces if it is not          *)
(* connected, or nothing by the end of poolTimeout.                        *)
PopClient(r) ==
    LET k == ChannelOf(r)
        c == Head(pool[k])
    IN  /\ stage[r] = "pop" /\ pool[k] # <<>>
        /\ pool' = [pool EXCEPT ![k] = Tail(@)]
        /\ IF k = "pooled" \/ up[c]
           THEN client' = [client EXCEPT ![r] = c] /\ GoOn(r, "send")
           ELSE client' = [client EXCEPT ![r] = r] /\ GoOn(r, "dial")
        /\ UNCHANGED <<kind, got, answered, connVars>>

PopTimesOut(r) ==
    /\ stage[r] = "pop" /\ pool[ChannelOf(r)] = <<>>
    /\ client' = [client EXCEPT ![r] = r]
    /\ GoOn(r, IF kind[r] = "pooled" THEN "send" ELSE "dial")
    /\ UNCHANGED <<kind, got, answered, pool, connVars>>

Dial(r) ==
    /\ stage[r] = "dial"
    /\ Opened(client[r])
    /\ GoOn(r, "send")
    /\ UNCHANGED <<kind, client, got, answered, pool>>

DialFails(r) ==
    /\ stage[r] = "dial"
    /\ BadGateway(r)

-----------------------------------------------------------------------------
(* forwardRawRequest, once it has a connected client.                      *)

(* A write to a peer that has closed may still succeed.                    *)
SendRaw(r) ==
    /\ stage[r] = "send" /\ kind[r] # "pooled"
    /\ owed' = [owed EXCEPT ![client[r]] = Append(@, r)]
    /\ GoOn(r, "head")
    /\ UNCHANGED <<kind, client, got, answered, pool, up, peer, replies>>

SendRawFails(r) ==
    /\ stage[r] = "send" /\ kind[r] # "pooled"
    /\ ~peer[client[r]]
    /\ BadGateway(r)

Whole(buffer) == \E i \in DOMAIN buffer : buffer[i].part = "body" \/ buffer[i].framing = "empty"

(* A recv takes what has arrived, one piece or more.  Once the header is   *)
(* complete, a reply without a length is passed on as far as it has come   *)
(* and the client closed; one with a length is read to its end.            *)
Recv(r) ==
    LET c == client[r]
    IN  /\ stage[r] \in {"head", "body"}
        /\ \E k \in 1..Len(replies[c]) :
            LET buffer == got[r] \o SubSeq(replies[c], 1, k)
            IN  /\ got' = [got EXCEPT ![r] = buffer]
                /\ IF buffer[1].framing = "closing"
                   THEN /\ Close(c)
                        /\ End(r, "ok")
                        /\ client' = [client EXCEPT ![r] = Null]
                        /\ GoOn(r, "done")
                   ELSE /\ replies' = [replies EXCEPT ![c] = SubSeq(@, k + 1, Len(@))]
                        /\ IF Whole(buffer)
                           THEN End(r, "ok") /\ GoOn(r, "release")
                           ELSE GoOn(r, "body") /\ UNCHANGED answered
                        /\ UNCHANGED <<client, up, peer, owed>>
        /\ UNCHANGED <<kind, pool>>

(* recv returns nothing: the backend has closed, or the timeout is over.   *)
RecvFails(r) ==
    /\ stage[r] \in {"head", "body"}
    /\ replies[client[r]] = <<>>
    /\ BadGateway(r)

-----------------------------------------------------------------------------
(* forwardRequest, once it has a client.  The HTTP client connects when it *)
(* has to, knows where a reply ends, and closes when an exchange fails;    *)
(* what it then holds for a status is passed on as any other.              *)

Execute(r) ==
    LET c == client[r]
    IN  /\ stage[r] = "send" /\ kind[r] = "pooled"
        /\ up' = [up EXCEPT ![c] = TRUE]
        /\ peer' = [peer EXCEPT ![c] = up[c] => @]
        /\ owed' = [owed EXCEPT ![c] = Append(@, r)]
        /\ GoOn(r, "execute")
        /\ UNCHANGED <<kind, client, got, answered, pool, replies>>

Executed(r) ==
    LET c == client[r]
    IN  /\ stage[r] = "execute" /\ replies[c] # <<>>
        /\ got' = [got EXCEPT ![r] = replies[c]]
        /\ \/ Close(c)                 \* also when keepAlive is off
           \/ /\ replies[c][1].framing # "closing"
              /\ replies' = [replies EXCEPT ![c] = <<>>]
              /\ UNCHANGED <<up, peer, owed>>
        /\ End(r, "ok")
        /\ GoOn(r, "release")
        /\ UNCHANGED <<kind, client, pool>>

ExecuteFails(r) ==
    /\ stage[r] = "execute" /\ replies[client[r]] = <<>>
    /\ Close(client[r])
    /\ End(r, "status")
    /\ GoOn(r, "release")
    /\ UNCHANGED <<kind, client, got, pool>>

-----------------------------------------------------------------------------
(* The end of both: a client that is still connected goes back, unless the *)
(* Channel stays full for the millisecond that push waits.                 *)

Push(r) ==
    LET k == ChannelOf(r)
    IN  /\ stage[r] = "release" /\ up[client[r]]
        /\ Len(pool[k]) < PoolSize
        /\ pool' = [pool EXCEPT ![k] = Append(@, client[r])]
        /\ client' = [client EXCEPT ![r] = Null]
        /\ GoOn(r, "done")
        /\ UNCHANGED <<kind, got, answered, connVars>>

Discard(r) ==
    /\ stage[r] = "release"
    /\ up[client[r]] => Len(pool[ChannelOf(r)]) = PoolSize
    /\ Close(client[r])
    /\ client' = [client EXCEPT ![r] = Null]
    /\ GoOn(r, "done")
    /\ UNCHANGED <<kind, got, answered, pool>>

-----------------------------------------------------------------------------
Backend == \E c \in Incoming : BackendAnswers(c) \/ PeerCloses(c)

Handles(r) ==
    \/ PopClient(r) \/ PopTimesOut(r) \/ Dial(r) \/ DialFails(r)
    \/ SendRaw(r) \/ SendRawFails(r) \/ Recv(r) \/ RecvFails(r)
    \/ Execute(r) \/ Executed(r) \/ ExecuteFails(r)
    \/ Push(r) \/ Discard(r)

HttpFinished == (\A r \in Incoming : stage[r] = "done") /\ UNCHANGED httpVars

HttpNext ==
    \/ Backend
    \/ \E r \in Incoming : Rejected(r) \/ OnRequest(r) \/ Handles(r)
    \/ HttpFinished

HttpSpec == HttpInit /\ [][HttpNext]_httpVars

(* Swoole resumes a coroutine whose wait is over, and every wait has a     *)
(* timeout.  When requests arrive or the backend acts is not assumed.      *)
HttpFairness == \A r \in Incoming : WF_httpVars(Handles(r))

-----------------------------------------------------------------------------
(* Properties.                                                             *)

(* What a request is answered with was sent by the backend for it, though  *)
(* clients are used again after earlier requests timed out, failed or got  *)
(* a reply of another framing (Handler.php 281-332).                       *)
ResponseIsOwn == \A r \in Incoming : \A i \in DOMAIN got[r] : got[r][i].of = r

ClientHolders(c) == {r \in Incoming : client[r] = c}
Slots(c)   == {s \in Channel \X (1..PoolSize) : s[2] <= Len(pool[s[1]]) /\ pool[s[1]][s[2]] = c}

(* A client is in one place at most, with a request or in a Channel, one   *)
(* that is connected is not forgotten, and a Channel never holds more than *)
(* its capacity (Handler.php 195-203, 336-344).                            *)
Accounted ==
    /\ \A k \in Channel : Len(pool[k]) <= PoolSize
    /\ \A c \in Incoming :
           LET places == Cardinality(ClientHolders(c)) + Cardinality(Slots(c))
           IN  places <= 1 /\ (up[c] => places = 1)

(* Every request that is forwarded is answered, although the backend may   *)
(* never say anything.                                                     *)
Answered == \A r \in Incoming : stage[r] = "pop" ~> (stage[r] = "done" /\ answered[r] # Null)
=============================================================================
