------------------------------- MODULE HttpPool -------------------------------
(***************************************************************************)
(* The pool of backend clients of one host:port in the Rust HTTP proxy     *)
(* (server/http/pool.rs) and the requests that use it, as forward_request  *)
(* does (server/http/handler.rs): a semaphore of `size` permits, a deque   *)
(* of idle keep-alive clients, and a guard object that gives a client back *)
(* when it is dropped.  Requests are tasks of a multi-threaded runtime;    *)
(* a request can be cancelled at any await, because the server drops the   *)
(* handler's future when the downstream client goes away.                  *)
(*                                                                         *)
(* A client is named by the request that dialed it: a request dials at     *)
(* most once.  The hyper connection behind it is external: it answers in   *)
(* order, and reports that it is ready only with no exchange unfinished.   *)
(***************************************************************************)
EXTENDS Naturals, Sequences, FiniteSets

CONSTANTS
    Request,    \* the requests that may arrive for this endpoint
    Size,       \* pool_size
    Nothing,
    Unavailable \* the answer of a failed request, 503

ASSUME PoolAssumption ==
    /\ IsFiniteSet(Request)
    /\ Nothing \notin Request
    /\ Unavailable \notin Request
    /\ Size \in Nat

VARIABLES
    point,      \* point[r]: the point forward_request has reached
    permits,    \* permits left in Pool.capacity
    idle,       \* Pool.idle
    permit,     \* permit[r]: r has a permit
    using,      \* using[r]: the client in the PooledClient of r
    healthy,    \* Client.healthy
    ready,      \* SendRequest::is_ready
    link,       \* link[c]: the backend still has the connection open
    pending,    \* pending[c]: the requests the backend has yet to answer on c
    answer      \* answer[r]: whose response r returned, or an error

poolVars == <<point, permits, idle, permit, using, healthy, ready, link, pending, answer>>

(* The points at which a PooledClient exists, and the ones between taking  *)
(* or finding no idle client and giving one back.                          *)
Holding == {"body", "send", "await", "collect", "release"}
Engaged == {"connect"} \cup Holding
PC == {"idle", "permit", "pop", "free", "done"} \cup Engaged

(* A mistake, to be noticed: an unfinished exchange is not looked at.      *)
IsHealthyFlagOnly(c) == healthy[c]

IsHealthy(c) == healthy[c] /\ ready[c]

PoolInit ==
    /\ point = [r \in Request |-> "idle"]
    /\ permits = Size
    /\ idle = <<>>
    /\ permit = [r \in Request |-> FALSE]
    /\ using = [r \in Request |-> Nothing]
    /\ healthy = [c \in Request |-> FALSE]
    /\ ready = [c \in Request |-> FALSE]
    /\ link = [c \in Request |-> FALSE]
    /\ pending = [c \in Request |-> <<>>]
    /\ answer = [r \in Request |-> Nothing]

Goto(r, label) == point' = [point EXCEPT ![r] = label]

-----------------------------------------------------------------------------
(* Mistakes of the kind this code invites, for checking that the           *)
(* properties notice them; no action uses these.                           *)

(* A permit is taken without waiting for one to be free.                   *)
TakePermitUnchecked(r) ==
    /\ point[r] = "permit"
    /\ permits' = permits - 1
    /\ permit' = [permit EXCEPT ![r] = TRUE]
    /\ Goto(r, "pop")
    /\ UNCHANGED <<idle, using, healthy, ready, link, pending, answer>>

(* The guard gives its client back and keeps it as well.                   *)
ReleaseKeeps(r) ==
    /\ point[r] = "release"
    /\ idle' = IF permit[r] /\ IsHealthy(using[r]) THEN Append(idle, using[r]) ELSE idle
    /\ Goto(r, "free")
    /\ UNCHANGED <<permits, permit, using, healthy, ready, link, pending, answer>>

(* A failed dial forgets the permit it was given.                          *)
ConnectFailsForgets(r) ==
    /\ point[r] = "connect"
    /\ answer' = [answer EXCEPT ![r] = Unavailable]
    /\ permit' = [permit EXCEPT ![r] = FALSE]
    /\ Goto(r, "free")
    /\ UNCHANGED <<permits, idle, using, healthy, ready, link, pending>>

(* A client dialed without a permit is given back to the deque as well.    *)
ReleaseOverflow(r) ==
    /\ point[r] = "release"
    /\ idle' = IF IsHealthy(using[r]) THEN Append(idle, using[r]) ELSE idle
    /\ using' = [using EXCEPT ![r] = Nothing]
    /\ Goto(r, "free")
    /\ UNCHANGED <<permits, permit, healthy, ready, link, pending, answer>>

(* The response is awaited without a timeout.                              *)
InvalidateOnError(r) ==
    /\ point[r] \in {"await", "collect"}
    /\ ~link[using[r]]
    /\ healthy' = [healthy EXCEPT ![using[r]] = FALSE]
    /\ answer' = [answer EXCEPT ![r] = Unavailable]
    /\ Goto(r, "release")
    /\ UNCHANGED <<permits, idle, permit, using, ready, link, pending>>

-----------------------------------------------------------------------------
(* acquire                                                                 *)

Start(r) ==
    /\ point[r] = "idle"
    /\ Goto(r, "permit")
    /\ UNCHANGED <<permits, idle, permit, using, healthy, ready, link, pending, answer>>

TakePermit(r) ==
    /\ point[r] = "permit"
    /\ permits > 0
    /\ permits' = permits - 1
    /\ permit' = [permit EXCEPT ![r] = TRUE]
    /\ Goto(r, "pop")
    /\ UNCHANGED <<idle, using, healthy, ready, link, pending, answer>>

(* The timeout looks at the permit first, so it strikes only without one;  *)
(* the request then goes on with a client outside the pool.                *)
PermitTimeout(r) ==
    /\ point[r] = "permit"
    /\ permits = 0
    /\ Goto(r, "connect")
    /\ UNCHANGED <<permits, idle, permit, using, healthy, ready, link, pending, answer>>

(* pop_front and the health check; an unhealthy client is dropped and only *)
(* one is looked at.                                                       *)
Pop(r) ==
    /\ point[r] = "pop"
    /\ \/ /\ idle = <<>>
          /\ Goto(r, "connect")
          /\ UNCHANGED <<idle, using, link>>
       \/ /\ idle # <<>>
          /\ IsHealthy(Head(idle))
          /\ idle' = Tail(idle)
          /\ using' = [using EXCEPT ![r] = Head(idle)]
          /\ Goto(r, "body")
          /\ UNCHANGED link
       \/ /\ idle # <<>>
          /\ ~IsHealthy(Head(idle))
          /\ idle' = Tail(idle)
          /\ link' = [link EXCEPT ![Head(idle)] = FALSE]
          /\ Goto(r, "connect")
          /\ UNCHANGED using
    /\ UNCHANGED <<permits, permit, healthy, ready, pending, answer>>

Connect(r) ==
    /\ point[r] = "connect"
    /\ using' = [using EXCEPT ![r] = r]
    /\ healthy' = [healthy EXCEPT ![r] = TRUE]
    /\ link' = [link EXCEPT ![r] = TRUE]
    /\ Goto(r, "body")
    /\ UNCHANGED <<permits, idle, permit, ready, pending, answer>>

(* The error leaves acquire without a PooledClient: only the permit is     *)
(* dropped.                                                                *)
ConnectFails(r) ==
    /\ point[r] = "connect"
    /\ answer' = [answer EXCEPT ![r] = Unavailable]
    /\ Goto(r, "free")
    /\ UNCHANGED <<permits, idle, permit, using, healthy, ready, link, pending>>

-----------------------------------------------------------------------------
(* forward_request, with the client in hand                                *)

Body(r) ==
    /\ point[r] = "body"
    /\ Goto(r, "send")
    /\ UNCHANGED <<permits, idle, permit, using, healthy, ready, link, pending, answer>>

(* The request's body could not be read: nothing was sent, so the client   *)
(* goes back without being invalidated.                                    *)
BodyFails(r) ==
    /\ point[r] = "body"
    /\ answer' = [answer EXCEPT ![r] = Unavailable]
    /\ Goto(r, "release")
    /\ UNCHANGED <<permits, idle, permit, using, healthy, ready, link, pending>>

SendRequest(r) ==
    /\ point[r] = "send"
    /\ pending' = [pending EXCEPT ![using[r]] = Append(@, r)]
    /\ ready' = [ready EXCEPT ![using[r]] = FALSE]
    /\ Goto(r, "await")
    /\ UNCHANGED <<permits, idle, permit, using, healthy, link, answer>>

(* The head of the next response on the connection.                        *)
Respond(r) ==
    /\ point[r] = "await"
    /\ link[using[r]]
    /\ Goto(r, "collect")
    /\ UNCHANGED <<permits, idle, permit, using, healthy, ready, link, pending, answer>>

Collect(r) ==
    /\ point[r] = "collect"
    /\ link[using[r]]
    /\ answer' = [answer EXCEPT ![r] = Head(pending[using[r]])]
    /\ pending' = [pending EXCEPT ![using[r]] = Tail(@)]
    /\ Goto(r, "release")
    /\ UNCHANGED <<permits, idle, permit, using, healthy, ready, link>>

(* An error or a timeout of the send or of the response body.              *)
Invalidate(r) ==
    /\ point[r] \in {"await", "collect"}
    /\ healthy' = [healthy EXCEPT ![using[r]] = FALSE]
    /\ answer' = [answer EXCEPT ![r] = Unavailable]
    /\ Goto(r, "release")
    /\ UNCHANGED <<permits, idle, permit, using, ready, link, pending>>

(* The server drops the future of r.                                       *)
Cancel(r) ==
    /\ point[r] \in {"permit", "connect", "body", "await", "collect"}
    /\ Goto(r, IF point[r] \in Holding THEN "release" ELSE "free")
    /\ UNCHANGED <<permits, idle, permit, using, healthy, ready, link, pending, answer>>

-----------------------------------------------------------------------------
(* Drop of the PooledClient, then of its permit.                           *)

Release(r) ==
    /\ point[r] = "release"
    /\ LET c == using[r]
           recycled == permit[r] /\ IsHealthy(c)
       IN  /\ idle' = IF recycled THEN Append(idle, c) ELSE idle
           /\ link' = IF recycled THEN link ELSE [link EXCEPT ![c] = FALSE]
    /\ using' = [using EXCEPT ![r] = Nothing]
    /\ Goto(r, "free")
    /\ UNCHANGED <<permits, permit, healthy, ready, pending, answer>>

DropPermit(r) ==
    /\ point[r] = "free"
    /\ permits' = IF permit[r] THEN permits + 1 ELSE permits
    /\ permit' = [permit EXCEPT ![r] = FALSE]
    /\ Goto(r, "done")
    /\ UNCHANGED <<idle, using, healthy, ready, link, pending, answer>>

-----------------------------------------------------------------------------
(* The hyper connection task and the backend behind client c.              *)

BecomeReady(c) ==
    /\ link[c] /\ ~ready[c] /\ pending[c] = <<>>
    /\ ready' = [ready EXCEPT ![c] = TRUE]
    /\ UNCHANGED <<point, permits, idle, permit, using, healthy, link, pending, answer>>

BackendCloses(c) ==
    /\ link[c]
    /\ link' = [link EXCEPT ![c] = FALSE]
    /\ UNCHANGED <<point, permits, idle, permit, using, healthy, ready, pending, answer>>

NoticeClose(c) ==
    /\ ~link[c] /\ ready[c]
    /\ ready' = [ready EXCEPT ![c] = FALSE]
    /\ UNCHANGED <<point, permits, idle, permit, using, healthy, link, pending, answer>>

-----------------------------------------------------------------------------
Handle(r) ==
    \/ TakePermit(r) \/ PermitTimeout(r) \/ Pop(r) \/ Connect(r) \/ ConnectFails(r)
    \/ Body(r) \/ BodyFails(r) \/ SendRequest(r) \/ Respond(r) \/ Collect(r) \/ Invalidate(r)
    \/ Release(r) \/ DropPermit(r)

Connection(c) == BecomeReady(c) \/ BackendCloses(c) \/ NoticeClose(c)

PoolFinished == (\A r \in Request : point[r] = "done") /\ UNCHANGED poolVars

PoolNext == (\E r \in Request : Start(r) \/ Handle(r) \/ Cancel(r) \/ Connection(r)) \/ PoolFinished

PoolSpec == PoolInit /\ [][PoolNext]_poolVars

(* The runtime keeps polling a request's task, and every wait on a peer    *)
(* has a timeout; that the peer answers is not assumed.                    *)
Unaided(r) ==
    \/ TakePermit(r) \/ PermitTimeout(r) \/ Pop(r) \/ ConnectFails(r)
    \/ BodyFails(r) \/ SendRequest(r) \/ Invalidate(r) \/ Release(r) \/ DropPermit(r)

PoolFairness == \A r \in Request : WF_poolVars(Unaided(r))

-----------------------------------------------------------------------------
(* Properties.                                                             *)

Clients == {idle[i] : i \in DOMAIN idle}
Holders == {r \in Request : permit[r]}

(* Every variable stays within its type: the deque and the guard objects   *)
(* hold clients that were dialed, the semaphore never goes below zero.     *)
TypeOK ==
    /\ point \in [Request -> PC]
    /\ permits \in Nat
    /\ idle \in Seq(Request)
    /\ permit \in [Request -> BOOLEAN]
    /\ using \in [Request -> Request \cup {Nothing}]
    /\ healthy \in [Request -> BOOLEAN]
    /\ ready \in [Request -> BOOLEAN]
    /\ link \in [Request -> BOOLEAN]
    /\ pending \in [Request -> Seq(Request)]
    /\ answer \in [Request -> Request \cup {Nothing, Unavailable}]

(* No path through acquire and forward_request loses or mints a permit:    *)
(* failed dials, failed bodies, timeouts and cancellations at any await    *)
(* all give back what they took, once (pool.rs 83-107, 145-152).           *)
PermitsConserved == permits + Cardinality(Holders) = Size

(* The clients the pool answers for, idle in its deque or lent under a     *)
(* permit, never outnumber its size, although a guard puts its client back *)
(* before it gives up its permit (pool.rs 145-152).                        *)
PooledWithinSize ==
    Len(idle) + Cardinality({r \in Holders : point[r] \in Engaged}) <= Size

(* A client is in one place: no two requests hold it, it is not idle while *)
(* one does, and the deque has it once (pool.rs 90-97, 110-114).           *)
ClientExclusive ==
    /\ \A r, q \in Request : r # q /\ using[r] # Nothing => using[r] # using[q]
    /\ \A r \in Request : using[r] \notin Clients
    /\ \A i, j \in DOMAIN idle : i # j => idle[i] # idle[j]

(* A request is only ever answered with the response to itself: a client   *)
(* whose exchange was cut short by a timeout, an error or a cancellation   *)
(* is not used again, so no late response is taken for the next one's      *)
(* (handler.rs 170-202, pool.rs 36-38).                                    *)
OwnResponse == \A r \in Request : answer[r] \in {Nothing, Unavailable, r}

(* A request that asked for a client comes to its end and gives up its     *)
(* permit, whether or not the backend or the downstream client ever act    *)
(* (every await of acquire and forward_request has a timeout).             *)
RequestEnds == \A r \in Request : point[r] = "permit" ~> point[r] = "done"
=============================================================================
