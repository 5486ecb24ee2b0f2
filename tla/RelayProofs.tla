---------------------------- MODULE RelayProofs -----------------------------
(***************************************************************************)
(* The relays.  The safety properties of CoroutineTcp hold for any number  *)
(* of clients and object ids; Relay implements Duplex for streams and      *)
(* socket buffers of every size; and the kernel's relay finds the sockets  *)
(* it forwards between: the keys of TupleKey agree and are distinct.       *)
(***************************************************************************)
EXTENDS Relay, TupleKey, CoroutineTcp, FiniteSetTheorems, TLAPS

(* The coroutine server.                                                   *)

Handled == {s \in Session : Active(s)}

(* Why the ids may be used again: the cache holds something under an id    *)
(* only while the handler that has the id is past its dial, and no two     *)
(* handlers have one id.                                                   *)
SessionInv(s) ==
    /\ handler[s] \in {"new", "first", "route", "dial", "over"} \cup Piping
    /\ Active(s) => id[s] \in Id
    /\ held[s] \in {Nobody, s} /\ (handler[s] \in Piping => held[s] = s)
    /\ relay[s] \in {"none", "recv", "send", "over"}
    /\ relay[s] # "none" => handler[s] \in Piping \cup {"over"} /\ held[s] = s
    /\ clientOpen[s] => Active(s)
    /\ backendOpen[s] => handler[s] \in Piping \ {"pop", "popfirst"}
    /\ done[s] => relay[s] = "over" /\ ~clientOpen[s]

CacheInv(i) ==
    cache[i] # Nobody =>
        cache[i] \in Session /\ handler[cache[i]] \in Piping /\ id[cache[i]] = i

Domains ==
    /\ DOMAIN handler = Session /\ DOMAIN relay = Session /\ DOMAIN id = Session
    /\ DOMAIN held = Session /\ DOMAIN done = Session /\ DOMAIN cache = Id
    /\ DOMAIN clientOpen = Session /\ DOMAIN backendOpen = Session

IInv ==
    /\ Domains
    /\ \A s \in Session : SessionInv(s)
    /\ \A i \in Id : CacheInv(i)
    /\ \A s, t \in Session : Active(s) /\ Active(t) /\ id[s] = id[t] => s = t
    /\ count = Cardinality(Handled)

-----------------------------------------------------------------------------
LEMMA InitInv == CoroutineInit => IInv
<1>. SUFFICES ASSUME CoroutineInit  PROVE IInv
  BY Zenon
<1>1. Handled = {}
  BY Zenon DEF CoroutineInit, Handled, Active, Piping
<1>. QED  BY <1>1, FS_EmptySet, Zenon DEF CoroutineInit, IInv, Domains, SessionInv, CacheInv, Active, Piping

(* The count, when a handler starts, goes on or returns.                   *)
LEMMA Counted ==
  ASSUME IInv, NEW s \in Session, NEW label, Await(s, label),
         \/ /\ handler[s] = "new" /\ label = "first" /\ count' = count + 1
         \/ /\ Active(s) /\ label \in {"first", "route", "dial"} \cup Piping /\ count' = count
         \/ /\ Active(s) /\ label = "over" /\ count' = count - 1
  PROVE  count' = Cardinality(Handled')
<1>1. IsFiniteSet(Handled) /\ count = Cardinality(Handled)
  BY CoroutineAssumption, FS_Subset, Zenon DEF IInv, Handled
<1>2. \A t \in Session : handler'[t] = (IF t = s THEN label ELSE handler[t])
  BY Zenon DEF Await, IInv, Domains
<1>3. CASE handler[s] = "new" /\ label = "first" /\ count' = count + 1
  <2>1. Handled' = Handled \cup {s} /\ s \notin Handled
    BY <1>2, <1>3, Zenon DEF Handled, Active, Piping
  <2>. QED  BY <1>1, <1>3, <2>1, FS_AddElement, Zenon
<1>4. CASE Active(s) /\ label \in {"first", "route", "dial"} \cup Piping /\ count' = count
  <2>1. Handled' = Handled
    BY <1>2, <1>4, Zenon DEF Handled, Active
  <2>. QED  BY <1>1, <1>4, <2>1, Zenon
<1>5. CASE Active(s) /\ label = "over" /\ count' = count - 1
  <2>1. Handled' = Handled \ {s} /\ s \in Handled
    BY <1>2, <1>5, Zenon DEF Handled, Active, Piping
  <2>. QED  BY <1>1, <1>5, <2>1, FS_RemoveElement, Zenon
<1>. QED  BY <1>3, <1>4, <1>5, Zenon

LEMMA SameCount == ASSUME IInv, UNCHANGED <<handler, count>>  PROVE count' = Cardinality(Handled')
  BY Zenon DEF IInv, Handled, Active

(* No cached connection is met before the dial.                            *)
LEMMA NothingCached ==
  ASSUME IInv, NEW s \in Session, handler[s] \in {"first", "route", "dial"}
  PROVE  cache[id[s]] = Nobody
<1>1. Active(s) /\ id[s] \in Id
  BY Zenon DEF IInv, SessionInv, Active
<1>. QED  BY <1>1, Zenon DEF IInv, CacheInv, Active, Piping

-----------------------------------------------------------------------------
(* The steps: each keeps IInv.                                             *)

LEMMA AcceptInv == ASSUME IInv, NEW s \in Session, Accept(s)  PROVE IInv'
<1>1. count' = Cardinality(Handled')
  BY Counted, Zenon DEF Accept
<1>2. PICK i \in Id : id' = [id EXCEPT ![s] = i] /\ \A t \in Session : Active(t) => id[t] # i
  BY Zenon DEF Accept
<1>3. ~Active(s) /\ relay[s] = "none" /\ ~done[s] /\ ~backendOpen[s]
  BY Zenon DEF Accept, IInv, SessionInv, Active, Piping
<1>. QED
  BY <1>1, <1>2, <1>3
  DEF Accept, Await, IInv, Domains, SessionInv, CacheInv, Active, Piping, peerVars

(* Before the dial: the cache has nothing, so the handler goes on to dial. *)
LEMMA RouteInv ==
  ASSUME IInv, NEW s \in Session, ReadFirst(s) \/ RoutedFor(s)  PROVE IInv'
<1>1. cache[id[s]] = Nobody
  BY NothingCached, Zenon DEF ReadFirst, RoutedFor
<1>2. PICK label \in {"route", "dial"} : Await(s, label) /\ handler[s] \in {"first", "route"}
  BY <1>1, Zenon DEF ReadFirst, RoutedFor
<1>3. UNCHANGED <<relay, held, id, done, count, cache, clientOpen, backendOpen>>
  BY <1>1, Zenon DEF ReadFirst, RoutedFor, socketVars
<1>4. count' = Cardinality(Handled')
  BY <1>2, <1>3, Counted, Zenon DEF Active
<1>. QED
  BY <1>2, <1>3, <1>4 DEF Await, IInv, Domains, SessionInv, CacheInv, Active, Piping

LEMMA DialedInv == ASSUME IInv, NEW s \in Session, DialedFor(s)  PROVE IInv'
<1>1. count' = Cardinality(Handled')
  BY Counted, Zenon DEF DialedFor, Piped, Active, Piping
<1>2. id[s] \in Id /\ relay[s] = "none" /\ ~done[s]
  BY Zenon DEF DialedFor, IInv, SessionInv, Active, Piping
<1>. QED
  BY <1>1, <1>2
  DEF DialedFor, Piped, Await, IInv, Domains, SessionInv, CacheInv, Active, Piping, peerVars

LEMMA EarlyReturnInv ==
  ASSUME IInv, NEW s \in Session, FirstFails(s) \/ NoConnection(s)  PROVE IInv'
<1>1. count' = Cardinality(Handled')
  BY Counted, Zenon DEF FirstFails, NoConnection, Returns, Active
<1>. QED
  BY <1>1
  DEF FirstFails, NoConnection, Returns, Await, IInv, Domains, SessionInv, CacheInv,
      Active, Piping, peerVars

LEMMA ForwardInv ==
  ASSUME IInv, NEW s \in Session, Written(s) \/ ClientRecv(s)  PROVE IInv'
<1>1. count' = Cardinality(Handled')
  BY Counted, Zenon DEF Written, ClientRecv, Active, Piping
<1>. QED
  BY <1>1
  DEF Written, ClientRecv, Await, IInv, Domains, SessionInv, CacheInv, Active, Piping,
      socketVars, peerVars

LEMMA CloseBackendInv ==
  ASSUME IInv, NEW s \in Session, NEW label \in {"popfirst", "pop"}, handler[s] \in Piping,
         CloseBackend(s, label)
  PROVE  IInv'
<1>1. count' = Cardinality(Handled')
  BY Counted, Zenon DEF CloseBackend, Active, Piping
<1>2. held[s] = s
  BY Zenon DEF IInv, SessionInv
<1>. QED
  BY <1>1, <1>2
  DEF CloseBackend, Await, IInv, Domains, SessionInv, CacheInv, Active, Piping, peerVars

(* The two ends of a handler that has dialed.                              *)
LEMMA PopInv == ASSUME IInv, NEW s \in Session, PopFirst(s) \/ PopDone(s)  PROVE IInv'
<1>1. count' = Cardinality(Handled')
  BY Counted, Zenon DEF PopFirst, PopDone, Returns, Active, Piping
<1>2. id[s] \in Id
  BY Zenon DEF PopFirst, PopDone, IInv, SessionInv, Active, Piping
<1>3. cache' = [cache EXCEPT ![id[s]] = Nobody] /\ Await(s, "over")
  BY Zenon DEF PopFirst, PopDone, Returns
<1>4. UNCHANGED <<id, held, relay>> /\ handler[s] \in {"popfirst", "pop"} /\ ~clientOpen'[s]
  BY DEF PopFirst, PopDone, IInv, Domains, SessionInv, socketVars
<1>5. \A i \in Id : CacheInv(i)'
  BY <1>2, <1>3, <1>4, Zenon DEF Await, IInv, Domains, CacheInv
<1>6. \A t \in Session : SessionInv(t)'
  BY <1>3, <1>4 DEF PopFirst, PopDone, Await, IInv, Domains, SessionInv, Active, Piping, socketVars
<1>7. Domains'
  BY Zenon DEF PopFirst, PopDone, Returns, Await, IInv, Domains, socketVars
<1>. QED
  BY <1>1, <1>3, <1>4, <1>5, <1>6, <1>7, Zenon DEF Await, IInv, Domains, Active, Piping

LEMMA RelayStepInv == ASSUME IInv, NEW s \in Session, Relay(s)  PROVE IInv'
<1>1. count' = Cardinality(Handled')
  BY SameCount, Zenon DEF Relay, RelayRecv, RelaySent, RelayEnds
<1>. QED
  BY <1>1
  DEF Relay, RelayRecv, RelaySent, RelayEnds, IInv, Domains, SessionInv, CacheInv, Active,
      Piping, socketVars

LEMMA StillInv ==
  ASSUME IInv, UNCHANGED <<handler, relay, id, held, done, count, cache, socketVars>>
  PROVE  IInv'
<1>1. count' = Cardinality(Handled')
  BY SameCount, Zenon
<1>. QED
  BY <1>1 DEF IInv, Domains, SessionInv, CacheInv, Active, socketVars

-----------------------------------------------------------------------------
(* The invariant holds in every state.                                     *)
THEOREM Invariance == CoroutineSpec => []IInv
<1>1. ASSUME IInv, [CoroutineNext]_coroutineVars  PROVE IInv'
  <2>1. CASE UNCHANGED coroutineVars
    BY <1>1, <2>1, StillInv, Zenon DEF coroutineVars
  <2>2. ASSUME NEW s \in Session, Accept(s) \/ Handler(s) \/ Relay(s)  PROVE IInv'
    BY <1>1, <2>2, AcceptInv, RouteInv, DialedInv, EarlyReturnInv, ForwardInv,
       CloseBackendInv, PopInv, RelayStepInv
    DEF Handler, InitialFails, ClientEnds, WriteFails, Piping
  <2>3. ASSUME NEW s \in Session, ClientHangsUp(s) \/ BackendHangsUp(s)  PROVE IInv'
    BY <1>1, <2>3, StillInv, Zenon DEF ClientHangsUp, BackendHangsUp
  <2>. QED  BY <1>1, <2>1, <2>2, <2>3, Zenon DEF CoroutineNext, CoroutineFinished
<1>. QED  BY <1>1, InitInv, PTL DEF CoroutineSpec

(* However many clients connect and however the ids are used again, a      *)
(* client is only served by the backend connection dialed for it.          *)
THEOREM OwnBackendOnly == CoroutineSpec => []DialsOwnBackend
<1>1. IInv => DialsOwnBackend
  BY Zenon DEF IInv, SessionInv, DialsOwnBackend
<1>. QED  BY <1>1, Invariance, PTL

(* A handler that has returned has left neither a socket open nor a cached *)
(* connection, and is no longer counted.                                   *)
THEOREM HandlersLeaveNothing == CoroutineSpec => []NothingLeft
<1>1. IInv => NothingLeft
  BY CoroutineAssumption
  DEF IInv, SessionInv, CacheInv, NothingLeft, Active, Piping, Handled
<1>. QED  BY <1>1, Invariance, PTL

-----------------------------------------------------------------------------
(* The relay.                                                              *)

Typed(d) ==
    /\ recv[d] \in Seq(Nat) /\ buf[d] \in Seq(Nat) /\ send[d] \in Seq(Nat)
    /\ got[d] \in Seq(Nat) /\ sent[d] \in Nat

(* Nothing is read into a buffer that still holds bytes to be written.     *)
RelayInv ==
    /\ phase \in {"first", "initial", "closed"} \cup Relaying
    /\ DOMAIN at = Dir /\ DOMAIN recv = Dir /\ DOMAIN buf = Dir /\ DOMAIN send = Dir
    /\ DOMAIN sent = Dir /\ DOMAIN got = Dir
    /\ \A d \in Dir : Typed(d)
    /\ phase \in {"first", "initial"} => \A d \in Dir : at[d] = "read"
    /\ \A d \in Dir : buf[d] # <<>> =>
          \/ phase = "closed"
          \/ phase = "initial" /\ d = "up"
          \/ phase \in Relaying /\ at[d] = "write"

-----------------------------------------------------------------------------
(* Sequences.                                                              *)

LEMMA AppendConcat ==
  \A s, t \in Seq(Nat) : \A x \in Nat :
    s \o Append(t, x) = Append(s \o t, x) /\ s \o t \in Seq(Nat)
  OBVIOUS

LEMMA AppendBehind ==
  \A s, t, u \in Seq(Nat) : \A x \in Nat :
    s \o (t \o Append(u, x)) = Append(s \o (t \o u), x)
<1>. TAKE s, t, u \in Seq(Nat)
<1>. TAKE x \in Nat
<1>1. t \o Append(u, x) = Append(t \o u, x) /\ t \o u \in Seq(Nat)
  BY AppendConcat
<1>2. \A v \in Seq(Nat) : s \o Append(v, x) = Append(s \o v, x)
  BY AppendConcat
<1>. QED  BY <1>1, <1>2, Zenon

LEMMA TakeFront ==
  ASSUME NEW s \in Seq(Nat), NEW t \in Seq(Nat), s # <<>>
  PROVE  /\ s \o t # <<>> /\ Head(s \o t) = Head(s) /\ Tail(s \o t) = Tail(s) \o t
         /\ Head(s) \in Nat /\ Tail(s) \in Seq(Nat)
  OBVIOUS

LEMMA SplitJoin ==
  ASSUME NEW s \in Seq(Nat), NEW k \in 1..Len(s)
  PROVE  /\ SubSeq(s, 1, k) \in Seq(Nat) /\ SubSeq(s, k + 1, Len(s)) \in Seq(Nat)
         /\ SubSeq(s, 1, k) \o SubSeq(s, k + 1, Len(s)) = s
  OBVIOUS

LEMMA MoveHead ==
  ASSUME NEW s \in Seq(Nat), NEW t \in Seq(Nat), s # <<>>
  PROVE  Append(t, Head(s)) \o Tail(s) = t \o s
  BY SMT

LEMMA MoveByte ==
  ASSUME NEW s \in Seq(Nat), NEW t \in Seq(Nat), NEW u \in Seq(Nat), s # <<>>
  PROVE  Append(t, Head(s)) \o (Tail(s) \o u) = t \o (s \o u)
<1>0. s \o u \in Seq(Nat)
  BY SMT
<1>1. PICK w \in Seq(Nat) : w = s \o u
  BY <1>0, Zenon
<1>2. w # <<>> /\ Head(w) = Head(s) /\ Tail(w) = Tail(s) \o u
  BY <1>1, TakeFront, Zenon
<1>3. Append(t, Head(w)) \o Tail(w) = t \o w
  BY <1>2, MoveHead, Zenon
<1>. QED  BY <1>1, <1>2, <1>3, Zenon

LEMMA CutBehind ==
  ASSUME NEW s \in Seq(Nat), NEW t \in Seq(Nat)
  PROVE  SubSeq(s \o t, 1, Len(s)) = s /\ Len(s) \in 0..Len(s \o t)
  OBVIOUS

-----------------------------------------------------------------------------
LEMMA RelayInitInv == RelayInit => RelayInv
  BY DEF RelayInit, RelayInv, Dir, Typed

LEMMA TakeInv ==
  ASSUME RelayInv, NEW d \in Dir, Take(d), UNCHANGED <<send, streamVars, finished>>, buf[d] = <<>>,
         \/ phase = "first" /\ d = "up" /\ phase' = "initial" /\ at' = at
         \/ phase \in Relaying /\ phase' = phase /\ at' = [at EXCEPT ![d] = "write"]
  PROVE  RelayInv' /\ \A x \in Dir : Pipe(x)' = Pipe(x)
<1>1. PICK k \in 1..Len(recv[d]) :
        /\ buf' = [buf EXCEPT ![d] = SubSeq(recv[d], 1, k)]
        /\ recv' = [recv EXCEPT ![d] = SubSeq(@, k + 1, Len(@))]
  BY DEF Take
<1>2. recv[d] \in Seq(Nat)
  BY DEF RelayInv, Typed
<1>3. /\ recv'[d] \in Seq(Nat) /\ buf'[d] \in Seq(Nat) /\ buf'[d] \o recv'[d] = recv[d]
      /\ \A x \in Dir \ {d} : recv'[x] = recv[x] /\ buf'[x] = buf[x]
  BY <1>1, <1>2, SplitJoin DEF RelayInv
<1>4. Running /\ Running'
  BY DEF Running, Relaying
<1>5. buf[d] \o recv[d] = recv[d]
  BY <1>2
<1>6. \A x \in Dir : Pipe(x)' = Pipe(x)
  BY <1>3, <1>4, <1>5 DEF Pipe
<1>7. RelayInv'
  <2>1. \A x \in Dir : Typed(x)'
    BY <1>3 DEF RelayInv, Typed, streamVars
  <2>2. \A x \in Dir : buf'[x] # <<>> =>
          \/ phase' = "closed"
          \/ phase' = "initial" /\ x = "up"
          \/ phase' \in Relaying /\ at'[x] = "write"
    BY <1>3 DEF RelayInv, Relaying
  <2>3. phase' \in {"first", "initial"} => \A x \in Dir : at'[x] = "read"
    BY DEF RelayInv, Relaying
  <2>. QED  BY <1>1, <2>1, <2>2, <2>3 DEF RelayInv, streamVars, Relaying
<1>. QED  BY <1>6, <1>7

LEMMA PutInv ==
  ASSUME RelayInv, NEW d \in Dir, Put(d), UNCHANGED <<recv, streamVars, finished>>,
         phase \in Relaying \/ phase = "initial", phase' \in Relaying \/ phase' = phase,
         \/ /\ Len(buf[d]) = 1 /\ phase' \in Relaying
            /\ at' = at \/ at' = [at EXCEPT ![d] = "read"]
         \/ UNCHANGED <<phase, at>>,
         phase' # phase => d = "up"
  PROVE  RelayInv' /\ \A x \in Dir : Pipe(x)' = Pipe(x)
<1>1. /\ send' = [send EXCEPT ![d] = Append(@, Head(buf[d]))]
      /\ buf' = [buf EXCEPT ![d] = Tail(@)] /\ buf[d] # <<>>
      /\ buf[d] \in Seq(Nat) /\ send[d] \in Seq(Nat) /\ recv[d] \in Seq(Nat)
  BY DEF Put, RelayInv, Typed
<1>2. /\ send'[d] = Append(send[d], Head(buf[d])) /\ buf'[d] = Tail(buf[d])
      /\ \A x \in Dir \ {d} : send'[x] = send[x] /\ buf'[x] = buf[x]
  BY <1>1 DEF RelayInv
<1>3. Running /\ Running'
  BY DEF Running, Relaying
<1>4. \A x \in Dir : Pipe(x)' = Pipe(x)
  <2>1. Append(send[d], Head(buf[d])) \o (Tail(buf[d]) \o recv[d]) = send[d] \o (buf[d] \o recv[d])
    BY <1>1, MoveByte, Zenon
  <2>2. Pipe(d)' = Pipe(d)
    BY <1>2, <1>3, <2>1, Zenon DEF Pipe
  <2>3. \A x \in Dir \ {d} : Pipe(x)' = Pipe(x)
    BY <1>2, <1>3 DEF Pipe
  <2>. QED  BY <2>2, <2>3
<1>5. send'[d] \in Seq(Nat) /\ buf'[d] \in Seq(Nat)
  BY <1>1, <1>2
<1>6. Len(buf[d]) = 1 => buf'[d] = <<>>
  <2>1. ASSUME NEW q \in Seq(Nat), q # <<>>, Len(q) = 1  PROVE Tail(q) = <<>>
    <3>1. Tail(q) \in Seq(Nat) /\ Len(Tail(q)) = 0
      BY <2>1
    <3>2. \A s \in Seq(Nat) : Len(s) = 0 => s = <<>>
      BY SMT
    <3>. QED  BY <3>1, <3>2, Zenon
  <2>. QED  BY <1>1, <1>2, <2>1, Zenon
<1>7. RelayInv'
  <2>1. \A x \in Dir : Typed(x)'
    BY <1>2, <1>5 DEF RelayInv, Typed, streamVars
  <2>2. \A x \in Dir : buf'[x] # <<>> =>
          \/ phase' = "closed"
          \/ phase' = "initial" /\ x = "up"
          \/ phase' \in Relaying /\ at'[x] = "write"
    <3>. SUFFICES ASSUME NEW x \in Dir, buf'[x] # <<>>
                  PROVE  \/ phase' = "closed"
                         \/ phase' = "initial" /\ x = "up"
                         \/ phase' \in Relaying /\ at'[x] = "write"
      OBVIOUS
    <3>1. buf[x] # <<>>
      BY <1>1, <1>2
    <3>2. CASE UNCHANGED <<phase, at>>
      BY <3>1, <3>2 DEF RelayInv
    <3>3. CASE Len(buf[d]) = 1
      <4>1. x # d
        BY <1>6, <3>3
      <4>. QED  BY <3>1, <4>1 DEF RelayInv, Relaying, Dir
    <3>. QED  BY <3>2, <3>3
  <2>3. phase' \in {"first", "initial"} => \A x \in Dir : at'[x] = "read"
    BY DEF RelayInv, Relaying
  <2>. QED  BY <1>1, <2>1, <2>2, <2>3 DEF RelayInv, streamVars
<1>. QED  BY <1>4, <1>7

(* The end of a session cuts the pipe off behind what was written.         *)
LEMMA CloseEnds == ASSUME RelayInv, Running, Close  PROVE RelayInv' /\ Stream!End
<1>1. /\ ~Running' /\ UNCHANGED <<at, recv, buf, send, sent, got>> /\ phase' = "closed"
  BY DEF Close, Running, streamVars
<1>2. \A d \in Dir : send[d] \in Seq(Nat) /\ buf[d] \o recv[d] \in Seq(Nat)
  BY DEF RelayInv, Typed
<1>3. \A d \in Dir : /\ Pipe(d)' = SubSeq(Pipe(d), 1, Len(send[d]))
                      /\ Len(send[d]) \in 0..Len(Pipe(d))
  <2>. TAKE d \in Dir
  <2>1. Pipe(d) = send[d] \o (buf[d] \o recv[d])
    BY DEF Pipe
  <2>2. Pipe(d)' = send[d]
    BY <1>1, <1>2 DEF Pipe
  <2>. QED  BY <1>2, <2>1, <2>2, CutBehind
<1>4. Stream!End
  <2>1. [d \in Dir |-> Pipe(d)'] =
          [d \in Dir |-> SubSeq(Pipe(d), 1, IF d = "up" THEN Len(send["up"]) ELSE Len(send["down"]))]
    BY <1>3 DEF Dir
  <2>. QED  BY <1>1, <1>3, <2>1 DEF Stream!End, Stream!Dir, Dir
<1>5. RelayInv'
  BY <1>1 DEF RelayInv, Typed
<1>. QED  BY <1>4, <1>5

LEMMA PeerSendsSends ==
  ASSUME RelayInv, NEW d \in Dir, PeerSends(d)  PROVE RelayInv' /\ Stream!Send(d)
<1>1. /\ Running /\ Running' /\ sent[d] < Limit[d] /\ sent[d] + 1 \in Nat
      /\ sent' = [sent EXCEPT ![d] = @ + 1]
      /\ recv' = [recv EXCEPT ![d] = Append(@, sent[d] + 1)]
      /\ UNCHANGED <<phase, at, buf, send, got>>
  BY DEF PeerSends, Running, RelayInv, Typed
<1>2. recv'[d] = Append(recv[d], sent[d] + 1) /\ \A x \in Dir \ {d} : recv'[x] = recv[x]
  BY <1>1 DEF RelayInv
<1>3. Pipe(d)' = Append(Pipe(d), sent[d] + 1)
  <2>1. send[d] \in Seq(Nat) /\ buf[d] \in Seq(Nat) /\ recv[d] \in Seq(Nat)
    BY DEF RelayInv, Typed
  <2>2. \A x \in Nat : send[d] \o (buf[d] \o Append(recv[d], x))
                          = Append(send[d] \o (buf[d] \o recv[d]), x)
    BY <2>1, AppendBehind, Zenon
  <2>. QED  BY <1>1, <1>2, <2>2, Zenon DEF Pipe
<1>4. \A x \in Dir \ {d} : Pipe(x)' = Pipe(x)
  <2>. TAKE x \in Dir \ {d}
  <2>1. recv'[x] = recv[x] /\ buf'[x] = buf[x] /\ send'[x] = send[x]
    BY <1>1, <1>2
  <2>2. Running /\ Running'
    BY <1>1
  <2>. QED  BY <2>1, <2>2, Zenon DEF Pipe
<1>5. [x \in Dir |-> Pipe(x)'] = [[x \in Dir |-> Pipe(x)] EXCEPT ![d] = Append(@, sent[d] + 1)]
  BY <1>3, <1>4
<1>6. RelayInv'
  <2>1. \A x \in Dir : Typed(x)'
    BY <1>1, <1>2 DEF RelayInv, Typed
  <2>. QED  BY <1>1, <2>1 DEF RelayInv
<1>. QED  BY <1>1, <1>5, <1>6 DEF Stream!Send

LEMMA PeerReceivesDelivers ==
  ASSUME RelayInv, NEW d \in Dir, PeerReceives(d)
  PROVE  RelayInv' /\ Stream!Deliver(d)
<1>. DEFINE rest == IF Running THEN buf[d] \o recv[d] ELSE <<>>
<1>1. /\ send[d] # <<>> /\ send' = [send EXCEPT ![d] = Tail(@)]
      /\ got' = [got EXCEPT ![d] = Append(@, Head(send[d]))]
      /\ UNCHANGED <<phase, at, recv, buf, sent, Running>>
  BY DEF PeerReceives, Running
<1>2. send[d] \in Seq(Nat) /\ rest \in Seq(Nat) /\ got[d] \in Seq(Nat)
  BY DEF RelayInv, Typed
<1>3. /\ Pipe(d) # <<>> /\ Head(Pipe(d)) = Head(send[d]) /\ Tail(Pipe(d)) = Tail(send[d]) \o rest
      /\ Head(send[d]) \in Nat /\ Tail(send[d]) \in Seq(Nat)
  <2>. HIDE DEF rest
  <2>1. Pipe(d) = send[d] \o rest
    BY DEF Pipe, rest
  <2>2. /\ send[d] \o rest # <<>> /\ Head(send[d] \o rest) = Head(send[d])
        /\ Tail(send[d] \o rest) = Tail(send[d]) \o rest
        /\ Head(send[d]) \in Nat /\ Tail(send[d]) \in Seq(Nat)
    BY <1>1, <1>2, TakeFront
  <2>. QED  BY <2>1, <2>2, Zenon
<1>4. send'[d] = Tail(send[d]) /\ \A x \in Dir \ {d} : send'[x] = send[x]
  BY <1>1 DEF RelayInv
<1>5. Pipe(d)' = Tail(Pipe(d)) /\ \A x \in Dir \ {d} : Pipe(x)' = Pipe(x)
  BY <1>1, <1>3, <1>4 DEF Pipe
<1>6. [x \in Dir |-> Pipe(x)'] = [[x \in Dir |-> Pipe(x)] EXCEPT ![d] = Tail(@)]
  BY <1>5
<1>7. RelayInv'
  <2>1. \A x \in Dir : Typed(x)'
    BY <1>1, <1>2, <1>3, <1>4 DEF RelayInv, Typed
  <2>. QED  BY <1>1, <2>1 DEF RelayInv
<1>. QED  BY <1>1, <1>3, <1>6, <1>7 DEF Stream!Deliver

(* A step that leaves the streams as they are.                             *)
LEMMA Stutter ==
  ASSUME RelayInv, \A x \in Dir : Pipe(x)' = Pipe(x), UNCHANGED <<sent, got, Running>>
  PROVE  UNCHANGED Stream!vars
<1>1. [x \in Dir |-> Pipe(x)]' = [x \in Dir |-> Pipe(x)]
  OBVIOUS
<1>. QED  BY <1>1 DEF Stream!vars

LEMMA InitialStep == ASSUME RelayInv, Initial  PROVE RelayInv' /\ [Stream!Next]_Stream!vars
<1>1. CASE ReadInitial
  <2>1. buf["up"] = <<>> /\ "up" \in Dir
    BY <1>1 DEF ReadInitial, RelayInv, Dir, Relaying
  <2>2. RelayInv' /\ \A x \in Dir : Pipe(x)' = Pipe(x)
    BY <1>1, <2>1, TakeInv DEF ReadInitial
  <2>. QED  BY <1>1, <2>2, Stutter DEF ReadInitial, streamVars, Running
<1>2. CASE SendInitial
  <2>1. RelayInv' /\ \A x \in Dir : Pipe(x)' = Pipe(x)
    BY <1>2, PutInv DEF SendInitial, Dir
  <2>. QED  BY <1>2, <2>1, Stutter DEF SendInitial, streamVars, Running, Relaying
<1>3. CASE ReadInitialFails \/ SendInitialFails
  BY <1>3, CloseEnds DEF ReadInitialFails, SendInitialFails, Running, Stream!Next
<1>. QED  BY <1>1, <1>2, <1>3 DEF Initial

LEMMA SerialStep == ASSUME RelayInv, Serial  PROVE RelayInv' /\ [Stream!Next]_Stream!vars
<1>1. ASSUME NEW d \in Dir, SerialRead(d)  PROVE RelayInv' /\ [Stream!Next]_Stream!vars
  <2>1. buf[d] = <<>>
    BY <1>1 DEF SerialRead, Selecting, RelayInv, Relaying
  <2>2. RelayInv' /\ \A x \in Dir : Pipe(x)' = Pipe(x)
    BY <1>1, <2>1, TakeInv DEF SerialRead, Relaying
  <2>. QED  BY <1>1, <2>2, Stutter DEF SerialRead, streamVars, Running
<1>2. ASSUME NEW d \in Dir, SerialWrite(d)  PROVE RelayInv' /\ [Stream!Next]_Stream!vars
  <2>1. RelayInv' /\ \A x \in Dir : Pipe(x)' = Pipe(x)
    BY <1>2, PutInv DEF SerialWrite, Relaying
  <2>. QED  BY <1>2, <2>1, Stutter DEF SerialWrite, streamVars, Running
<1>3. CASE SerialEnds
  BY <1>3, CloseEnds DEF SerialEnds, Running, Stream!Next
<1>. QED  BY <1>1, <1>2, <1>3 DEF Serial

LEMMA CopyStep ==
  ASSUME RelayInv, CopyEnds \/ \E d \in Dir : Copy(d)
  PROVE  RelayInv' /\ [Stream!Next]_Stream!vars
<1>1. ASSUME NEW d \in Dir, CopyRead(d)  PROVE RelayInv' /\ [Stream!Next]_Stream!vars
  <2>1. buf[d] = <<>>
    BY <1>1 DEF CopyRead, RelayInv, Relaying
  <2>2. RelayInv' /\ \A x \in Dir : Pipe(x)' = Pipe(x)
    BY <1>1, <2>1, TakeInv DEF CopyRead, Relaying
  <2>. QED  BY <1>1, <2>2, Stutter DEF CopyRead, streamVars, Running
<1>2. ASSUME NEW d \in Dir, CopyWrite(d)  PROVE RelayInv' /\ [Stream!Next]_Stream!vars
  <2>1. RelayInv' /\ \A x \in Dir : Pipe(x)' = Pipe(x)
    BY <1>2, PutInv DEF CopyWrite, Relaying
  <2>. QED  BY <1>2, <2>1, Stutter DEF CopyWrite, streamVars, Running
<1>3. ASSUME NEW d \in Dir, CopyEof(d)  PROVE RelayInv' /\ [Stream!Next]_Stream!vars
  <2>1. UNCHANGED <<phase, recv, buf, send, sent, got, Running>>
    BY <1>3 DEF CopyEof, streamVars, Running
  <2>2. \A x \in Dir : Pipe(x)' = Pipe(x)
    BY <2>1, Zenon DEF Pipe
  <2>3. RelayInv'
    BY <1>3, <2>1 DEF CopyEof, RelayInv, Typed, Relaying
  <2>. QED  BY <2>1, <2>2, <2>3, Stutter
<1>4. CASE CopyEnds
  BY <1>4, CloseEnds DEF CopyEnds, Running, Stream!Next
<1>. QED  BY <1>1, <1>2, <1>3, <1>4 DEF Copy

LEMMA NextStep == RelayInv /\ [RelayNext]_relayVars => RelayInv' /\ [Stream!Next]_Stream!vars
<1>. SUFFICES ASSUME RelayInv, [RelayNext]_relayVars  PROVE RelayInv' /\ [Stream!Next]_Stream!vars
  OBVIOUS
<1>1. ASSUME NEW d \in Dir, Peer(d)  PROVE RelayInv' /\ [Stream!Next]_Stream!vars
  <2>1. CASE PeerSends(d) \/ PeerReceives(d)
    BY <2>1, PeerSendsSends, PeerReceivesDelivers DEF Stream!Next, Stream!Dir, Dir
  <2>2. CASE PeerEnds(d)
    <3>1. UNCHANGED <<phase, at, recv, buf, send, sent, got, Running>>
      BY <2>2 DEF PeerEnds, Running
    <3>2. \A x \in Dir : Pipe(x)' = Pipe(x)
      BY <3>1, Zenon DEF Pipe
    <3>3. RelayInv'
      BY <3>1 DEF RelayInv, Typed
    <3>. QED  BY <3>1, <3>2, <3>3, Stutter
  <2>. QED  BY <1>1, <2>1, <2>2 DEF Peer
<1>2. CASE UNCHANGED relayVars
  <2>1. UNCHANGED <<phase, at, recv, buf, send, sent, got, Running>>
    BY <1>2 DEF relayVars, streamVars, Running
  <2>2. \A x \in Dir : Pipe(x)' = Pipe(x)
    BY <2>1, Zenon DEF Pipe
  <2>3. RelayInv'
    BY <2>1 DEF RelayInv, Typed
  <2>. QED  BY <2>1, <2>2, <2>3, Stutter
<1>. QED  BY <1>1, <1>2, InitialStep, SerialStep, CopyStep DEF RelayNext, Ended

(* The relay, in either of its two forms and with peers that end their     *)
(* streams or vanish at any time, implements Duplex: what each side        *)
(* receives is what the other has sent, in order, whole up to the point    *)
(* where it is cut off (server.rs 286-369).                                *)
THEOREM RelayImplementsDuplex == RelaySpec => ImplementsDuplex
<1>1. RelayInit => Stream!Init
  <2>. SUFFICES ASSUME RelayInit  PROVE Stream!Init
    OBVIOUS
  <2>1. \A d \in Dir : Pipe(d) = <<>>
    BY DEF RelayInit, Pipe
  <2>2. [d \in Dir |-> Pipe(d)] = [d \in Dir |-> <<>>]
    BY <2>1
  <2>. QED  BY <2>2 DEF RelayInit, Stream!Init, Stream!Dir, Dir, Running
<1>. QED  BY <1>1, RelayInitInv, NextStep, PTL DEF RelaySpec, ImplementsDuplex, Stream!Spec
-----------------------------------------------------------------------------
(* The keys under which the kernel finds the sockets of a pair.            *)

LEMMA Word16 == \A b \in Word(2) : FromLe16(b) \in Below(65536) /\ FromBe16(b) \in Below(65536)
  BY SMT DEF FromLe16, FromBe16, Word, Below

LEMMA Word32 == \A b \in Word(4) : FromLe32(b) \in Below(4294967296)
  BY SMT DEF FromLe32, Word, Below

LEMMA Word16Injective ==
  ASSUME NEW b \in Word(2), NEW c \in Word(2),
         FromLe16(b) = FromLe16(c) \/ FromBe16(b) = FromBe16(c)
  PROVE  b = c
<1>. /\ b[1] \in Nat /\ b[1] < 256 /\ b[2] \in Nat /\ b[2] < 256
     /\ c[1] \in Nat /\ c[1] < 256 /\ c[2] \in Nat /\ c[2] < 256
  BY SMT DEF Word, Below
<1>1. CASE FromLe16(b) = FromLe16(c)
  BY SMT, <1>1 DEF FromLe16, Word
<1>2. CASE FromBe16(b) = FromBe16(c)
  BY SMT, <1>2 DEF FromBe16, Word
<1>. QED  BY <1>1, <1>2

LEMMA Word32Injective == \A b, c \in Word(4) : FromLe32(b) = FromLe32(c) => b = c
  BY SMT DEF FromLe32, Word, Below

(* The three parts of a key can be told apart again.                       *)
LEMMA Unpack ==
  ASSUME NEW a \in Below(65536), NEW b \in Below(65536), NEW c \in Below(4294967296),
         NEW x \in Below(65536), NEW y \in Below(65536), NEW z \in Below(4294967296),
         ((a % 65536) * 65536 + (b % 65536)) * 4294967296 + c
           = ((x % 65536) * 65536 + (y % 65536)) * 4294967296 + z
  PROVE  a = x /\ b = y /\ c = z
<1>1. a % 65536 = a /\ b % 65536 = b /\ x % 65536 = x /\ y % 65536 = y
  BY SMT DEF Below
<1>2. a * 65536 + b = x * 65536 + y /\ c = z
  BY SMT, <1>1 DEF Below
<1>. QED  BY SMT, <1>2 DEF Below

(* The program looks a socket up under the key the loader has put it       *)
(* under, although one reads the packet and the other the socket           *)
(* addresses: without that every pair would be dead (tuple.rs 1-2,         *)
(* relay.bpf.c 18-26).                                                     *)
THEOREM KernelAgrees ==
  \A s \in Socket : build_tuple_key(s) # NoKey => KernelKey(SkBuff(s)) = build_tuple_key(s)
<1>. TAKE s \in Socket
<1>1. FromLe16(s.peer.port) \in Below(65536)
  BY SMT, Word16 DEF Socket
<1>2. (65536 * FromLe16(s.peer.port)) \div 65536 = FromLe16(s.peer.port)
  BY SMT, <1>1 DEF Below
<1>. QED  BY SMT, <1>2 DEF KernelKey, SkBuff, build_tuple_key, tuple_key

(* Two sockets with the same local address never share a key unless they   *)
(* are one connection: a pair cannot take the place of another, nor its    *)
(* removal hit another (linux.rs 85-105, 113-116).  The local address is   *)
(* not in the key.                                                         *)
THEOREM KeysAreDistinct ==
  \A s, t \in Socket :
    /\ build_tuple_key(s) # NoKey
    /\ build_tuple_key(s) = build_tuple_key(t)
    /\ s.local.ip = t.local.ip
    => s = t
<1>. SUFFICES ASSUME NEW s \in Socket, NEW t \in Socket,
                     build_tuple_key(s) # NoKey,
                     build_tuple_key(s) = build_tuple_key(t), s.local.ip = t.local.ip
              PROVE  s = t
  OBVIOUS
<1>1. /\ FromBe16(s.local.port) \in Below(65536) /\ FromBe16(t.local.port) \in Below(65536)
      /\ FromLe16(s.peer.port) \in Below(65536) /\ FromLe16(t.peer.port) \in Below(65536)
      /\ FromLe32(s.peer.ip) \in Below(4294967296) /\ FromLe32(t.peer.ip) \in Below(4294967296)
  BY SMT, Word16, Word32 DEF Socket
<1>2. /\ FromBe16(s.local.port) = FromBe16(t.local.port)
      /\ FromLe16(s.peer.port) = FromLe16(t.peer.port)
      /\ FromLe32(s.peer.ip) = FromLe32(t.peer.ip)
  BY SMT, <1>1, Unpack DEF build_tuple_key, tuple_key
<1>3. s.local.port = t.local.port /\ s.peer.port = t.peer.port /\ s.peer.ip = t.peer.ip
  BY SMT, <1>2, Word16Injective, Word32Injective DEF Socket
<1>. QED  BY SMT, <1>3 DEF Socket
=============================================================================
