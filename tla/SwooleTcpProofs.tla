---------------------------- MODULE SwooleTcpProofs ---------------------------
(***************************************************************************)
(* The safety properties of SwooleTcp for any number of packets, with the  *)
(* sockmap or without it.                                                  *)
(***************************************************************************)
EXTENDS SwooleTcp, TLAPS

NoneWaits == \A n \in Packet : ~Waiting(n) /\ target[n] = None

(* Nothing has been dialed: no trace of a backend anywhere.                *)
NoBackend ==
    /\ connections = None /\ backend = None /\ backendSocket = None
    /\ sockmapPairs = None /\ closed = {}
    /\ \A s \in Socket : peers[s] = None
    /\ \A n \in Packet : reader[n] = None /\ wire[n] = <<>> /\ target[n] = None

(* A client that waits for its packets to be passed on: it has sent        *)
(* nothing, its first packet is in hand, or that one has failed ...        *)
Silent  == sent = 0 /\ queue = <<>> /\ NoneWaits /\ ~registered
Arrived == sent = 1 /\ queue = <<1>> /\ NoneWaits /\ ~registered
Dialing ==
    /\ sent = 1 /\ queue = <<>> /\ (registered \/ told)
    /\ pc[1] \in {"route", "dial"}
    /\ \A n \in Packet : Waiting(n) => n = 1
Failed  == queue = <<>> /\ NoneWaits /\ ~exist

Unserved == NoBackend /\ (Silent \/ Arrived \/ Dialing \/ Failed)

(* ... or it has the backend dialed for its first packet, and no other,    *)
(* which has been sent the packets up to some m.                           *)
Numbers(m) == [k \in 1..m |-> k]

OneBackend ==
    /\ connections \in {None, 1} /\ backend \in {None, 1} /\ backendSocket \in {None, 1}
    /\ told \/ (registered /\ backend = 1 /\ connections = 1)
    /\ sockmapPairs \in {None, 1}
    /\ \A n \in Packet : reader[n] \in {None, 1}

(* The kernel's table has no entries but those of the pair.                *)
Tidy == \A s \in Socket : peers[s] # None => s \in {Own, sockmapPairs} /\ sockmapPairs # None

(* The last packet is passed on, received, or being sent.                  *)
Idle   == queue = <<>> /\ NoneWaits
Queued == queue = <<sent>> /\ NoneWaits /\ sockmapPairs = None
Parked ==
    /\ queue = <<>> /\ target[sent] = 1
    /\ pc[sent] = "send" \/ (pc[sent] = "initial" /\ sent = 1)
    /\ \A n \in Packet \ {sent} : ~Waiting(n) /\ target[n] = None

Arrives(m) ==
    /\ wire[1] = Numbers(m)
    /\ Idle => (exist /\ 1 \notin closed => m = sent)
    /\ ~Idle => (1 \notin closed => m = sent - 1)

PassedOn ==
    /\ sent \in 1..MaxPackets
    /\ Idle \/ Queued \/ Parked
    /\ \A n \in Packet \ {1} : wire[n] = <<>>
    /\ \E m \in 0..sent : Arrives(m)

Served == OneBackend /\ Tidy /\ PassedOn

Flags ==
    /\ eager \in BOOLEAN /\ exist \in BOOLEAN /\ told \in BOOLEAN /\ mispaired \in BOOLEAN
    /\ told => ~exist

Typed ==
    /\ sent \in Nat /\ queue \in Seq(1..MaxPackets)
    /\ DOMAIN pc = 1..MaxPackets /\ DOMAIN target = 1..MaxPackets
    /\ DOMAIN wire = 1..MaxPackets /\ DOMAIN reader = 1..MaxPackets
    /\ DOMAIN peers = Socket /\ connections \in 1..MaxPackets \cup {None}

(* Whatever the client does, what knows of a pair agrees on it.            *)
PairInv ==
    /\ allocatedPairs = None <=> sockmapPairs = None
    /\ sockmapPairs # None =>
          /\ connections # None /\ sockmapPairs \in 1..MaxPackets
          /\ allocatedPairs.far = sockmapPairs
          /\ ~mispaired => /\ allocatedPairs.near = Own
                           /\ peers[Own] = sockmapPairs /\ peers[sockmapPairs] = Own

Basics == Flags /\ Typed /\ PairInv

IInv == Basics /\ (eager \/ mispaired \/ Unserved \/ Served)

-----------------------------------------------------------------------------
LEMMA QueueBack ==
  ASSUME NEW S, NEW q \in Seq(S), NEW x \in S
  PROVE  Append(q, x) \in Seq(S)
  OBVIOUS

LEMMA QueueFront ==
  ASSUME NEW S, NEW q \in Seq(S), q # <<>>
  PROVE  Head(q) \in S /\ Tail(q) \in Seq(S)
  OBVIOUS

LEMMA FlagsKept ==
  ASSUME Flags, UNCHANGED <<eager, told, mispaired>>, exist' = exist \/ exist' = FALSE
  PROVE  Flags'
<1>1. CASE exist' = exist
  BY <1>1, Zenon DEF Flags
<1>2. CASE exist' = FALSE
  <2>1. exist' \in BOOLEAN /\ ~exist'
    BY <1>2, Zenon
  <2>. QED  BY <2>1, Zenon DEF Flags
<1>. QED  BY <1>1, <1>2, Zenon

LEMMA PairKept ==
  ASSUME PairInv, UNCHANGED pairVars, connections # None => connections' # None
  PROVE  PairInv'
  BY Zenon DEF PairInv, pairVars

LEMMA InitInv == ASSUME Init  PROVE IInv
<1>1. Flags
  BY Zenon DEF Init, Flags
<1>2. Typed
  BY SwooleAssumption DEF Init, Typed, Packet, Socket
<1>3. PairInv
  BY Zenon DEF Init, PairInv
<1>4. Unserved
  BY SwooleAssumption, Zenon
  DEF Init, Unserved, Silent, NoBackend, NoneWaits, Packet, Waiting
<1>. QED  BY <1>1, <1>2, <1>3, <1>4 DEF IInv, Basics

(* A step that leaves the pair alone, and does not forget the client.      *)
LEMMA PlainBasics ==
  ASSUME Basics, UNCHANGED <<sent, eager, told, pairVars>>,
         connections' = connections \/ connections' \in Packet,
         exist' = exist \/ exist' = FALSE, queue' \in Seq(1..MaxPackets),
         DOMAIN pc' = DOMAIN pc, DOMAIN target' = DOMAIN target,
         DOMAIN wire' = DOMAIN wire, DOMAIN reader' = DOMAIN reader
  PROVE  Basics'
<1>0. \A n \in Packet : n # None
  BY SwooleAssumption DEF Packet
<1>1. PairInv'
  BY <1>0, PairKept, Zenon DEF Basics
<1>2. Typed'
  BY Zenon DEF Basics, Typed, pairVars, Socket, Packet
<1>3. Flags'
  BY FlagsKept, Zenon DEF Basics, pairVars
<1>. QED  BY <1>1, <1>2, <1>3, Zenon DEF Basics

LEMMA OnReceiveBasics == ASSUME Basics, OnReceive  PROVE Basics'
<1>0. UNCHANGED <<sent, eager, told, pairVars, connections, exist, wire, reader>>
  BY Zenon DEF OnReceive, PassOn, GetConnection, adapterVars
<1>1. queue' \in Seq(1..MaxPackets)
  BY QueueFront, Zenon DEF OnReceive, Basics, Typed
<1>2. DOMAIN pc' = DOMAIN pc /\ DOMAIN target' = DOMAIN target
  BY Zenon DEF OnReceive, PassOn, GetConnection, Connected, Send
<1>. QED  BY <1>0, <1>1, <1>2, PlainBasics, Zenon

LEMMA InsertPairKeeps ==
  ASSUME Basics, Activate, UNCHANGED <<eager, exist, told, connections>>
  PROVE  PairInv' /\ Flags' /\ DOMAIN peers' = Socket'
<1>1. PICK near \in {Own, Other} :
        /\ allocatedPairs' = [near |-> near, far |-> connections]
        /\ peers' = [s \in Socket |-> IF s = connections THEN near
                                      ELSE IF s = near THEN connections ELSE peers[s]]
        /\ mispaired' = (mispaired \/ near # Own)
  BY Zenon DEF Activate, InsertPair
<1>2. /\ connections \in 1..MaxPackets /\ connections # None /\ sockmapPairs' = connections
      /\ connections \in Socket /\ Own \in Socket /\ Own # connections
  BY SwooleAssumption DEF Activate, Basics, Typed, Socket, Packet
<1>3. allocatedPairs' \in [near : {Own, Other}, far : Nat]
  BY <1>1, <1>2, SwooleAssumption
<1>4. allocatedPairs' # None /\ allocatedPairs'.far = connections /\ allocatedPairs'.near = near
  BY <1>1, <1>3, SwooleAssumption
<1>5. ~mispaired' => near = Own
  BY <1>1, Zenon
<1>6. near = Own => peers'[Own] = connections /\ peers'[connections] = Own
  BY <1>1, <1>2, Zenon
<1>7. PairInv'
  BY <1>2, <1>4, <1>5, <1>6, Zenon DEF PairInv
<1>8. mispaired' \in BOOLEAN
  BY <1>1, Zenon
<1>9. Flags'
  BY <1>8, Zenon DEF Basics, Flags
<1>. QED  BY <1>1, <1>7, <1>9, Zenon DEF Socket, Packet

LEMMA CoroutineBasics ==
  ASSUME Basics, NEW n \in Packet, Coroutine(n)
  PROVE  Basics'
<1>0. UNCHANGED <<sent, eager, told, queue>>
  BY Zenon DEF Coroutine, Routed, Dialed, GetConnectionFails, InitialSent, Sent, SendFails,
     clientVars
<1>1. queue' \in Seq(1..MaxPackets)
  BY <1>0, Zenon DEF Basics, Typed
<1>2. CASE InitialSent(n) /\ Activate
  <2>0. UNCHANGED connections
    BY <1>2, Zenon DEF InitialSent, adapterVars
  <2>1. UNCHANGED exist \/ UNCHANGED pairVars
    BY <1>2, Zenon DEF InitialSent
  <2>2. DOMAIN pc' = DOMAIN pc /\ DOMAIN target' = DOMAIN target /\ DOMAIN wire' = DOMAIN wire
    BY <1>2 DEF InitialSent
  <2>3. DOMAIN reader' = DOMAIN reader /\ (exist' = exist \/ exist' = FALSE)
    BY <1>2 DEF InitialSent, Forward
  <2>4. CASE UNCHANGED pairVars
    BY <1>0, <1>1, <2>0, <2>2, <2>3, <2>4, PlainBasics, Zenon
  <2>5. CASE UNCHANGED exist
    <3>1. PairInv' /\ Flags' /\ DOMAIN peers' = Socket'
      BY <1>0, <1>2, <2>0, <2>5, InsertPairKeeps, Zenon
    <3>. QED  BY <1>0, <1>1, <2>0, <2>2, <2>3, <3>1, Zenon DEF Basics, Typed
  <2>. QED  BY <2>1, <2>4, <2>5, Zenon
<1>3. CASE InitialSent(n) /\ ~Activate
  <2>1. /\ UNCHANGED <<connections, pairVars>> /\ DOMAIN pc' = DOMAIN pc
        /\ DOMAIN target' = DOMAIN target /\ DOMAIN wire' = DOMAIN wire
        /\ DOMAIN reader' = DOMAIN reader /\ (exist' = exist \/ exist' = FALSE)
    BY <1>3 DEF InitialSent, Forward, adapterVars
  <2>. QED  BY <1>0, <1>1, <2>1, PlainBasics, Zenon
<1>4. CASE Routed(n) \/ Dialed(n) \/ GetConnectionFails(n) \/ Sent(n) \/ SendFails(n)
  <2>1. UNCHANGED <<pairVars, reader>> /\ (connections' = connections \/ connections' \in Packet)
    BY <1>4, Zenon DEF Routed, Dialed, GetConnectionFails, Sent, SendFails, adapterVars
  <2>2. exist' = exist \/ exist' = FALSE
    BY <1>4, Zenon DEF Routed, Dialed, GetConnectionFails, Sent, SendFails
  <2>3. DOMAIN pc' = DOMAIN pc /\ DOMAIN target' = DOMAIN target /\ DOMAIN wire' = DOMAIN wire
    BY <1>4 DEF Routed, Dialed, GetConnectionFails, Sent, SendFails, Connected, Send
  <2>. QED  BY <1>0, <1>1, <2>1, <2>2, <2>3, PlainBasics, Zenon
<1>. QED  BY <1>2, <1>3, <1>4, Zenon DEF Coroutine

LEMMA OnCloseBasics == ASSUME Basics, OnClose  PROVE Basics'
<1>1. PairInv'
  BY Zenon DEF Basics, PairInv, OnClose, CloseConnection, RemovePair, pairVars, adapterVars
<1>2. DOMAIN peers' = Socket'
  BY Zenon DEF Basics, Typed, OnClose, CloseConnection, RemovePair, pairVars, Socket, Packet
<1>3. connections' \in {connections, None}
  BY Zenon DEF OnClose, CloseConnection, adapterVars
<1>4. UNCHANGED <<eager, exist, mispaired>> /\ told' = TRUE /\ ~exist
  BY Zenon DEF OnClose, CloseConnection, RemovePair, clientVars, pairVars
<1>5. Typed'
  BY <1>2, <1>3, Zenon DEF Basics, Typed, OnClose, clientVars, runVars
<1>6. Flags'
  BY <1>4, Zenon DEF Basics, Flags
<1>. QED  BY <1>1, <1>5, <1>6, Zenon DEF Basics

LEMMA ClientSendBasics ==
  ASSUME Basics, ClientSend  PROVE Basics'
<1>1. PairInv'
  BY PairKept, Zenon DEF Basics, ClientSend, adapterVars
<1>2. sent + 1 \in 1..MaxPackets /\ sent' = sent + 1 /\ sent' \in Nat
  BY SwooleAssumption DEF Basics, Typed, ClientSend
<1>3. Typed'
  <2>1. queue' \in Seq(1..MaxPackets)
    BY <1>2, QueueBack, Zenon DEF Basics, Typed, ClientSend
  <2>2. DOMAIN wire' = DOMAIN wire
    BY Zenon DEF ClientSend
  <2>. QED  BY <1>2, <2>1, <2>2, Zenon
       DEF Basics, Typed, ClientSend, runVars, adapterVars, pairVars, Socket, Packet
<1>4. eager' \in BOOLEAN /\ UNCHANGED <<exist, told, mispaired>>
  BY Zenon DEF ClientSend, pairVars
<1>5. Flags'
  BY <1>4, Zenon DEF Basics, Flags
<1>. QED  BY <1>1, <1>3, <1>5, Zenon DEF Basics

LEMMA OtherPairsBasics ==
  ASSUME Basics, OtherPairs
  PROVE  Basics'
<1>1. /\ mispaired' = TRUE /\ DOMAIN peers' = DOMAIN peers
      /\ UNCHANGED <<clientVars, runVars, exist, told, connections, sockmapPairs,
                     allocatedPairs, wire, reader>>
  BY Zenon DEF OtherPairs, adapterVars
<1>2. PairInv'
  BY <1>1, Zenon DEF Basics, PairInv
<1>3. Typed'
  BY <1>1, Zenon DEF Basics, Typed, clientVars, runVars, Socket, Packet
<1>4. Flags'
  BY <1>1, Zenon DEF Basics, Flags, clientVars
<1>. QED  BY <1>2, <1>3, <1>4, Zenon DEF Basics

LEMMA WorkerExitsBasics ==
  ASSUME Basics, WorkerExits  PROVE Basics'
<1>1. PairInv'
  BY Zenon DEF WorkerExits, PairInv
<1>2. Typed'
  <2>1. queue' \in Seq(1..MaxPackets)
    BY DEF WorkerExits
  <2>. QED  BY <2>1, Zenon DEF Basics, Typed, WorkerExits, Socket, Packet
<1>3. /\ exist' \in BOOLEAN /\ ~exist' /\ told' \in BOOLEAN
      /\ UNCHANGED <<eager, mispaired>>
  BY Zenon DEF WorkerExits
<1>4. Flags'
  BY <1>3, Zenon DEF Basics, Flags
<1>. QED  BY <1>1, <1>2, <1>4, Zenon DEF Basics

LEMMA OthersBasics ==
  ASSUME Basics,
         \/ ClientClose \/ UNCHANGED vars
         \/ \E n \in Packet : BackendClose(n) \/ ForwardEnds(n)
  PROVE  Basics'
<1>1. UNCHANGED <<sent, queue, eager, told, pairVars, connections, pc, target, wire>>
  BY Zenon DEF ClientClose, vars, BackendClose, ForwardEnds, clientVars, adapterVars, runVars
<1>2. DOMAIN reader' = DOMAIN reader /\ (exist' = exist \/ exist' = FALSE)
  BY Zenon DEF ClientClose, vars, BackendClose, ForwardEnds
<1>3. queue' \in Seq(1..MaxPackets)
  BY <1>1, Zenon DEF Basics, Typed
<1>. QED  BY <1>1, <1>2, <1>3, PlainBasics, Zenon

-----------------------------------------------------------------------------
(* The steps of a client that waits for its packets to be passed on.       *)

LEMMA NumbersGrow ==
  ASSUME NEW m \in Nat
  PROVE  Append(Numbers(m), m + 1) = Numbers(m + 1)
<1>1. Numbers(m) \in Seq(Nat) /\ Len(Numbers(m)) = m
  BY DEF Numbers
<1>2. Append(Numbers(m), m + 1) = [k \in 1..(m + 1) |-> IF k <= m THEN Numbers(m)[k] ELSE m + 1]
  BY <1>1
<1>3. \A k \in 1..(m + 1) : (IF k <= m THEN Numbers(m)[k] ELSE m + 1) = k
  BY DEF Numbers
<1>. QED  BY <1>2, <1>3, Zenon DEF Numbers

LEMMA First ==
    1 \in Packet /\ 1 # None /\ Own \in Socket /\ 1 \in Socket /\ Own # None /\ Own # 1
  BY SwooleAssumption DEF Packet, Socket

(* A packet appended to those that have arrived.                           *)
LEMMA WireGrows ==
  ASSUME Typed, \A n \in Packet \ {1} : wire[n] = <<>>, NEW m \in Nat, wire[1] = Numbers(m),
         wire' = [wire EXCEPT ![1] = Append(@, m + 1)]
  PROVE  wire'[1] = Numbers(m + 1) /\ \A n \in Packet \ {1} : wire'[n] = <<>>
<1>1. wire'[1] = Append(Numbers(m), m + 1)
  BY First DEF Typed, Packet
<1>2. Append(Numbers(m), m + 1) = Numbers(m + 1)
  BY NumbersGrow, Zenon
<1>3. \A n \in Packet \ {1} : wire'[n] = wire[n]
  BY DEF Typed, Packet
<1>. QED  BY <1>1, <1>2, <1>3, Zenon

LEMMA ClientSendKeeps ==
  ASSUME Basics, ~mispaired, Unserved \/ Served, ClientSend, ~eager'
  PROVE  Unserved' \/ Served'
<1>0. /\ exist /\ queue = <<>> /\ \A n \in Packet : ~Waiting(n)
      /\ sent < MaxPackets /\ sent' = sent + 1 /\ sent \in Nat
  BY Zenon DEF ClientSend, InHand, Basics, Typed
<1>1. UNCHANGED <<pc, target, exist, told, registered, backend, backendSocket, connections,
                  sockmapPairs, peers, closed, reader>>
  BY Zenon DEF ClientSend, runVars, serverVars, adapterVars, pairVars
<1>2. CASE Unserved
  <2>1. Silent /\ NoBackend
    BY <1>0, <1>2, First, Zenon DEF Unserved, Arrived, Dialing, Failed, Waiting
  <2>2. peers[Own] = None
    BY <2>1, First, Zenon DEF NoBackend
  <2>3. wire' = wire /\ queue' = <<1>> /\ sent' = 1
    BY <1>0, <2>1, <2>2 DEF Silent, ClientSend
  <2>4. NoBackend' /\ Arrived'
    BY <1>1, <2>1, <2>3, Zenon
    DEF NoBackend, Silent, Arrived, NoneWaits, Waiting, Packet, Socket
  <2>. QED  BY <2>4, Zenon DEF Unserved
<1>3. CASE Served
  <2>0. Idle
    <3>1. ~Parked
      <4>1. sent \in Packet
        BY <1>3 DEF Served, PassedOn, Packet
      <4>. QED  BY <1>0, <4>1 DEF Parked, Waiting
    <3>2. ~Queued
      BY <1>0 DEF Queued
    <3>. QED  BY <1>3, <3>1, <3>2, Zenon DEF Served, PassedOn
  <2>1. ~told /\ backend = 1 /\ 1 \in Held
    BY <1>0, <1>3, First, Zenon DEF Basics, Flags, Served, OneBackend, Held
  <2>2. OneBackend' /\ Tidy' /\ NoneWaits'
    BY <1>1, <1>3, <2>0, Zenon
    DEF Served, OneBackend, Tidy, Idle, NoneWaits, Waiting, Packet, Socket
  <2>3. PICK m \in 0..sent : wire[1] = Numbers(m) /\ (1 \notin closed => m = sent)
    BY <1>0, <1>3, <2>0, Zenon DEF Served, PassedOn, Arrives
  <2>4. sent' \in 1..MaxPackets /\ sent' - 1 = sent
    BY <1>0, SwooleAssumption
  <2>5. \A n \in Packet \ {1} : wire[n] = <<>>
    BY <1>3, Zenon DEF Served, PassedOn
  <2>6. CASE peers[Own] = None
    <3>1. queue' = <<sent'>> /\ wire' = wire /\ queue' # <<>>
      BY <1>0, <2>6 DEF ClientSend
    <3>2. sockmapPairs = None
      BY <2>6, First, Zenon DEF Basics, PairInv
    <3>3. Queued' /\ ~Idle'
      BY <1>1, <2>2, <3>1, <3>2, Zenon DEF Queued, Idle
    <3>4. m \in 0..sent' /\ Arrives(m)'
      BY <1>0, <1>1, <2>3, <2>4, <3>1, <3>3 DEF Arrives, Numbers
    <3>5. \A n \in Packet' \ {1} : wire'[n] = <<>>
      BY <2>5, <3>1, Zenon DEF Packet
    <3>6. PassedOn'
      BY <2>4, <3>3, <3>4, <3>5, Zenon DEF PassedOn
    <3>. QED  BY <2>2, <3>6, Zenon DEF Served
  <2>7. CASE peers[Own] # None
    <3>1. peers[Own] = 1
      <4>1. sockmapPairs # None
        BY <1>3, <2>7, First, Zenon DEF Served, Tidy
      <4>2. sockmapPairs = peers[Own] /\ peers[sockmapPairs] = Own /\ sockmapPairs \in 1..MaxPackets
        BY <4>1, Zenon DEF Basics, PairInv
      <4>. QED  BY <1>3, <4>1, <4>2, SwooleAssumption DEF Served, OneBackend
    <3>2. queue' = <<>> /\ Idle'
      BY <1>0, <2>2, <2>7, Zenon DEF ClientSend, Idle
    <3>3. CASE 1 \in closed
      <4>1. wire' = wire
        BY <2>7, <3>1, <3>3, Zenon DEF ClientSend
      <4>2. m \in 0..sent' /\ Arrives(m)'
        BY <1>0, <1>1, <2>3, <3>2, <3>3, <4>1 DEF Arrives, Numbers
      <4>3. \A n \in Packet' \ {1} : wire'[n] = <<>>
        BY <2>5, <4>1, Zenon DEF Packet
      <4>. QED  BY <2>2, <2>4, <3>2, <4>2, <4>3, Zenon DEF PassedOn, Served
    <3>4. CASE 1 \notin closed
      <4>1. wire' = [wire EXCEPT ![1] = Append(@, sent + 1)]
        BY <2>1, <2>7, <3>1, <3>4, Zenon DEF ClientSend
      <4>2. wire[1] = Numbers(sent)
        BY <2>3, <3>4, Zenon
      <4>3. wire'[1] = Numbers(sent + 1) /\ \A n \in Packet \ {1} : wire'[n] = <<>>
        BY <1>0, <2>5, <4>1, <4>2, WireGrows, Zenon DEF Basics
      <4>4. PICK j \in Nat : j = sent + 1
        BY <1>0
      <4>5. j \in 0..sent' /\ j = sent'
        BY <1>0, <4>4
      <4>6. Arrives(j)'
        BY <3>2, <4>3, <4>4, <4>5, Zenon DEF Arrives, Numbers
      <4>. QED  BY <2>2, <2>4, <3>2, <4>3, <4>5, <4>6, Zenon DEF PassedOn, Served, Packet
    <3>. QED  BY <3>3, <3>4
  <2>. QED  BY <2>6, <2>7
<1>. QED  BY <1>2, <1>3, Zenon

LEMMA QuietKeeps ==
  ASSUME Basics, Unserved \/ Served,
         UNCHANGED <<sent, queue, pc, target, told, registered, backend, backendSocket,
                     connections, sockmapPairs, peers, wire>>,
         \/ exist' \in {exist, FALSE} /\ UNCHANGED <<closed, reader>>
         \/ UNCHANGED <<exist, reader>>
             /\ \E b \in Held : closed' = closed \cup {b}
         \/ \E n \in Packet :
               /\ reader[n] # None /\ reader' = [reader EXCEPT ![n] = None]
               /\ exist' = FALSE /\ UNCHANGED closed
  PROVE  Unserved' \/ Served'
<1>1. CASE Unserved
  <2>1. UNCHANGED <<closed, reader>> /\ exist' \in {exist, FALSE}
    BY <1>1, Zenon DEF Unserved, NoBackend, Held
  <2>2. NoBackend'
    BY <1>1, <2>1, Zenon DEF Unserved, NoBackend, Packet, Socket
  <2>. QED
    BY <1>1, <2>1, <2>2, Zenon
    DEF Unserved, Silent, Arrived, Dialing, Failed, NoneWaits, Waiting, Packet
<1>2. CASE Served
  <2>1. OneBackend' /\ Tidy'
    BY <1>2, Zenon
    DEF Served, OneBackend, Tidy, Packet, Socket, Basics, Typed
  <2>2. closed \subseteq closed' /\ (exist' => exist)
    <3>1. CASE exist' \in {exist, FALSE} /\ UNCHANGED <<closed, reader>>
      <4>1. CASE exist' = exist
        BY <3>1, <4>1, Zenon
      <4>2. CASE exist' = FALSE
        BY <3>1, <4>2, Zenon
      <4>. QED  BY <3>1, <4>1, <4>2, Zenon
    <3>2. CASE UNCHANGED exist /\ \E b \in Held : closed' = closed \cup {b}
      BY <3>2, Zenon
    <3>3. CASE exist' = FALSE /\ UNCHANGED closed
      BY <3>3, Zenon
    <3>. QED  BY <3>1, <3>2, <3>3, Zenon
  <2>3. (Idle <=> Idle') /\ (Queued => Queued') /\ (Parked => Parked')
    BY Zenon DEF Idle, Queued, Parked, NoneWaits, Waiting, Packet
  <2>4. \A m \in 0..sent : Arrives(m) => Arrives(m)'
    BY <2>2, <2>3, Zenon DEF Arrives, Numbers
  <2>5. PassedOn'
    BY <1>2, <2>3, <2>4, Zenon DEF Served, PassedOn, Packet
  <2>. QED  BY <2>1, <2>5, Zenon DEF Served
<1>. QED  BY <1>1, <1>2, Zenon

LEMMA OnReceiveKeeps ==
  ASSUME Basics, ~mispaired, Unserved \/ Served, OnReceive
  PROVE  Unserved' \/ Served'
<1>0. /\ ~told /\ queue # <<>> /\ queue' = Tail(queue)
      /\ UNCHANGED <<sent, eager, told, closed, wire>>
      /\ PassOn(Head(queue)) \/ GetConnection(Head(queue))
  BY Zenon DEF OnReceive
<1>1. UNCHANGED <<exist, backendSocket, sockmapPairs, peers, reader, connections>>
  BY <1>0, Zenon DEF PassOn, GetConnection, serverVars, adapterVars, pairVars
<1>2. CASE Unserved
  <2>1. Arrived /\ NoBackend
    BY <1>0, <1>2, Zenon DEF Unserved, Silent, Dialing, Failed
  <2>2. Head(queue) = 1 /\ Tail(queue) = <<>>
    BY <2>1 DEF Arrived
  <2>3. /\ pc' = [pc EXCEPT ![1] = "route"] /\ registered' = TRUE
        /\ UNCHANGED <<backend, target>>
    BY <1>0, <2>1, <2>2, Zenon DEF Arrived, NoBackend, PassOn, GetConnection
  <2>4. NoBackend'
    BY <1>0, <1>1, <2>1, <2>3, Zenon DEF NoBackend, Packet, Socket
  <2>5. pc'[1] = "route" /\ \A n \in Packet \ {1} : pc'[n] = pc[n]
    BY <2>3, First DEF Packet, Basics, Typed
  <2>6. Dialing'
    BY <1>0, <2>1, <2>2, <2>3, <2>5, Zenon DEF Arrived, Dialing, NoneWaits, Packet, Waiting
  <2>. QED  BY <2>4, <2>6, Zenon DEF Unserved
<1>3. CASE Served
  <2>1. Queued /\ ~Idle /\ registered /\ backend = 1 /\ sent \in 1..MaxPackets
    BY <1>0, <1>3, Zenon DEF Served, OneBackend, PassedOn, Idle, Parked
  <2>2. Head(queue) = sent /\ Tail(queue) = <<>> /\ sent \in Packet
    BY <2>1 DEF Queued, Packet
  <2>3. PassOn(sent) /\ sockmapPairs = None
    BY <1>0, <2>1, <2>2, First, Zenon DEF GetConnection, Queued
  <2>4. /\ pc' = [pc EXCEPT ![sent] = "send"] /\ target' = [target EXCEPT ![sent] = 1]
        /\ UNCHANGED <<registered, backend>>
    BY <2>1, <2>3, Zenon DEF PassOn, Send, serverVars
  <2>5. /\ pc'[sent] = "send" /\ target'[sent] = 1
        /\ \A n \in Packet \ {sent} : pc'[n] = pc[n] /\ target'[n] = target[n]
    BY <2>2, <2>4, Zenon DEF Packet, Basics, Typed
  <2>6. Parked' /\ ~Idle'
    BY <1>0, <2>1, <2>2, <2>5, Zenon DEF Queued, Parked, Idle, NoneWaits, Waiting, Packet
  <2>7. OneBackend' /\ Tidy'
    BY <1>0, <1>1, <1>3, <2>4, Zenon DEF Served, OneBackend, Tidy, Packet, Socket
  <2>8. \A m \in 0..sent : Arrives(m) => Arrives(m)'
    BY <1>0, <2>1, <2>6, Zenon DEF Arrives, Numbers
  <2>9. PassedOn'
    BY <1>0, <1>3, <2>6, <2>8, Zenon DEF Served, PassedOn, Packet
  <2>. QED  BY <2>7, <2>9, Zenon DEF Served
<1>. QED  BY <1>2, <1>3, Zenon

(* Nobody is sending when the next packet is received.                     *)
LEMMA SendsOnce ==
  ASSUME Basics, Unserved \/ Served
  PROVE  ~SendsTwice
<1>1. CASE Unserved
  BY <1>1, Zenon DEF Unserved, NoBackend, SendsTwice
<1>2. CASE Served
  <2>1. \A n \in Packet : pc[n] # "route"
    <3>1. CASE NoneWaits
      BY <3>1, Zenon DEF NoneWaits, Waiting
    <3>2. CASE Parked
      BY <3>2 DEF Parked, Waiting
    <3>. QED  BY <1>2, <3>1, <3>2, Zenon DEF Served, PassedOn, Idle, Queued
  <2>2. ASSUME queue # <<>>, NEW b, b # None  PROVE ~Sending(b)
    <3>1. NoneWaits
      BY <1>2, <2>2, Zenon DEF Served, PassedOn, Idle, Queued, Parked
    <3>. QED  BY <2>2, <3>1, Zenon DEF NoneWaits, Sending
  <2>. QED  BY <2>1, <2>2, Zenon DEF SendsTwice
<1>. QED  BY <1>1, <1>2, Zenon

LEMMA DialingKeeps ==
  ASSUME Basics, Unserved, NEW n \in Packet, Coroutine(n)
  PROVE  Unserved' \/ Served'
<1>0. Waiting(n) /\ UNCHANGED <<sent, queue, told, registered, closed>>
  BY Zenon DEF Coroutine, Routed, Dialed, GetConnectionFails, InitialSent, Sent, SendFails,
     Waiting, clientVars, serverVars
<1>1. Dialing /\ NoBackend /\ n = 1
  BY <1>0, Zenon DEF Unserved, Silent, Arrived, Failed, Dialing, NoneWaits
<1>2. pc[1] # "initial" /\ pc[1] # "send"
  BY <1>1 DEF Dialing
<1>3. CASE Routed(n)
  <2>1. /\ pc' = [pc EXCEPT ![1] = "dial"]
        /\ UNCHANGED <<target, exist, backend, backendSocket, sockmapPairs, peers, wire, reader,
                       connections>>
    BY <1>1, <1>3, Zenon DEF NoBackend, Routed, pairVars, adapterVars
  <2>2. NoBackend'
    BY <1>0, <1>1, <2>1, Zenon DEF NoBackend, Packet, Socket
  <2>3. pc'[1] = "dial" /\ \A k \in Packet \ {1} : pc'[k] = pc[k]
    BY <2>1, First DEF Packet, Basics, Typed
  <2>4. Dialing'
    BY <1>0, <1>1, <2>3, Zenon DEF Dialing, Packet, Waiting
  <2>. QED  BY <2>2, <2>4, Zenon DEF Unserved
<1>4. CASE GetConnectionFails(n)
  <2>1. /\ pc' = [pc EXCEPT ![1] = "over"] /\ exist' = FALSE
        /\ UNCHANGED <<target, backend, backendSocket, sockmapPairs, peers, wire, reader,
                       connections>>
    BY <1>1, <1>4, Zenon DEF GetConnectionFails, pairVars, adapterVars, serverVars
  <2>2. NoBackend'
    BY <1>0, <1>1, <2>1, Zenon DEF NoBackend, Packet, Socket
  <2>3. pc'[1] = "over" /\ \A k \in Packet \ {1} : pc'[k] = pc[k]
    BY <2>1, First DEF Packet, Basics, Typed
  <2>4. Failed'
    <3>1. \A k \in Packet : ~(pc'[k] \in {"route", "dial", "initial", "send"})
      BY <1>1, <2>3 DEF Dialing, Waiting
    <3>2. NoneWaits'
      BY <2>2, <3>1, Zenon DEF NoBackend, NoneWaits, Waiting, Packet
    <3>. QED  BY <1>0, <1>1, <2>1, <3>2, Zenon DEF Dialing, Failed
  <2>. QED  BY <2>2, <2>4, Zenon DEF Unserved
<1>5. CASE Dialed(n)
  <2>1. /\ connections' = 1 /\ backend' = 1
        /\ pc' = [pc EXCEPT ![1] = "initial"] /\ target' = [target EXCEPT ![1] = 1]
        /\ UNCHANGED <<exist, backendSocket, sockmapPairs, peers, wire, reader>>
    BY <1>1, <1>5, Zenon DEF Dialed, Connected, Send, pairVars
  <2>2. /\ pc'[1] = "initial" /\ target'[1] = 1
        /\ \A k \in Packet \ {1} : pc'[k] = pc[k] /\ target'[k] = target[k]
    BY <2>1, First DEF Packet, Basics, Typed
  <2>3. OneBackend' /\ Tidy'
    BY <1>0, <1>1, <2>1, Zenon DEF NoBackend, Dialing, OneBackend, Tidy, Packet, Socket
  <2>4. Parked'
    BY <1>0, <1>1, <2>2, Zenon DEF NoBackend, Dialing, Parked, Waiting, Packet
  <2>5. ~Idle'
    BY <2>2, First, Zenon DEF Idle, NoneWaits, Waiting, Packet
  <2>6. 0 \in 0..sent' /\ Arrives(0)' /\ sent' \in 1..MaxPackets
    <3>1. wire'[1] = [k \in 1..0 |-> k]
      BY <1>1, <2>1, First DEF NoBackend
    <3>. QED  BY <1>0, <1>1, <2>5, <3>1, SwooleAssumption DEF Dialing, Arrives, Numbers
  <2>7. \A k \in Packet' \ {1} : wire'[k] = <<>>
    BY <1>1, <2>1, Zenon DEF NoBackend, Packet
  <2>. QED  BY <2>3, <2>4, <2>6, <2>7, Zenon DEF PassedOn, Served
<1>. QED  BY <1>1, <1>2, <1>3, <1>4, <1>5, Zenon DEF Coroutine, InitialSent, Sent, SendFails

(* The coroutine whose send has ended.                                     *)
LEMMA SendEnds ==
  ASSUME Basics, Parked, sent \in Packet,
         pc' = [pc EXCEPT ![sent] = "over"], target' = [target EXCEPT ![sent] = None],
         UNCHANGED queue
  PROVE  Idle' /\ ~Idle
<1>1. /\ pc'[sent] = "over" /\ target'[sent] = None
      /\ \A k \in Packet \ {sent} : pc'[k] = pc[k] /\ target'[k] = target[k]
  BY Zenon DEF Packet, Basics, Typed
<1>2. \A k \in Packet : ~(pc'[k] \in {"route", "dial", "initial", "send"}) /\ target'[k] = None
  BY <1>1 DEF Parked, Waiting
<1>3. NoneWaits'
  BY <1>2, Zenon DEF NoneWaits, Waiting, Packet
<1>4. ~NoneWaits
  BY First, Zenon DEF Parked, NoneWaits
<1>. QED  BY <1>3, <1>4, Zenon DEF Idle, Parked

(* ... with the packet on the wire, unless the socket is closed.           *)
LEMMA SendArrives ==
  ASSUME Basics, PassedOn, Parked, Idle', UNCHANGED <<sent, closed>>,
         wire' = IF 1 \in closed THEN wire ELSE [wire EXCEPT ![1] = Append(@, sent)]
  PROVE  PassedOn'
<1>0. ~Idle
  <2>1. sent \in Packet /\ ~NoneWaits
    BY First DEF PassedOn, Parked, NoneWaits, Packet
  <2>. QED  BY <2>1, Zenon DEF Idle
<1>1. PICK m \in 0..sent : wire[1] = Numbers(m) /\ (1 \notin closed => m = sent - 1)
  BY <1>0, Zenon DEF PassedOn, Arrives
<1>2. sent' \in 1..MaxPackets /\ \A k \in Packet \ {1} : wire[k] = <<>>
  BY Zenon DEF PassedOn
<1>3. CASE 1 \in closed
  <2>1. m \in 0..sent' /\ Arrives(m)'
    BY <1>1, <1>3 DEF Arrives, Numbers
  <2>. QED  BY <1>2, <1>3, <2>1, Zenon DEF PassedOn, Packet
<1>4. CASE 1 \notin closed
  <2>1. m \in Nat /\ sent = m + 1 /\ sent \in 0..sent
    BY <1>1, <1>2, <1>4 DEF PassedOn
  <2>2. wire'[1] = Numbers(sent) /\ \A k \in Packet \ {1} : wire'[k] = <<>>
    BY <1>1, <1>2, <1>4, <2>1, WireGrows DEF Basics
  <2>3. sent \in 0..sent' /\ Arrives(sent)'
    BY <2>1, <2>2, Zenon DEF Arrives, Numbers
  <2>. QED  BY <1>2, <2>2, <2>3, Zenon DEF PassedOn, Packet
<1>. QED  BY <1>3, <1>4

LEMMA SendingKeeps ==
  ASSUME Basics, ~mispaired', Served, NEW n \in Packet, Coroutine(n)
  PROVE  Served'
<1>0. Waiting(n) /\ UNCHANGED <<sent, queue, told, registered, closed>>
  BY Zenon DEF Coroutine, Routed, Dialed, GetConnectionFails, InitialSent, Sent, SendFails,
     Waiting, clientVars, serverVars
<1>1. Parked /\ n = sent /\ target[n] = 1 /\ OneBackend /\ Tidy /\ PassedOn
  BY <1>0, Zenon DEF Served, PassedOn, Idle, Queued, Parked, NoneWaits
<1>2. pc[n] # "route" /\ pc[n] # "dial"
  BY <1>1 DEF Parked
<1>3. CASE Sent(n) \/ SendFails(n)
  <2>1. /\ pc' = [pc EXCEPT ![sent] = "over"] /\ target' = [target EXCEPT ![sent] = None]
        /\ UNCHANGED <<backend, backendSocket, connections, sockmapPairs, peers, reader>>
    BY <1>1, <1>3, Zenon DEF Sent, SendFails, serverVars, adapterVars, pairVars
  <2>2. OneBackend' /\ Tidy'
    BY <1>0, <1>1, <2>1, Zenon DEF OneBackend, Tidy, Packet, Socket
  <2>3. Idle' /\ ~Idle
    BY <1>0, <1>1, <2>1, SendEnds, Zenon
  <2>4. CASE Sent(n)
    BY <1>0, <1>1, <2>2, <2>3, <2>4, SendArrives, Zenon DEF Sent, Served
  <2>5. CASE SendFails(n)
    <3>1. wire' = wire /\ ~exist'
      BY <2>5, Zenon DEF SendFails
    <3>2. \A m \in 0..sent : Arrives(m) => Arrives(m)'
      BY <2>3, <3>1, Zenon DEF Arrives, Numbers
    <3>3. PassedOn'
      BY <1>0, <1>1, <2>3, <3>1, <3>2, Zenon DEF PassedOn, Packet
    <3>. QED  BY <2>2, <3>3, Zenon DEF Served
  <2>. QED  BY <1>3, <2>4, <2>5, Zenon
<1>4. CASE InitialSent(n)
  <2>1. /\ pc' = [pc EXCEPT ![sent] = "over"] /\ target' = [target EXCEPT ![sent] = None]
        /\ wire' = IF 1 \in closed THEN wire ELSE [wire EXCEPT ![1] = Append(@, 1)]
        /\ UNCHANGED <<backend, connections>> /\ pc[n] = "initial"
    BY <1>1, <1>4, Zenon DEF InitialSent, adapterVars
  <2>2. sent = 1
    BY <1>1, <2>1 DEF Parked
  <2>3. Idle'
    BY <1>0, <1>1, <2>1, SendEnds, Zenon
  <2>4. PassedOn'
    BY <1>0, <1>1, <2>1, <2>2, <2>3, SendArrives, Zenon
  <2>5. backendSocket' \in {None, 1}
    BY <1>1, <1>4, Zenon DEF InitialSent, Forward, OneBackend
  <2>6. \A k \in Packet' : reader'[k] \in {None, 1}
    BY <1>1, <1>4, Zenon DEF InitialSent, Forward, OneBackend, Packet, Basics, Typed
  <2>7. sockmapPairs' \in {None, 1} /\ Tidy'
    <3>1. CASE UNCHANGED pairVars
      BY <1>1, <3>1, Zenon DEF pairVars, OneBackend, Tidy, Packet, Socket
    <3>2. CASE Activate
      <4>1. connections = 1 /\ sockmapPairs' = 1
        BY <1>1, <3>2, Zenon DEF Activate, OneBackend
      <4>2. PICK near \in {Own, Other} :
              /\ peers' = [s \in Socket |-> IF s = 1 THEN near ELSE IF s = near THEN 1 ELSE peers[s]]
              /\ mispaired' = (mispaired \/ near # Own)
        BY <3>2, <4>1, Zenon DEF Activate, InsertPair
      <4>3. near = Own
        BY <4>2, Zenon
      <4>4. \A s \in Socket : peers'[s] # None => s \in {Own, 1}
        BY <1>1, <4>2, <4>3, First, Zenon DEF Tidy, OneBackend
      <4>. QED  BY <4>1, <4>4, First, Zenon DEF Tidy, Socket, Packet
    <3>. QED  BY <1>4, <3>1, <3>2, Zenon DEF InitialSent
  <2>8. OneBackend'
    BY <1>0, <1>1, <2>1, <2>5, <2>6, <2>7, Zenon DEF OneBackend
  <2>. QED  BY <2>4, <2>7, <2>8, Zenon DEF Served
<1>. QED  BY <1>2, <1>3, <1>4, Zenon DEF Coroutine, Routed, Dialed, GetConnectionFails

LEMMA OnCloseKeeps ==
  ASSUME Basics, ~mispaired, Unserved \/ Served, OnClose
  PROVE  Unserved' \/ Served'
<1>0. told' = TRUE /\ ~exist /\ UNCHANGED <<sent, queue, pc, target, exist, wire, reader>>
  BY Zenon DEF OnClose, clientVars, runVars
<1>1. CASE Unserved
  <2>1. connections = None /\ backendSocket = None /\ closed = {}
    BY <1>1, Zenon DEF Unserved, NoBackend
  <2>2. /\ UNCHANGED <<connections, sockmapPairs, peers>>
        /\ backend' \in {backend, None} /\ backendSocket' = None
    BY <2>1, Zenon DEF OnClose, CloseConnection, serverVars, adapterVars, pairVars
  <2>3. Unexported = None
    BY <2>1, Zenon DEF Unexported
  <2>4. closed' = {}
    BY <2>1, <2>3, Zenon DEF OnClose
  <2>5. NoBackend'
    BY <1>0, <1>1, <2>2, <2>4, Zenon DEF Unserved, NoBackend, Packet, Socket
  <2>6. ~registered => ~registered'
    BY Zenon DEF OnClose, serverVars
  <2>. QED
    BY <1>0, <1>1, <2>5, <2>6, Zenon
    DEF Unserved, Silent, Arrived, Dialing, Failed, NoneWaits, Waiting, Packet
<1>2. CASE Served
  <2>1. closed \subseteq closed'
    BY Zenon DEF OnClose
  <2>2. /\ connections' \in {connections, None} /\ backend' \in {backend, None}
        /\ backendSocket' \in {backendSocket, None} /\ sockmapPairs' \in {sockmapPairs, None}
    BY Zenon DEF OnClose, CloseConnection, RemovePair, serverVars, adapterVars, pairVars
  <2>3. OneBackend'
    BY <1>0, <1>2, <2>2, Zenon DEF Served, OneBackend, Packet
  <2>4. Tidy'
    <3>1. CASE UNCHANGED pairVars
      BY <1>2, <3>1, Zenon DEF Served, Tidy, pairVars, Socket, Packet
    <3>2. CASE sockmapPairs # None /\ RemovePair
      <4>1. allocatedPairs.near = Own /\ allocatedPairs.far = sockmapPairs
        BY <3>2, Zenon DEF Basics, PairInv
      <4>2. \A s \in Socket : peers'[s] = None
        BY <1>2, <3>2, <4>1, Zenon DEF Served, Tidy, RemovePair
      <4>. QED  BY <4>2, Zenon DEF Tidy, Socket, Packet
    <3>. QED  BY <3>1, <3>2, Zenon DEF OnClose, CloseConnection
  <2>5. (Idle <=> Idle') /\ (Queued => Queued') /\ (Parked => Parked')
    BY <1>0, <2>2, Zenon DEF Idle, Queued, Parked, NoneWaits, Waiting, Packet
  <2>6. \A m \in 0..sent : Arrives(m) => Arrives(m)'
    BY <1>0, <2>1, <2>5, Zenon DEF Arrives, Numbers
  <2>7. PassedOn'
    BY <1>0, <1>2, <2>5, <2>6, Zenon DEF Served, PassedOn, Packet
  <2>. QED  BY <2>3, <2>4, <2>7, Zenon DEF Served
<1>. QED  BY <1>1, <1>2, Zenon

THEOREM Invariance == Spec => []IInv
<1>1. ASSUME IInv, [Next]_vars  PROVE IInv'
  <2>0. Basics
    BY <1>1, Zenon DEF IInv
  <2>1. Basics'
    BY <1>1, <2>0, OnReceiveBasics, CoroutineBasics, OnCloseBasics, ClientSendBasics,
       OtherPairsBasics, WorkerExitsBasics, OthersBasics
    DEF Next, Finished, SendsTwice
  <2>2. ASSUME ~eager', ~mispaired'  PROVE Unserved' \/ Served'
    <3>1. ~eager
      BY <1>1, <2>2, Zenon
      DEF Next, Finished, ClientSend, ClientClose, OtherPairs, OnReceive, OnClose, BackendClose,
          SendsTwice, WorkerExits, Coroutine, Routed, Dialed, GetConnectionFails, InitialSent,
          Sent, SendFails, ForwardEnds, clientVars, vars
    <3>2. ~mispaired
      <4>1. mispaired' = mispaired \/ mispaired' = TRUE \/ \E near : mispaired' = (mispaired \/ near)
        BY <1>1, Zenon
        DEF Next, Finished, ClientSend, ClientClose, OtherPairs, OnReceive, PassOn, GetConnection,
            OnClose, CloseConnection, RemovePair, BackendClose, SendsTwice, WorkerExits, Coroutine,
            Routed, Dialed, GetConnectionFails, InitialSent, Activate, InsertPair, Sent, SendFails,
            ForwardEnds, pairVars, vars
      <4>. QED  BY <2>2, <4>1, Zenon
    <3>3. Unserved \/ Served
      BY <1>1, <3>1, <3>2, Zenon DEF IInv
    <3>4. CASE ClientSend
      BY <2>0, <2>2, <3>2, <3>3, <3>4, ClientSendKeeps, Zenon
    <3>5. CASE OnReceive
      BY <2>0, <3>2, <3>3, <3>5, OnReceiveKeeps, Zenon
    <3>6. CASE OnClose
      BY <2>0, <3>2, <3>3, <3>6, OnCloseKeeps, Zenon
    <3>7. ASSUME NEW n \in Packet, Coroutine(n)  PROVE Unserved' \/ Served'
      BY <2>0, <2>2, <3>3, <3>7, DialingKeeps, SendingKeeps, Zenon
    <3>8. CASE ClientClose \/ UNCHANGED vars
      BY <2>0, <3>3, <3>8, QuietKeeps
      DEF ClientClose, vars, clientVars, runVars, serverVars, adapterVars, pairVars
    <3>9. ASSUME NEW n \in Packet, BackendClose(n)  PROVE Unserved' \/ Served'
      BY <2>0, <3>3, <3>9, QuietKeeps
      DEF BackendClose, clientVars, runVars, serverVars, adapterVars, pairVars
    <3>10. ASSUME NEW n \in Packet, ForwardEnds(n)  PROVE Unserved' \/ Served'
      BY <2>0, <3>3, <3>10, QuietKeeps
      DEF ForwardEnds, clientVars, runVars, serverVars, adapterVars, pairVars
    <3>11. ~SendsTwice /\ ~OtherPairs
      BY <2>0, <2>2, <3>3, SendsOnce, Zenon DEF OtherPairs
    <3>. QED
      BY <1>1, <3>4, <3>5, <3>6, <3>7, <3>8, <3>9, <3>10, <3>11, Zenon DEF Next, Finished
  <2>. QED  BY <2>1, <2>2, Zenon DEF IInv
<1>2. Init => IInv
  BY InitInv, Zenon
<1>. QED  BY <1>1, <1>2, PTL DEF Spec

(* A client of the event-driven server that waits until its packet is      *)
(* passed on has one backend, which gets every packet once and in order,   *)
(* for any number of packets, with the sockmap or without it, as long as   *)
(* connection ids find the right sockets (Swoole.php 284-341).             *)
THEOREM PacketsInOrder == Spec => []InOrder
<1>1. ASSUME IInv  PROVE InOrder
  <2>1. CASE eager \/ mispaired
    BY <2>1, Zenon DEF InOrder
  <2>2. CASE Unserved
    <3>1. backend = None /\ \A b \in Packet : wire[b] = <<>>
      BY <2>2, Zenon DEF Unserved, NoBackend
    <3>2. \A b \in Packet : wire[b] = [k \in 1..0 |-> k]
      BY <2>2 DEF Unserved, NoBackend
    <3>3. 0 \in 0..sent
      BY <1>1 DEF IInv, Basics, Typed
    <3>. QED  BY <3>1, <3>2, <3>3, Zenon DEF InOrder
  <2>3. CASE Served
    <3>1. PICK m \in 0..sent : Arrives(m)
      BY <2>3, Zenon DEF Served, PassedOn
    <3>2. \A b, c \in Packet : wire[b] # <<>> /\ wire[c] # <<>> => b = c
      BY <2>3, Zenon DEF Served, PassedOn
    <3>3. \A b \in Packet : \E i \in 0..sent : wire[b] = [k \in 1..i |-> k]
      <4>1. <<>> = [k \in 1..0 |-> k] /\ 0 \in 0..sent
        BY <1>1 DEF IInv, Basics, Typed
      <4>. QED  BY <2>3, <3>1, <4>1 DEF Served, PassedOn, Arrives, Numbers
    <3>4. ASSUME exist, backend # None, backend \notin closed, ~InHand
          PROVE  Len(wire[backend]) = sent
      <4>1. backend = 1 /\ sent \in Packet /\ sent \in Nat
        BY <1>1, <2>3, <3>4 DEF Served, OneBackend, PassedOn, Packet, IInv, Basics, Typed
      <4>2. ~Parked /\ ~Queued
        BY <3>4, <4>1 DEF InHand, Parked, Queued, Waiting
      <4>3. wire[backend] = Numbers(sent)
        BY <2>3, <3>1, <3>4, <4>1, <4>2, Zenon DEF Served, PassedOn, Arrives
      <4>4. Len(Numbers(sent)) = sent
        BY <4>1 DEF Numbers
      <4>. QED  BY <4>3, <4>4, Zenon
    <3>. QED  BY <3>2, <3>3, <3>4, Zenon DEF InOrder
  <2>. QED  BY <1>1, <2>1, <2>2, <2>3, Zenon DEF IInv
<1>2. Spec => []IInv
  BY Invariance, Zenon
<1>. QED  BY <1>1, <1>2, PTL

(* Adapter and loader agree on the pair, it never outlives the cached      *)
(* client, and the kernel has both its entries, and no others for a client *)
(* that waits, as long as connection ids find the right sockets: for any   *)
(* number of packets (TCP.php 262-334, Loader.php 209-257).                *)
THEOREM PairsAreWhole == Spec => []PairIsWhole
<1>1. ASSUME IInv  PROVE PairIsWhole
  <2>1. ASSUME ~eager, ~mispaired
        PROVE  \A s \in Socket : peers[s] # None => s \in {Own, sockmapPairs} /\ sockmapPairs # None
    BY <1>1, <2>1, Zenon DEF IInv, Unserved, NoBackend, Served, Tidy
  <2>. QED  BY <1>1, <2>1, Zenon DEF IInv, Basics, PairInv, PairIsWhole
<1>2. Spec => []IInv
  BY Invariance, Zenon
<1>. QED  BY <1>1, <1>2, PTL
=============================================================================
