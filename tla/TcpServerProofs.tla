--------------------------- MODULE TcpServerProofs ---------------------------
(***************************************************************************)
(* Proofs about TcpServer for any sets of sessions and fd numbers.         *)
(***************************************************************************)
EXTENDS TcpServer, TLAPS

(* The numbers of open streams are distinct, and a session has one from    *)
(* its accept on.                                                          *)
FdsDistinct ==
    /\ \A s \in Session : pc[s] # "idle" => fd[s] \in Fd
    /\ \A s, t \in Session : s # t /\ Open(s) /\ Open(t) => fd[s] # fd[t]

(* When the Arcs exist: run_client's from the dial to its return, the one  *)
(* of activate_sockmap while it runs, and then it is the same connection.  *)
ArcsHeld ==
    \A s \in Session :
        /\ held[s] # None <=> pc[s] \in Dialed \cup {"drop"}
        /\ found[s] = IF pc[s] \in {"insert", "pair"} THEN held[s] ELSE None

(* A connection is only used and cached under the number of its dialer.    *)
SameNumber ==
    /\ \A s \in Session : held[s] # None =>
           fd[held[s]] = fd[s] /\ pc[held[s]] \in Dialed \cup Closing \cup {"done"}
    /\ \A f \in Fd : connections[f] # None =>
           fd[connections[f]] = f /\ pc[connections[f]] \in Dialed \cup Closing

(* The cache slot of a session that has its connection is empty or holds   *)
(* that connection.                                                        *)
SlotAgrees ==
    \A s \in Session : pc[s] \in Dialed =>
        connections[fd[s]] \in {None, held[s]}

(* The sockhash entries of a session that has not yet left.                *)
KernelAgrees ==
    \A s \in Session : pc[s] \in {"idle"} \cup Opened =>
        /\ fwd[s] # None => fwd[s] = held[s] /\ pc[s] \in {"pair", "wait"}
        /\ \A c \in Session :
               bwd[c] = s => held[s] = c /\ pc[s] \in {"pair", "wait"}

IInv ==
    /\ TypeOK
    /\ FdsDistinct
    /\ ArcsHeld
    /\ SameNumber
    /\ SlotAgrees
    /\ KernelAgrees
    /\ EntriesHaveOwner

-----------------------------------------------------------------------------
LEMMA InitIInv == Init => IInv
  BY ConstantsAssumption DEF Init, IInv, TypeOK, FdsDistinct, ArcsHeld, SameNumber, SlotAgrees,
     KernelAgrees, EntriesHaveOwner, PC, Opened, Dialed, Closing, Conn, Open

-----------------------------------------------------------------------------
(* Every action preserves IInv.                                            *)

USE ConstantsAssumption
    DEF IInv, TypeOK, FdsDistinct, ArcsHeld, SameNumber, SlotAgrees, KernelAgrees,
        EntriesHaveOwner, Open, PC, Opened, Dialed, Closing, Conn,
        Goto, adapterVars, kernelVars, peerVars

LEMMA ClientSendIInv == ASSUME NEW s \in Session, IInv, ClientSend(s) PROVE IInv'
  BY DEF ClientSend

LEMMA ClientCloseIInv == ASSUME NEW s \in Session, IInv, ClientClose(s) PROVE IInv'
  BY DEF ClientClose

LEMMA BackendCloseIInv == ASSUME NEW s \in Session, IInv, BackendClose(s) PROVE IInv'
  BY DEF BackendClose, LiveConn

LEMMA AcceptIInv == ASSUME NEW s \in Session, IInv, Accept(s) PROVE IInv'
<1>1. PICK f \in FreeFd : fd' = [fd EXCEPT ![s] = f]
  BY Zenon DEF Accept
<1>2. f \in Fd /\ \A t \in Session : Open(t) => fd[t] # f
  BY <1>1 DEF FreeFd
<1>3. /\ pc[s] = "idle" /\ pc' = [pc EXCEPT ![s] = "first"]
      /\ UNCHANGED <<tls, held, found, bfd, adapterVars, kernelVars, peerVars>>
  BY Zenon DEF Accept
<1>4. TypeOK' /\ FdsDistinct' /\ ArcsHeld'
  BY <1>1, <1>2, <1>3
<1>5. SameNumber' /\ SlotAgrees' /\ KernelAgrees'
  BY <1>1, <1>2, <1>3
<1>6. EntriesHaveOwner'
  BY <1>1, <1>2, <1>3
<1> QED
  BY <1>4, <1>5, <1>6, Zenon

LEMMA ReadFirstIInv == ASSUME NEW s \in Session, IInv, ReadFirst(s) PROVE IInv'
<1>1. CASE pc' = [pc EXCEPT ![s] = "lookup"]
  <2>1. /\ pc[s] = "first"
        /\ UNCHANGED <<fd, tls, held, found, bfd, adapterVars, kernelVars, peerVars>>
    BY Zenon DEF ReadFirst
  <2>2. TypeOK' /\ FdsDistinct' /\ ArcsHeld'
    BY <1>1, <2>1
  <2>3. SameNumber' /\ SlotAgrees' /\ KernelAgrees' /\ EntriesHaveOwner'
    BY <1>1, <2>1
  <2> QED
    BY <2>2, <2>3, Zenon
<1>2. CASE pc' = [pc EXCEPT ![s] = "tls"]
  <2>1. /\ pc[s] = "first"
        /\ UNCHANGED <<fd, tls, held, found, bfd, adapterVars, kernelVars, peerVars>>
    BY Zenon DEF ReadFirst
  <2>2. TypeOK' /\ FdsDistinct' /\ ArcsHeld'
    BY <1>2, <2>1
  <2>3. SameNumber' /\ SlotAgrees' /\ KernelAgrees' /\ EntriesHaveOwner'
    BY <1>2, <2>1
  <2> QED
    BY <2>2, <2>3, Zenon
<1> QED
  BY <1>1, <1>2, Zenon DEF ReadFirst

LEMMA FirstFailsIInv == ASSUME NEW s \in Session, IInv, FirstFails(s) PROVE IInv'
  BY DEF FirstFails, Return

LEMMA UpgradeIInv == ASSUME NEW s \in Session, IInv, Upgrade(s) PROVE IInv'
<1>1. TypeOK' /\ FdsDistinct' /\ ArcsHeld'
  BY DEF Upgrade
<1>2. SameNumber' /\ SlotAgrees'
  BY DEF Upgrade
<1>3. KernelAgrees'
  BY DEF Upgrade
<1>4. EntriesHaveOwner'
  BY DEF Upgrade
<1> QED
  BY <1>1, <1>2, <1>3, <1>4, Zenon

LEMMA UpgradeFailsIInv == ASSUME NEW s \in Session, IInv, UpgradeFails(s) PROVE IInv'
  BY DEF UpgradeFails, Return

LEMMA LookupIInv == ASSUME NEW s \in Session, IInv, Lookup(s) PROVE IInv'
<1>1. CASE connections[fd[s]] # None
  <2>1. /\ pc[s] = "lookup"
        /\ held' = [held EXCEPT ![s] = connections[fd[s]]]
        /\ pc' = [pc EXCEPT ![s] = "send"]
        /\ UNCHANGED <<fd, tls, found, bfd, adapterVars, kernelVars, peerVars>>
    BY <1>1, Zenon DEF Lookup
  <2> QED
    BY <1>1, <2>1
<1>2. CASE connections[fd[s]] = None
  <2>1. /\ pc[s] = "lookup"
        /\ pc' = [pc EXCEPT ![s] = "route"]
        /\ UNCHANGED <<fd, tls, held, found, bfd, adapterVars, kernelVars, peerVars>>
    BY <1>2, Zenon DEF Lookup
  <2> QED
    BY <2>1
<1> QED
  BY <1>1, <1>2, Zenon

LEMMA RouteIInv == ASSUME NEW s \in Session, IInv, Route(s) PROVE IInv'
  BY DEF Route, FreeFd

LEMMA DialIInv == ASSUME NEW s \in Session, IInv, Dial(s) PROVE IInv'
<1>1. TypeOK' /\ FdsDistinct' /\ ArcsHeld'
  BY DEF Dial
<1>2. SameNumber' /\ SlotAgrees'
  BY DEF Dial
<1>3. KernelAgrees'
  BY DEF Dial
<1>4. EntriesHaveOwner'
  BY DEF Dial
<1> QED
  BY <1>1, <1>2, <1>3, <1>4, Zenon

LEMMA GetConnectionFailsIInv == ASSUME NEW s \in Session, IInv, GetConnectionFails(s) PROVE IInv'
  BY DEF GetConnectionFails, Return

LEMMA SendIInv == ASSUME NEW s \in Session, IInv, Send(s) PROVE IInv'
<1>1. TypeOK' /\ FdsDistinct' /\ ArcsHeld'
  BY DEF Send
<1>2. SameNumber' /\ SlotAgrees'
  BY DEF Send
<1>3. KernelAgrees'
  BY DEF Send
<1>4. EntriesHaveOwner'
  BY DEF Send
<1> QED
  BY <1>1, <1>2, <1>3, <1>4, Zenon

LEMMA SendFailsIInv == ASSUME NEW s \in Session, IInv, SendFails(s) PROVE IInv'
<1>1. TypeOK' /\ FdsDistinct' /\ ArcsHeld'
  BY DEF SendFails, Return
<1>2. SameNumber' /\ SlotAgrees'
  BY DEF SendFails, Return
<1>3. KernelAgrees'
  BY DEF SendFails, Return
<1>4. EntriesHaveOwner'
  BY DEF SendFails, Return
<1> QED
  BY <1>1, <1>2, <1>3, <1>4, Zenon

LEMMA FindIInv == ASSUME NEW s \in Session, IInv, Find(s) PROVE IInv'
<1>1. CASE SockmapLoaded /\ connections[fd[s]] # None
  <2>1. /\ pc[s] = "find"
        /\ found' = [found EXCEPT ![s] = connections[fd[s]]]
        /\ pc' = [pc EXCEPT ![s] = "insert"]
        /\ UNCHANGED <<fd, tls, held, bfd, adapterVars, kernelVars, peerVars>>
    BY <1>1, Zenon DEF Find
  <2> QED
    BY <1>1, <2>1
<1>2. CASE ~(SockmapLoaded /\ connections[fd[s]] # None)
  <2>1. /\ pc[s] = "find"
        /\ pc' = [pc EXCEPT ![s] = "own"]
        /\ UNCHANGED <<fd, tls, held, found, bfd, adapterVars, kernelVars, peerVars>>
    BY <1>2, Zenon DEF Find
  <2> QED
    BY <2>1
<1> QED
  BY <1>1, <1>2, Zenon

LEMMA InsertPairIInv == ASSUME NEW s \in Session, IInv, InsertPair(s) PROVE IInv'
<1>1. TypeOK' /\ FdsDistinct' /\ ArcsHeld'
  BY DEF InsertPair
<1>2. SameNumber' /\ SlotAgrees'
  BY DEF InsertPair
<1>3. KernelAgrees'
  BY DEF InsertPair
<1>4. EntriesHaveOwner'
  BY DEF InsertPair
<1> QED
  BY <1>1, <1>2, <1>3, <1>4, Zenon

LEMMA InsertPairFailsIInv == ASSUME NEW s \in Session, IInv, InsertPairFails(s) PROVE IInv'
  BY DEF InsertPairFails

LEMMA RecordPairIInv == ASSUME NEW s \in Session, IInv, RecordPair(s) PROVE IInv'
<1>1. TypeOK' /\ FdsDistinct' /\ ArcsHeld'
  BY DEF RecordPair
<1>2. SameNumber' /\ SlotAgrees'
  BY DEF RecordPair
<1>3. KernelAgrees'
  BY DEF RecordPair
<1>4. EntriesHaveOwner'
  BY DEF RecordPair
<1> QED
  BY <1>1, <1>2, <1>3, <1>4, Zenon

LEMMA WaitForCloseIInv == ASSUME NEW s \in Session, IInv, WaitForClose(s) PROVE IInv'
  BY DEF WaitForClose

LEMMA DropArcIInv == ASSUME NEW s \in Session, IInv, DropArc(s) PROVE IInv'
  BY DEF DropArc, Return

LEMMA TryUnwrapIInv == ASSUME NEW s \in Session, IInv, TryUnwrap(s) PROVE IInv'
  BY DEF TryUnwrap

LEMMA RelayEndsIInv == ASSUME NEW s \in Session, IInv, RelayEnds(s) PROVE IInv'
  BY DEF RelayEnds, Return

LEMMA UnpairIInv == ASSUME NEW s \in Session, IInv, Unpair(s) PROVE IInv'
<1>1. TypeOK' /\ FdsDistinct' /\ ArcsHeld'
  BY DEF Unpair
<1>2. SameNumber' /\ SlotAgrees'
  BY DEF Unpair
<1>3. KernelAgrees'
  BY DEF Unpair
<1>4. EntriesHaveOwner'
  BY DEF Unpair
<1> QED
  BY <1>1, <1>2, <1>3, <1>4, Zenon

LEMMA RemovePairIInv == ASSUME NEW s \in Session, IInv, RemovePair(s) PROVE IInv'
<1>1. CASE allocated_pairs[fd[s]] = None
  <2>1. /\ pc[s] = "unmap" /\ pc' = [pc EXCEPT ![s] = "evict"]
        /\ UNCHANGED <<fd, tls, held, found, bfd, adapterVars, kernelVars, peerVars>>
    BY <1>1, Zenon DEF RemovePair
  <2>2. TypeOK' /\ FdsDistinct' /\ ArcsHeld' /\ SameNumber' /\ SlotAgrees'
    BY <2>1
  <2>3. KernelAgrees' /\ EntriesHaveOwner'
    BY <1>1, <2>1
  <2> QED
    BY <2>2, <2>3, Zenon
<1>2. CASE allocated_pairs[fd[s]] # None
  <2>1. fd[s] \in Fd /\ allocated_pairs[fd[s]] \in Session \X Session
    BY <1>2 DEF RemovePair
  <2>2. PICK t \in Session, c \in Session : allocated_pairs[fd[s]] = <<t, c>>
    BY <2>1
  <2>3. /\ pc[s] = "unmap"
        /\ fwd' = [fwd EXCEPT ![t] = None]
        /\ bwd' = [bwd EXCEPT ![c] = None]
        /\ allocated_pairs' = [allocated_pairs EXCEPT ![fd[s]] = None]
        /\ pc' = [pc EXCEPT ![s] = "evict"]
        /\ UNCHANGED <<fd, tls, held, found, bfd, adapterVars, peerVars>>
    <3>1. allocated_pairs[fd[s]][1] = t /\ allocated_pairs[fd[s]][2] = c
      BY <2>2
    <3> QED
      BY <1>2, <3>1, Zenon DEF RemovePair
  <2>4. TypeOK' /\ FdsDistinct' /\ ArcsHeld'
    BY <2>1, <2>3
  <2>5. SameNumber' /\ SlotAgrees'
    BY <2>1, <2>3
  <2>6. KernelAgrees'
    BY <2>1, <2>3
  <2>7. EntriesHaveOwner'
    BY <2>1, <2>3
  <2> QED
    BY <2>4, <2>5, <2>6, <2>7, Zenon
<1> QED
  BY <1>1, <1>2, Zenon

LEMMA EvictIInv == ASSUME NEW s \in Session, IInv, Evict(s) PROVE IInv'
  BY DEF Evict

LEMMA StutterIInv == ASSUME IInv, UNCHANGED vars PROVE IInv'
  BY DEF vars

HIDE ConstantsAssumption
     DEF IInv, TypeOK, FdsDistinct, ArcsHeld, SameNumber, SlotAgrees, KernelAgrees,
         EntriesHaveOwner, Open, PC, Opened, Dialed, Closing, Conn,
         Goto, adapterVars, kernelVars, peerVars

LEMMA NextIInv == IInv /\ [Next]_vars => IInv'
  BY ClientSendIInv, ClientCloseIInv, BackendCloseIInv, AcceptIInv,
     ReadFirstIInv, FirstFailsIInv, UpgradeIInv, UpgradeFailsIInv,
     LookupIInv, RouteIInv, DialIInv, GetConnectionFailsIInv, SendIInv,
     SendFailsIInv, FindIInv, InsertPairIInv, InsertPairFailsIInv,
     RecordPairIInv, WaitForCloseIInv, DropArcIInv, TryUnwrapIInv,
     RelayEndsIInv, UnpairIInv, RemovePairIInv, EvictIInv, StutterIInv, Zenon
  DEF Next, Peer, Task, Finished

LEMMA SpecIInv == Spec => []IInv
<1>1. IInv /\ [Next]_vars => IInv'
  BY NextIInv, Zenon
<1> QED
  BY InitIInv, <1>1, PTL DEF Spec

-----------------------------------------------------------------------------
(* TypeOK holds for any number of clients and fd numbers.                  *)
THEOREM TypeCorrect == Spec => []TypeOK
<1>1. IInv => TypeOK
  BY Zenon DEF IInv
<1> QED
  BY SpecIInv, <1>1, PTL

(* No two open clients of a port ever share a backend connection: they     *)
(* would have to have the same fd number.                                  *)
THEOREM BackendIsExclusive == Spec => []ExclusiveBackend
<1>1. IInv => ExclusiveBackend
  BY DEF IInv, TypeOK, Conn, FdsDistinct, SameNumber, ExclusiveBackend
<1> QED
  BY SpecIInv, <1>1, PTL

(* However the closes of sessions on one number interleave, no entry of    *)
(* the adapter's maps or the loader's table is left without a session that *)
(* will still remove it.                                                   *)
THEOREM NothingLeaks == Spec => []EntriesHaveOwner
<1>1. IInv => EntriesHaveOwner
  BY Zenon DEF IInv
<1> QED
  BY SpecIInv, <1>1, PTL

(* The sockhash only ever joins an open client to the connection that its  *)
(* own session holds, and only while that session leaves the bytes alone.  *)
THEOREM KernelPairsAreOwn == Spec => []KernelJoinsOwnPair
<1>1. IInv => KernelJoinsOwnPair
  BY ConstantsAssumption
  DEF IInv, TypeOK, KernelAgrees, KernelJoinsOwnPair, Redirects, Returns, Open, LiveConn
<1> QED
  BY SpecIInv, <1>1, PTL
=============================================================================
