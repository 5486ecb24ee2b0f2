--------------------------- MODULE HttpPoolProofs ---------------------------
(***************************************************************************)
(* Proofs that the safety properties of HttpPool hold for any number of    *)
(* requests and any pool size.  Shape, which says where every client is    *)
(* and what is on its wire, is inductive by itself; Counts, about the      *)
(* permits and the number of clients, is inductive relative to it.         *)
(***************************************************************************)
EXTENDS HttpPool, FiniteSetTheorems, TLAPS

(* A guard object exists exactly between acquire and drop.                 *)
GuardsAgree == \A r \in Request : using[r] # Nothing <=> point[r] \in Holding

(* A request that has not dialed has no client named after it anywhere.    *)
Undialed ==
    \A r \in Request :
        point[r] \in {"idle", "permit", "pop", "connect"} =>
            /\ pending[r] = <<>>
            /\ \A q \in Request : using[q] # r
            /\ \A i \in DOMAIN idle : idle[i] # r

(* The only exchange on the connection of a lent client is its borrower's. *)
OwnExchange ==
    \A r \in Request :
        /\ point[r] \in {"body", "send"} => pending[using[r]] = <<>>
        /\ point[r] \in {"await", "collect"} => pending[using[r]] = <<r>>

(* Idle clients, and clients that report ready, have no exchange left.     *)
IdleClean ==
    /\ \A i \in DOMAIN idle : pending[idle[i]] = <<>>
    /\ \A c \in Request : ready[c] => pending[c] = <<>>

(* ClientExclusive, in terms of the positions of the deque.                *)
OnePlace ==
    /\ \A r, q \in Request : r # q /\ using[r] # Nothing => using[r] # using[q]
    /\ \A r \in Request : \A i \in DOMAIN idle : using[r] # idle[i]
    /\ \A i, j \in DOMAIN idle : i # j => idle[i] # idle[j]

Shape ==
    /\ TypeOK
    /\ GuardsAgree
    /\ Undialed
    /\ OwnExchange
    /\ IdleClean
    /\ OnePlace
    /\ OwnResponse

(* What pop_front and push_back do to the positions of the deque.          *)
LEMMA PopFront ==
    ASSUME NEW S, NEW q \in Seq(S), q # <<>>
    PROVE  /\ 1 \in DOMAIN q /\ Head(q) = q[1] /\ Head(q) \in S
           /\ Tail(q) \in Seq(S) /\ Len(Tail(q)) = Len(q) - 1
           /\ \A i \in DOMAIN Tail(q) :
                 /\ i + 1 \in DOMAIN q /\ i + 1 # 1
                 /\ Tail(q)[i] = q[i + 1]
  OBVIOUS

LEMMA PushBack ==
    ASSUME NEW S, NEW q \in Seq(S), NEW e \in S
    PROVE  /\ Append(q, e) \in Seq(S) /\ Len(Append(q, e)) = Len(q) + 1
           /\ \A i \in DOMAIN Append(q, e) :
                 \/ i \in DOMAIN q /\ Append(q, e)[i] = q[i]
                 \/ i = Len(q) + 1 /\ Append(q, e)[i] = e
  OBVIOUS

LEMMA InitShape == PoolInit => Shape
  BY PoolAssumption DEF PoolInit, Shape, TypeOK, GuardsAgree, Undialed, OwnExchange,
     IdleClean, OnePlace, OwnResponse, PC, Engaged, Holding

(* Letting go of a connection keeps those of the others apart.             *)
LEMMA ApartWithout ==
    ASSUME NEW S, NEW u, NEW v, NEW r \in S, NEW none, v[r] = none,
           \A q \in S : q # r => v[q] = u[q],
           \A q, p \in S : q # p /\ u[q] # none => u[q] # u[p]
    PROVE  \A q, p \in S : q # p /\ v[q] # none => v[q] # v[p]
  BY Zenon

(* So does putting a connection in the pool that is not there yet.         *)
LEMMA ApartWith ==
    ASSUME NEW s, NEW t, NEW c, NEW n,
           \A i \in DOMAIN t : (i \in DOMAIN s /\ t[i] = s[i]) \/ (i = n /\ t[i] = c),
           \A i \in DOMAIN s : s[i] # c,
           \A i, j \in DOMAIN s : i # j => s[i] # s[j]
    PROVE  \A i, j \in DOMAIN t : i # j => t[i] # t[j]
  BY Zenon

USE PoolAssumption DEF Shape, TypeOK, GuardsAgree, Undialed, OwnExchange,
     IdleClean, OnePlace, OwnResponse, PC, Engaged, Holding, Goto

LEMMA StartShape ==
    ASSUME NEW r \in Request, Shape, Start(r) PROVE Shape'
<1>1. TypeOK'
  BY DEF Start
<1>2. GuardsAgree'
  BY DEF Start
<1>3. Undialed'
  BY DEF Start
<1>4. OwnExchange'
  BY DEF Start
<1>5. IdleClean'
  BY DEF Start
<1>6. OnePlace'
  BY DEF Start
<1>7. OwnResponse'
  BY DEF Start
<1> QED
  BY <1>1, <1>2, <1>3, <1>4, <1>5, <1>6, <1>7, Zenon DEF Shape

LEMMA TakePermitShape ==
    ASSUME NEW r \in Request, Shape, TakePermit(r) PROVE Shape'
  BY DEF TakePermit

LEMMA PermitTimeoutShape ==
    ASSUME NEW r \in Request, Shape, PermitTimeout(r) PROVE Shape'
  BY DEF PermitTimeout

LEMMA PopShape ==
    ASSUME NEW r \in Request, Shape, Pop(r) PROVE Shape'
<1>1. CASE idle = <<>>
  <2>1. /\ point[r] = "pop" /\ point' = [point EXCEPT ![r] = "connect"]
        /\ UNCHANGED <<permits, idle, permit, using, healthy, ready, link, pending, answer>>
    BY <1>1, Zenon DEF Pop
  <2>2. TypeOK'
    BY <2>1
  <2>3. GuardsAgree'
    BY <2>1
  <2>4. Undialed'
    BY <2>1
  <2>5. OwnExchange'
    BY <2>1
  <2>6. IdleClean'
    BY <2>1
  <2>7. OnePlace'
    BY <2>1
  <2>8. OwnResponse'
    BY <2>1
  <2> QED
    BY <2>2, <2>3, <2>4, <2>5, <2>6, <2>7, <2>8, Zenon DEF Shape
<1>2. CASE idle # <<>> /\ IsHealthy(Head(idle))
  <2>1. /\ point[r] = "pop" /\ point' = [point EXCEPT ![r] = "body"]
        /\ idle' = Tail(idle)
        /\ using' = [using EXCEPT ![r] = idle[1]]
        /\ UNCHANGED <<permits, permit, healthy, ready, link, pending, answer>>
    BY <1>2, PopFront DEF Pop
  <2>2. /\ 1 \in DOMAIN idle /\ idle[1] \in Request /\ idle' \in Seq(Request)
        /\ \A i \in DOMAIN idle' : i + 1 \in DOMAIN idle /\ i + 1 # 1 /\ idle'[i] = idle[i + 1]
    BY <1>2, <2>1, PopFront
  <2>3. TypeOK' /\ GuardsAgree'
    BY <2>1, <2>2
  <2>4. Undialed'
    BY <2>1, <2>2
  <2>5. OwnExchange'
    BY <2>1, <2>2
  <2>6. IdleClean' /\ OwnResponse'
    BY <2>1, <2>2
  <2>7. OnePlace'
    BY <2>1, <2>2
  <2> QED
    BY <2>3, <2>4, <2>5, <2>6, <2>7, Zenon
<1>3. CASE idle # <<>> /\ ~IsHealthy(Head(idle))
  <2>1. /\ point[r] = "pop" /\ point' = [point EXCEPT ![r] = "connect"]
        /\ idle' = Tail(idle)
        /\ link' = [link EXCEPT ![idle[1]] = FALSE]
        /\ UNCHANGED <<permits, permit, using, healthy, ready, pending, answer>>
    BY <1>3, PopFront DEF Pop
  <2>2. /\ 1 \in DOMAIN idle /\ idle[1] \in Request /\ idle' \in Seq(Request)
        /\ \A i \in DOMAIN idle' : i + 1 \in DOMAIN idle /\ i + 1 # 1 /\ idle'[i] = idle[i + 1]
    BY <1>3, <2>1, PopFront
  <2>3. TypeOK' /\ GuardsAgree'
    BY <2>1, <2>2
  <2>4. Undialed' /\ OwnExchange'
    BY <2>1, <2>2
  <2>5. IdleClean' /\ OnePlace' /\ OwnResponse'
    BY <2>1, <2>2
  <2> QED
    BY <2>3, <2>4, <2>5, Zenon
<1> QED
  BY <1>1, <1>2, <1>3, Zenon

LEMMA ConnectShape ==
    ASSUME NEW r \in Request, Shape, Connect(r) PROVE Shape'
<1>1. TypeOK'
  BY Zenon DEF Connect
<1>2. GuardsAgree'
  BY DEF Connect
<1>3. Undialed'
  BY DEF Connect
<1>4. OwnExchange'
  BY DEF Connect
<1>5. IdleClean'
  BY Zenon DEF Connect
<1>6. OnePlace'
  BY DEF Connect
<1>7. OwnResponse'
  BY Zenon DEF Connect
<1> QED
  BY <1>1, <1>2, <1>3, <1>4, <1>5, <1>6, <1>7

LEMMA ConnectFailsShape ==
    ASSUME NEW r \in Request, Shape, ConnectFails(r) PROVE Shape'
<1>1. TypeOK'
  BY Zenon DEF ConnectFails
<1>2. GuardsAgree'
  BY DEF ConnectFails
<1>3. Undialed'
  BY DEF ConnectFails
<1>4. OwnExchange'
  BY Zenon DEF ConnectFails
<1>5. IdleClean'
  BY Zenon DEF ConnectFails
<1>6. OnePlace'
  BY DEF ConnectFails
<1>7. OwnResponse'
  BY DEF ConnectFails
<1> QED
  BY <1>1, <1>2, <1>3, <1>4, <1>5, <1>6, <1>7

LEMMA BodyShape ==
    ASSUME NEW r \in Request, Shape, Body(r) PROVE Shape'
  BY DEF Body

LEMMA BodyFailsShape ==
    ASSUME NEW r \in Request, Shape, BodyFails(r) PROVE Shape'
  BY DEF BodyFails

LEMMA SendShape ==
    ASSUME NEW r \in Request, Shape, SendRequest(r) PROVE Shape'
<1>0. Append(<<>>, r) = <<r>>
  OBVIOUS
<1>a. /\ point[r] = "send" /\ point' = [point EXCEPT ![r] = "await"]
      /\ pending' = [pending EXCEPT ![using[r]] = Append(pending[using[r]], r)]
      /\ ready' = [ready EXCEPT ![using[r]] = FALSE]
      /\ UNCHANGED <<permits, idle, permit, using, healthy, link, answer>>
  BY Zenon DEF SendRequest
<1>b. using[r] \in Request /\ pending[using[r]] = <<>>
  BY <1>a
<1>c. pending' = [pending EXCEPT ![using[r]] = <<r>>]
  BY <1>0, <1>a, <1>b, Zenon
<1>1. /\ point[r] = "send" /\ point' = [point EXCEPT ![r] = "await"]
      /\ using[r] \in Request /\ pending[using[r]] = <<>>
      /\ pending' = [pending EXCEPT ![using[r]] = <<r>>]
      /\ ready' = [ready EXCEPT ![using[r]] = FALSE]
      /\ UNCHANGED <<permits, idle, permit, using, healthy, link, answer>>
  BY <1>a, <1>b, <1>c, Zenon
<1>2. TypeOK' /\ GuardsAgree' /\ OwnResponse'
  BY <1>1
<1>3. Undialed'
  BY <1>1
<1>4. OwnExchange'
  BY <1>1
<1>5. IdleClean' /\ OnePlace'
  BY <1>1
<1> QED
  BY <1>2, <1>3, <1>4, <1>5, Zenon

LEMMA RespondShape ==
    ASSUME NEW r \in Request, Shape, Respond(r) PROVE Shape'
  BY DEF Respond

LEMMA CollectShape ==
    ASSUME NEW r \in Request, Shape, Collect(r) PROVE Shape'
<1>1. TypeOK'
  BY DEF Collect
<1>2. GuardsAgree'
  BY DEF Collect
<1>3. Undialed'
  BY DEF Collect
<1>4. OwnExchange'
  BY DEF Collect
<1>5. IdleClean'
  BY DEF Collect
<1>6. OnePlace'
  BY DEF Collect
<1>7. OwnResponse'
  BY DEF Collect
<1> QED
  BY <1>1, <1>2, <1>3, <1>4, <1>5, <1>6, <1>7, Zenon DEF Shape

LEMMA InvalidateShape ==
    ASSUME NEW r \in Request, Shape, Invalidate(r) PROVE Shape'
  BY DEF Invalidate

LEMMA CancelShape ==
    ASSUME NEW r \in Request, Shape, Cancel(r) PROVE Shape'
  BY DEF Cancel

LEMMA ReleaseShape ==
    ASSUME NEW r \in Request, Shape, Release(r) PROVE Shape'
<1> DEFINE c == using[r]
<1>1. /\ point[r] = "release" /\ point' = [point EXCEPT ![r] = "free"]
      /\ c \in Request
      /\ using' = [using EXCEPT ![r] = Nothing]
      /\ UNCHANGED <<permits, permit, healthy, ready, pending, answer>>
  BY DEF Release
<1>2. CASE permit[r] /\ IsHealthy(c)
  <2>1. idle' = Append(idle, c) /\ link' = link /\ pending[c] = <<>>
    BY <1>1, <1>2, Zenon DEF Release, IsHealthy
  <2>2. /\ idle' \in Seq(Request)
        /\ \A i \in DOMAIN idle' : \/ i \in DOMAIN idle /\ idle'[i] = idle[i]
                                   \/ i = Len(idle) + 1 /\ idle'[i] = c
    BY <1>1, <2>1, PushBack
  <2>3. TypeOK' /\ GuardsAgree' /\ OwnResponse'
    BY <1>1, <2>1, <2>2, Zenon
  <2>4. Undialed'
    BY <1>1, <2>1, <2>2
  <2>5. OwnExchange' /\ IdleClean'
    BY <1>1, <2>1, <2>2
  <2>6. OnePlace'
    <3>1. /\ using'[r] = Nothing /\ Nothing \notin Request
          /\ \A q \in Request : q # r => using'[q] = using[q] /\ using[q] # c
      BY <1>1
    <3>2. \A i \in DOMAIN idle : idle[i] # c /\ idle[i] \in Request
      BY <1>1
    <3>0. /\ \A q, p \in Request : q # p /\ using[q] # Nothing => using[q] # using[p]
          /\ \A q \in Request : \A i \in DOMAIN idle : using[q] # idle[i]
          /\ \A i, j \in DOMAIN idle : i # j => idle[i] # idle[j]
      BY Zenon
    <3> HIDE DEF Shape
    <3>3. \A q, p \in Request : q # p /\ using'[q] # Nothing => using'[q] # using'[p]
      BY <3>0, <3>1, ApartWithout, Zenon
    <3>4. \A q \in Request : \A i \in DOMAIN idle' : using'[q] # idle'[i]
      BY <1>1, <2>2, <3>0, <3>1, <3>2
    <3>5. \A i, j \in DOMAIN idle' : i # j => idle'[i] # idle'[j]
      BY <2>2, <3>0, <3>2, ApartWith, Zenon
    <3> QED
      BY <3>3, <3>4, <3>5, Zenon
  <2> QED
    BY <2>3, <2>4, <2>5, <2>6, Zenon
<1>3. CASE ~(permit[r] /\ IsHealthy(c))
  <2>1. idle' = idle /\ link' = [link EXCEPT ![c] = FALSE]
    BY <1>3, Zenon DEF Release
  <2> QED
    BY <1>1, <2>1
<1> QED
  BY <1>2, <1>3, Zenon

LEMMA DropPermitShape ==
    ASSUME NEW r \in Request, Shape, DropPermit(r) PROVE Shape'
  BY DEF DropPermit

LEMMA BecomeReadyShape ==
    ASSUME NEW c \in Request, Shape, BecomeReady(c) PROVE Shape'
  BY DEF BecomeReady

LEMMA BackendCloseShape ==
    ASSUME NEW c \in Request, Shape, BackendCloses(c) PROVE Shape'
  BY DEF BackendCloses

LEMMA NoticeCloseShape ==
    ASSUME NEW c \in Request, Shape, NoticeClose(c) PROVE Shape'
  BY DEF NoticeClose

LEMMA StutterShape ==
    ASSUME Shape, UNCHANGED poolVars PROVE Shape'
  BY DEF poolVars

HIDE PoolAssumption DEF Shape, TypeOK, GuardsAgree, Undialed, OwnExchange,
     IdleClean, OnePlace, OwnResponse, PC, Engaged, Holding, Goto

LEMMA NextShape == Shape /\ [PoolNext]_poolVars => Shape'
  BY StartShape, TakePermitShape, PermitTimeoutShape, PopShape,
     ConnectShape, ConnectFailsShape, BodyShape, BodyFailsShape,
     SendShape, RespondShape, CollectShape, InvalidateShape,
     CancelShape, ReleaseShape, DropPermitShape, BecomeReadyShape,
     BackendCloseShape, NoticeCloseShape, StutterShape
     DEF PoolNext, Handle, Connection, PoolFinished

LEMMA SpecShape == PoolSpec => []Shape
  BY InitShape, NextShape, PTL DEF PoolSpec

-----------------------------------------------------------------------------
(* A request has a permit only between TakePermit and DropPermit, and at   *)
(* "connect" and beyond it may go without.                                 *)
PermitPoints ==
    \A r \in Request :
        /\ permit[r] => point[r] \in {"pop", "free"} \cup Engaged
        /\ point[r] = "pop" => permit[r]

Lent == {r \in Holders : point[r] \in Engaged}

Counts ==
    /\ PermitPoints
    /\ PermitsConserved
    /\ Len(idle) + Cardinality(Lent) <= Size

(* How the two counted sets change when one request joins or leaves them.  *)
LEMMA Joins ==
    ASSUME NEW A \in SUBSET Request, NEW r \in Request, r \notin A
    PROVE  /\ Cardinality(A) \in Nat
           /\ Cardinality(A \cup {r}) = Cardinality(A) + 1
  BY PoolAssumption, FS_Subset, FS_AddElement, FS_CardinalityType, Zenon

LEMMA Leaves ==
    ASSUME NEW A \in SUBSET Request, NEW r \in A
    PROVE  /\ Cardinality(A) \in Nat
           /\ Cardinality(A \ {r}) = Cardinality(A) - 1
  BY PoolAssumption, FS_Subset, FS_RemoveElement, FS_CardinalityType, Zenon

LEMMA Within ==
    ASSUME NEW A \in SUBSET Request, NEW B \in SUBSET A
    PROVE  /\ Cardinality(A) \in Nat /\ Cardinality(B) \in Nat
           /\ Cardinality(B) <= Cardinality(A)
  BY PoolAssumption, FS_Subset, FS_CardinalityType, Zenon

LEMMA InitCounts == PoolInit => Counts
<1> SUFFICES ASSUME PoolInit PROVE Counts
  BY Zenon
<1>1. Holders = {} /\ Lent = {}
  BY Zenon DEF PoolInit, Holders, Lent
<1> QED
  BY <1>1, FS_EmptySet, PoolAssumption DEF PoolInit, Counts, PermitPoints, PermitsConserved

(* A step that takes no permit and engages no holder of one.               *)
LEMMA NoMore ==
    ASSUME TypeOK, Counts, UNCHANGED <<permits, permit>>, PermitPoints',
           \A q \in Request : permit[q] /\ point'[q] \in Engaged => point[q] \in Engaged,
           idle' = idle
    PROVE  Counts'
<1>1. Holders' = Holders /\ Lent' \in SUBSET Lent
  BY Zenon DEF Holders, Lent
<1>2. Cardinality(Lent) \in Nat /\ Cardinality(Lent') \in Nat
      /\ Cardinality(Lent') <= Cardinality(Lent)
  BY <1>1, Within, Zenon DEF Lent, Holders
<1>3. PermitsConserved'
  BY <1>1, Zenon DEF Counts, PermitsConserved
<1>4. Len(idle) \in Nat
  BY DEF TypeOK
<1> QED
  BY <1>2, <1>3, <1>4, PoolAssumption DEF Counts

LEMMA CountFacts ==
    ASSUME Shape, Counts
    PROVE  /\ TypeOK /\ PermitPoints /\ Len(idle) \in Nat
           /\ Holders \in SUBSET Request /\ Lent \in SUBSET Holders
           /\ Cardinality(Holders) \in Nat /\ Cardinality(Lent) \in Nat
<1>1. TypeOK /\ PermitPoints /\ Len(idle) \in Nat
  BY DEF Shape, Counts, TypeOK
<1>2. Holders \in SUBSET Request /\ Lent \in SUBSET Holders
  BY Zenon DEF Holders, Lent
<1> QED
  BY <1>1, <1>2, Within, Zenon

USE DEF TypeOK, PermitPoints, PC, Engaged, Holding, Goto

LEMMA StartCounts ==
    ASSUME NEW r \in Request, Shape, Counts, Start(r) PROVE Counts'
<1>1. UNCHANGED <<permits, idle, permit>>
  BY Zenon DEF Start
<1>2. PermitPoints'
  BY CountFacts, Zenon DEF Start
<1>3. \A q \in Request : permit[q] /\ point'[q] \in Engaged => point[q] \in Engaged
  BY CountFacts, Zenon DEF Start
<1> QED
  BY CountFacts, <1>1, <1>2, <1>3, NoMore, Zenon

LEMMA TakePermitCounts ==
    ASSUME NEW r \in Request, Shape, Counts, TakePermit(r) PROVE Counts'
<1>1. r \notin Holders
  BY CountFacts, Zenon DEF TakePermit, Holders
<1>2. Holders' = Holders \cup {r} /\ Lent' = Lent
  BY CountFacts, <1>1 DEF TakePermit, Holders, Lent
<1>3. Cardinality(Holders') = Cardinality(Holders) + 1
  BY CountFacts, <1>1, <1>2, Joins, Zenon
<1>4. PermitsConserved'
  BY CountFacts, <1>3 DEF TakePermit, Counts, PermitsConserved
<1>5. PermitPoints'
  BY CountFacts, Zenon DEF TakePermit
<1> QED
  BY <1>2, <1>4, <1>5, Zenon DEF TakePermit, Counts

LEMMA PermitTimeoutCounts ==
    ASSUME NEW r \in Request, Shape, Counts, PermitTimeout(r) PROVE Counts'
<1>1. UNCHANGED <<permits, idle, permit>>
  BY Zenon DEF PermitTimeout
<1>2. PermitPoints'
  BY CountFacts, Zenon DEF PermitTimeout
<1>3. \A q \in Request : permit[q] /\ point'[q] \in Engaged => point[q] \in Engaged
  BY CountFacts, Zenon DEF PermitTimeout
<1> QED
  BY CountFacts, <1>1, <1>2, <1>3, NoMore, Zenon

LEMMA PopCounts ==
    ASSUME NEW r \in Request, Shape, Counts, Pop(r) PROVE Counts'
<1>1. /\ point[r] = "pop" /\ point'[r] \in {"connect", "body"}
      /\ point' = [point EXCEPT ![r] = point'[r]]
      /\ UNCHANGED <<permits, permit>>
  BY CountFacts, Zenon DEF Pop
<1>2. r \in Holders /\ r \notin Lent /\ Holders' = Holders /\ Lent' = Lent \cup {r}
  BY CountFacts, <1>1 DEF Holders, Lent
<1>3. PermitPoints' /\ PermitsConserved'
  BY CountFacts, <1>1, <1>2, Zenon DEF Counts, PermitsConserved
<1>4. CASE idle = <<>>
  <2>1. Len(idle') = 0
    BY <1>4 DEF Pop
  <2>2. Lent' \in SUBSET Holders
    BY CountFacts, <1>2, Zenon
  <2>3. Cardinality(Lent') \in Nat /\ Cardinality(Lent') <= Cardinality(Holders)
    BY CountFacts, <2>2, Within, Zenon
  <2> QED
    BY CountFacts, <1>3, <2>1, <2>3, PoolAssumption DEF Counts, PermitsConserved
<1>5. CASE idle # <<>>
  <2>1. Len(idle') = Len(idle) - 1
    <3>1. idle' = Tail(idle)
      BY <1>5, Zenon DEF Pop
    <3> QED
      BY CountFacts, <1>5, <3>1, PopFront, Zenon
  <2>2. Cardinality(Lent') = Cardinality(Lent) + 1
    BY CountFacts, <1>2, Joins, Zenon
  <2> QED
    BY CountFacts, <1>3, <2>1, <2>2, PoolAssumption DEF Counts
<1> QED
  BY <1>4, <1>5, Zenon

LEMMA ConnectCounts ==
    ASSUME NEW r \in Request, Shape, Counts, Connect(r) PROVE Counts'
<1>1. UNCHANGED <<permits, idle, permit>>
  BY Zenon DEF Connect
<1>2. PermitPoints'
  BY CountFacts, Zenon DEF Connect
<1>3. \A q \in Request : permit[q] /\ point'[q] \in Engaged => point[q] \in Engaged
  BY CountFacts, Zenon DEF Connect
<1> QED
  BY CountFacts, <1>1, <1>2, <1>3, NoMore, Zenon

LEMMA ConnectFailsCounts ==
    ASSUME NEW r \in Request, Shape, Counts, ConnectFails(r) PROVE Counts'
<1>1. UNCHANGED <<permits, idle, permit>>
  BY Zenon DEF ConnectFails
<1>2. PermitPoints'
  BY CountFacts, Zenon DEF ConnectFails
<1>3. \A q \in Request : permit[q] /\ point'[q] \in Engaged => point[q] \in Engaged
  BY CountFacts, Zenon DEF ConnectFails
<1> QED
  BY CountFacts, <1>1, <1>2, <1>3, NoMore, Zenon

LEMMA BodyBodyFailsCounts ==
    ASSUME NEW r \in Request, Shape, Counts, Body(r) \/ BodyFails(r) PROVE Counts'
<1>1. UNCHANGED <<permits, idle, permit>>
  BY Zenon DEF Body, BodyFails
<1>2. PermitPoints'
  BY CountFacts DEF Body, BodyFails
<1>3. \A q \in Request : permit[q] /\ point'[q] \in Engaged => point[q] \in Engaged
  BY CountFacts, Zenon DEF Body, BodyFails
<1> QED
  BY CountFacts, <1>1, <1>2, <1>3, NoMore, Zenon

LEMMA SendRespondCounts ==
    ASSUME NEW r \in Request, Shape, Counts, SendRequest(r) \/ Respond(r) PROVE Counts'
<1>1. UNCHANGED <<permits, idle, permit>>
  BY Zenon DEF SendRequest, Respond
<1>2. PermitPoints'
  BY CountFacts DEF SendRequest, Respond
<1>3. \A q \in Request : permit[q] /\ point'[q] \in Engaged => point[q] \in Engaged
  BY CountFacts, Zenon DEF SendRequest, Respond
<1> QED
  BY CountFacts, <1>1, <1>2, <1>3, NoMore, Zenon

LEMMA CollectInvalidateCounts ==
    ASSUME NEW r \in Request, Shape, Counts, Collect(r) \/ Invalidate(r) PROVE Counts'
<1>1. UNCHANGED <<permits, idle, permit>>
  BY Zenon DEF Collect, Invalidate
<1>2. PermitPoints'
  BY CountFacts DEF Collect, Invalidate
<1>3. \A q \in Request : permit[q] /\ point'[q] \in Engaged => point[q] \in Engaged
  BY CountFacts, Zenon DEF Collect, Invalidate
<1> QED
  BY CountFacts, <1>1, <1>2, <1>3, NoMore, Zenon

LEMMA CancelCounts ==
    ASSUME NEW r \in Request, Shape, Counts, Cancel(r) PROVE Counts'
<1>1. /\ PermitPoints' /\ UNCHANGED <<permits, idle, permit>>
      /\ \A q \in Request : point'[q] \in Engaged => point[q] \in Engaged
  BY CountFacts, Zenon DEF Cancel
<1> QED
  BY CountFacts, <1>1, NoMore, Zenon

LEMMA ReleaseCounts ==
    ASSUME NEW r \in Request, Shape, Counts, Release(r) PROVE Counts'
<1>1. /\ point[r] = "release" /\ point' = [point EXCEPT ![r] = "free"]
      /\ UNCHANGED <<permits, permit>>
  BY Zenon DEF Release
<1>2. PermitPoints'
  BY CountFacts, <1>1, Zenon
<1>3. CASE permit[r] /\ IsHealthy(using[r])
  <2>1. r \in Lent /\ Holders' = Holders /\ Lent' = Lent \ {r}
    BY CountFacts, <1>1, <1>3, Zenon DEF Holders, Lent
  <2>2. Cardinality(Lent') = Cardinality(Lent) - 1
    BY CountFacts, <2>1, Leaves, Zenon
  <2>3. using[r] \in Request
    BY <1>1, Zenon DEF Shape, GuardsAgree
  <2>4. Len(idle') = Len(idle) + 1
    BY CountFacts, <1>3, <2>3, PushBack, Zenon DEF Release
  <2> QED
    BY CountFacts, <1>1, <1>2, <2>1, <2>2, <2>4, PoolAssumption DEF Counts, PermitsConserved
<1>4. CASE ~(permit[r] /\ IsHealthy(using[r]))
  <2>1. idle' = idle
    BY <1>4, Zenon DEF Release
  <2>2. \A q \in Request : point'[q] \in Engaged => point[q] \in Engaged
    BY CountFacts, <1>1, Zenon
  <2> QED
    BY CountFacts, <1>1, <1>2, <2>1, <2>2, NoMore, Zenon
<1> QED
  BY <1>3, <1>4, Zenon

LEMMA DropPermitCounts ==
    ASSUME NEW r \in Request, Shape, Counts, DropPermit(r) PROVE Counts'
<1>1. /\ point[r] = "free" /\ point' = [point EXCEPT ![r] = "done"] /\ idle' = idle
      /\ permit' = [permit EXCEPT ![r] = FALSE]
      /\ permits' = IF permit[r] THEN permits + 1 ELSE permits
  BY Zenon DEF DropPermit
<1>2. PermitPoints' /\ Lent' = Lent
  BY CountFacts, <1>1, Zenon DEF Lent, Holders
<1>3. PermitsConserved'
  <2>1. CASE permit[r]
    <3>1. r \in Holders /\ Holders' = Holders \ {r}
      BY CountFacts, <1>1, <2>1, Zenon DEF Holders
    <3>2. Cardinality(Holders') = Cardinality(Holders) - 1
      BY CountFacts, <3>1, Leaves, Zenon
    <3> QED
      BY CountFacts, <1>1, <2>1, <3>2, PoolAssumption DEF Counts, PermitsConserved
  <2>2. CASE ~permit[r]
    <3>1. Holders' = Holders /\ permits' = permits
      BY CountFacts, <1>1, <2>2 DEF Holders
    <3> QED
      BY <3>1, Zenon DEF Counts, PermitsConserved
  <2> QED
    BY <2>1, <2>2, Zenon
<1> QED
  BY <1>1, <1>2, <1>3, Zenon DEF Counts

LEMMA ConnectionCounts ==
    ASSUME NEW c \in Request, Shape, Counts, Connection(c) PROVE Counts'
  BY CountFacts, NoMore DEF Connection, BecomeReady, BackendCloses, NoticeClose

LEMMA StutterCounts ==
    ASSUME Shape, Counts, UNCHANGED poolVars PROVE Counts'
  BY CountFacts, NoMore, Zenon DEF poolVars

HIDE DEF TypeOK, PermitPoints, PC, Engaged, Holding, Goto

LEMMA NextCounts == Shape /\ Counts /\ [PoolNext]_poolVars => Counts'
  BY StartCounts, TakePermitCounts, PermitTimeoutCounts, PopCounts,
     ConnectCounts, ConnectFailsCounts, BodyBodyFailsCounts,
     SendRespondCounts, CollectInvalidateCounts, CancelCounts,
     ReleaseCounts, DropPermitCounts, ConnectionCounts, StutterCounts
     DEF PoolNext, Handle, PoolFinished

LEMMA SpecCounts == PoolSpec => []Counts
  BY InitCounts, NextCounts, SpecShape, PTL DEF PoolSpec

-----------------------------------------------------------------------------
(* The variables of the pool keep their types (TypeOK).                    *)
THEOREM TypeCorrect == PoolSpec => []TypeOK
<1>1. Shape => TypeOK
  BY Zenon DEF Shape
<1> QED
  BY <1>1, SpecShape, PTL

(* A client of the pool is in one place at a time (ClientExclusive).       *)
THEOREM ClientsAreExclusive == PoolSpec => []ClientExclusive
<1>1. Shape => ClientExclusive
  BY Zenon DEF Shape, OnePlace, ClientExclusive, Clients
<1> QED
  BY <1>1, SpecShape, PTL

(* No request is answered with another one's response (OwnResponse).       *)
THEOREM ResponsesAreOwn == PoolSpec => []OwnResponse
<1>1. Shape => OwnResponse
  BY Zenon DEF Shape
<1> QED
  BY <1>1, SpecShape, PTL

(* No permit is lost or minted on any path (PermitsConserved).             *)
THEOREM PermitsAreConserved == PoolSpec => []PermitsConserved
<1>1. Counts => PermitsConserved
  BY Zenon DEF Counts
<1> QED
  BY <1>1, SpecCounts, PTL

(* The pooled clients never outnumber the pool's size (PooledWithinSize).  *)
THEOREM PoolIsBounded == PoolSpec => []PooledWithinSize
<1>1. Counts => PooledWithinSize
  BY Zenon DEF Counts, PooledWithinSize, Lent
<1> QED
  BY <1>1, SpecCounts, PTL
=============================================================================
