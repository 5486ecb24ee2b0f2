--------------------------- MODULE SwooleHttpProofs ---------------------------
(***************************************************************************)
(* The safety properties of SwooleHttp for any requests and pool size.     *)
(***************************************************************************)
EXTENDS SwooleHttp, FiniteSetTheorems, SequenceTheorems, TLAPS

(* Sequences.                                                              *)

LEMMA TailFacts ==
  ASSUME NEW S, NEW s \in Seq(S), Len(s) # 0
  PROVE  /\ \A i \in DOMAIN Tail(s) :
               i + 1 \in DOMAIN s /\ Tail(s)[i] = s[i + 1] /\ i \in Nat \ {0} /\ i + 1 # 1
         /\ \A i \in DOMAIN s : i # 1 => i - 1 \in DOMAIN Tail(s) /\ Tail(s)[i - 1] = s[i]
         /\ 1 \in DOMAIN s /\ Len(Tail(s)) = Len(s) - 1
<1>1. DOMAIN s = 1..Len(s) /\ Len(s) \in Nat \ {0} /\ Len(Tail(s)) = Len(s) - 1
      /\ Tail(s) \in Seq(S)
  OBVIOUS
<1>2. DOMAIN Tail(s) = 1..(Len(s) - 1)
  BY <1>1
<1>3. \A i \in 1..(Len(s) - 1) : Tail(s)[i] = s[i + 1]
  BY <1>1
<1>. QED  BY <1>1, <1>2, <1>3

(* s followed by the first k elements of t, and t without them.            *)
Join(s, t, k) == s \o SubSeq(t, 1, k)
Suffix(s, k)  == SubSeq(s, k + 1, Len(s))

IsJoin(g, s, t, k) ==
    \A i \in DOMAIN g : \/ i \in DOMAIN s /\ g[i] = s[i]
                        \/ \E j \in DOMAIN t : g[i] = t[j] /\ j <= k

IsSuffix(w, s, k) ==
    /\ Len(w) = Len(s) - k /\ k \in Nat /\ Len(s) \in Nat
    /\ \A i \in DOMAIN w : i \in Nat /\ i + k \in DOMAIN s /\ w[i] = s[i + k]
    /\ k = Len(s) => w = <<>>

LEMMA JoinFacts ==
  ASSUME NEW S, NEW s \in Seq(S), NEW t \in Seq(S), NEW k \in 1..Len(t)
  PROVE  Join(s, t, k) \in Seq(S) /\ IsJoin(Join(s, t, k), s, t, k)
<1>. DEFINE g == Join(s, t, k)
            h == SubSeq(t, 1, k)
<1>1. h \in Seq(S) /\ Len(h) = k /\ k \in Nat
  OBVIOUS
<1>2. \A j \in 1..k : j \in DOMAIN t /\ h[j] = t[j] /\ j <= k
  OBVIOUS
<1>3. g = s \o h
  BY Zenon DEF Join
<1>. HIDE DEF g, h
<1>4. g \in Seq(S) /\ Len(g) = Len(s) + k
  <2>1. g \in Seq(S)
    BY <1>1, <1>3
  <2>2. Len(g) = Len(s) + Len(h)
    BY <1>1, <1>3, ConcatProperties, Zenon
  <2>. QED  BY <1>1, <2>1, <2>2, Zenon
<1>5. \A i \in 1..Len(s) : i \in DOMAIN s /\ g[i] = s[i]
  BY <1>1, <1>3
<1>6. \A i \in 1..Len(g) : i > Len(s) => i - Len(s) \in 1..k /\ g[i] = h[i - Len(s)]
  BY <1>1, <1>3, <1>4
<1>7. \A i \in DOMAIN g : i \in 1..Len(g) /\ (i \in 1..Len(s) \/ i > Len(s))
  BY <1>4
<1>8. \A i \in 1..Len(g) : i > Len(s) => \E j \in DOMAIN t : g[i] = t[j] /\ j <= k
  BY <1>2, <1>6, Zenon
<1>. QED  BY <1>4, <1>5, <1>7, <1>8, Zenon DEF g, IsJoin

LEMMA SuffixFacts ==
  ASSUME NEW S, NEW s \in Seq(S), NEW k \in 1..Len(s)
  PROVE  Suffix(s, k) \in Seq(S) /\ IsSuffix(Suffix(s, k), s, k)
<1>. DEFINE w == Suffix(s, k)
            m == k + 1
            n == Len(s)
<1>1. k \in Nat \ {0} /\ n \in Nat /\ k <= n /\ DOMAIN s = 1..n /\ \A i \in 1..n : s[i] \in S
  OBVIOUS
<1>. HIDE DEF n
<1>2. /\ m \in Int /\ n \in Int /\ n - m + 1 = n - k /\ (n < m <=> k = n)
      /\ \A i \in m..n : i \in 1..n
      /\ \A i \in 1..(n - k) : i \in Nat /\ i + k \in 1..n /\ m + i - 1 = i + k
      /\ (IF m <= n THEN n - m + 1 ELSE 0) = n - k
  BY <1>1
<1>. HIDE DEF w, m
<1>3. w \in Seq(S) /\ Len(w) = (IF m <= n THEN n - m + 1 ELSE 0)
      /\ \A i \in 1..(n - m + 1) : w[i] = s[m + i - 1]
  <2>1. w = SubSeq(s, m, n) /\ \A i \in m..n : s[i] \in S
    BY <1>1, <1>2, Zenon DEF w, m, n, Suffix
  <2>. QED  BY <1>2, <2>1, SubSeqProperties
<1>4. Len(w) = n - k
  BY <1>2, <1>3, Zenon
<1>5. DOMAIN w = 1..(n - k)
  BY <1>3, <1>4, LenProperties, Zenon
<1>6. \A i \in 1..(n - k) : i \in Nat /\ i + k \in DOMAIN s /\ w[i] = s[i + k]
  BY <1>1, <1>2, <1>3, Zenon
<1>7. k = n => w = <<>>
  BY <1>2, SubSeqEmpty, Zenon DEF w, m, n, Suffix
<1>8. IsSuffix(w, s, k)
  BY <1>1, <1>4, <1>5, <1>6, <1>7, Zenon DEF IsSuffix, n
<1>. QED  BY <1>3, <1>8, Zenon DEF w

-----------------------------------------------------------------------------
States == {"new", "pop", "dial", "send", "head", "body", "execute", "release", "done"}
Pieces == [of : Incoming, part : {"head", "body"}, framing : Framing]

(* Where a request holds a client, and where it waits for a reply.         *)
Holding == {"dial", "send", "head", "body", "execute", "release"}
Waiting == {"head", "body", "execute"}

Unused(c) ==
    /\ \A r \in Incoming : client[r] # c
    /\ \A k \in Channel : \A i \in DOMAIN pool[k] : pool[k][i] # c

HoldTyped ==
    /\ stage \in [Incoming -> States]
    /\ client \in [Incoming -> Incoming \cup {Null}]
    /\ pool \in [Channel -> Seq(Incoming)]
    /\ up \in [Incoming -> BOOLEAN]

OneHolder ==
    \A r, s \in Incoming : client[r] = client[s] /\ client[r] # Null => r = s

HeldOrPooled ==
    \A r \in Incoming : \A k \in Channel : \A i \in DOMAIN pool[k] : client[r] # pool[k][i]

OneSlot ==
    \A k, l \in Channel : \A i \in DOMAIN pool[k] : \A j \in DOMAIN pool[l] :
        pool[k][i] = pool[l][j] => k = l /\ i = j

(* Every client is in one place at most, a connected one is in one, and    *)
(* one that has yet to be made is in none.                                 *)
HoldInv ==
    /\ HoldTyped
    /\ \A r \in Incoming : client[r] # Null <=> stage[r] \in Holding
    /\ OneHolder /\ HeldOrPooled /\ OneSlot
    /\ \A r \in Incoming : stage[r] \in {"new", "pop"} => Unused(r)
    /\ \A k \in Channel : \A i \in DOMAIN pool[k] : up[pool[k][i]]
    /\ \A c \in Incoming : up[c] => ~Unused(c)
    /\ \A k \in Channel : Len(pool[k]) <= PoolSize

Last(p) == p.part = "body" \/ p.framing = "empty"

Clean(c) == owed[c] = <<>> /\ replies[c] = <<>>

OfOnly(pieces, r) == \A i \in DOMAIN pieces : pieces[i].of = r
EndsLast(pieces)  == \A i \in DOMAIN pieces : Last(pieces[i]) => i = Len(pieces)

(* The client is in the middle of an exchange for r, and nothing else is   *)
(* on its connection.                                                      *)
Busy(c, r) ==
    /\ client[r] = c /\ stage[r] \in Waiting
    /\ \/ owed[c] = <<r>> /\ replies[c] = <<>>
       \/ owed[c] = <<>> /\ OfOnly(replies[c], r) /\ EndsLast(replies[c])

WireTyped ==
    /\ got \in [Incoming -> Seq(Pieces)]
    /\ owed \in [Incoming -> Seq(Incoming)]
    /\ replies \in [Incoming -> Seq(Pieces)]

WireInv ==
    /\ WireTyped
    /\ ResponseIsOwn
    /\ \A r \in Incoming : stage[r] \in {"head", "body"} => ~Whole(got[r])
    /\ \A r \in Incoming : stage[r] \in {"new", "pop", "dial", "send"} => got[r] = <<>>
    /\ \A c \in Incoming : Clean(c) \/ \E r \in Incoming : Busy(c, r)

IInv == HoldInv /\ WireInv

-----------------------------------------------------------------------------
LEMMA InitInv == HttpInit => IInv
<1>. SUFFICES ASSUME HttpInit  PROVE IInv
  BY Zenon
<1>1. HoldTyped /\ WireTyped
  BY DEF HttpInit, HoldTyped, WireTyped, States
<1>2. \A r \in Incoming : stage[r] = "new" /\ client[r] = Null /\ got[r] = <<>> /\ ~up[r] /\ Clean(r)
  BY Zenon DEF HttpInit, Clean
<1>3. \A k \in Channel : pool[k] = <<>> /\ DOMAIN pool[k] = {} /\ Len(pool[k]) = 0
  BY DEF HttpInit
<1>4. \A r \in Incoming : Unused(r)
  BY <1>2, <1>3, SwooleHttpAssumption DEF Unused
<1>5. OneHolder /\ HeldOrPooled /\ OneSlot
  BY <1>2, <1>3, Zenon DEF OneHolder, HeldOrPooled, OneSlot
<1>6. HoldInv
  BY <1>1, <1>2, <1>3, <1>4, <1>5, SwooleHttpAssumption DEF HoldInv, Holding
<1>7. ResponseIsOwn
  BY <1>2 DEF ResponseIsOwn
<1>. QED  BY <1>1, <1>2, <1>6, <1>7, Zenon DEF IInv, WireInv

-----------------------------------------------------------------------------
(* Where the clients are.                                                  *)

(* A request goes on with the client it has.                               *)
LEMMA HoldMoves ==
  ASSUME HoldInv, NEW r \in Incoming, NEW p \in Holding, stage[r] \in Holding, GoOn(r, p),
         UNCHANGED <<client, pool>>,
         UNCHANGED up \/ \E b \in BOOLEAN : up' = [up EXCEPT ![client[r]] = b]
  PROVE  HoldInv'
<1>1. HoldTyped /\ OneHolder /\ HeldOrPooled /\ OneSlot /\ client[r] \in Incoming
  BY Zenon DEF HoldInv, HoldTyped
<1>2. HoldTyped'
  BY <1>1, Zenon DEF HoldTyped, Holding, States, GoOn
<1>3. \A s \in Incoming : stage'[s] = IF s = r THEN p ELSE stage[s]
  BY <1>1, Zenon DEF HoldTyped, GoOn
<1>4. \A c \in Incoming : c # client[r] => up'[c] = up[c]
  BY <1>1, Zenon DEF HoldTyped
<1>5. OneHolder' /\ HeldOrPooled' /\ OneSlot' /\ \A c \in Incoming : Unused(c)' <=> Unused(c)
  BY <1>1 DEF OneHolder, HeldOrPooled, OneSlot, Unused
<1>6. ~Unused(client[r])
  BY <1>1, Zenon DEF Unused
<1>7. \A s \in Incoming : client'[s] # Null <=> stage'[s] \in Holding
  BY <1>3, Zenon DEF HoldInv
<1>8. \A s \in Incoming : stage'[s] \in {"new", "pop"} => Unused(s)'
  BY <1>3, <1>5, Zenon DEF HoldInv, Holding
<1>9. \A k \in Channel : \A i \in DOMAIN pool'[k] : up'[pool'[k][i]]
  <2>. SUFFICES ASSUME NEW k \in Channel, NEW i \in DOMAIN pool[k]  PROVE up'[pool[k][i]]
    BY Zenon
  <2>1. pool[k][i] \in Incoming /\ pool[k][i] # client[r] /\ up[pool[k][i]]
    BY <1>1 DEF HoldTyped, HeldOrPooled, HoldInv
  <2>. QED  BY <1>4, <2>1, Zenon
<1>10. \A c \in Incoming : up'[c] => ~Unused(c)'
  BY <1>4, <1>5, <1>6 DEF HoldInv
<1>. QED  BY <1>2, <1>5, <1>7, <1>8, <1>9, <1>10, Zenon DEF HoldInv

(* A request that has no client yet, or none at all, goes on.              *)
LEMMA HoldStarts ==
  ASSUME HoldInv, NEW r \in Incoming, NEW p \in {"pop", "done"}, stage[r] = "new", GoOn(r, p),
         UNCHANGED <<client, pool, up>>
  PROVE  HoldInv'
<1>1. HoldTyped' /\ \A s \in Incoming : stage'[s] = IF s = r THEN p ELSE stage[s]
  BY Zenon DEF HoldInv, HoldTyped, States, GoOn
<1>2. OneHolder' /\ HeldOrPooled' /\ OneSlot' /\ \A c \in Incoming : Unused(c)' <=> Unused(c)
  BY DEF HoldInv, OneHolder, HeldOrPooled, OneSlot, Unused
<1>3. \A s \in Incoming : client'[s] # Null <=> stage'[s] \in Holding
  BY <1>1, Zenon DEF HoldInv, Holding
<1>4. \A s \in Incoming : stage'[s] \in {"new", "pop"} => Unused(s)'
  BY <1>1, <1>2, Zenon DEF HoldInv
<1>. QED  BY <1>1, <1>2, <1>3, <1>4, Zenon DEF HoldInv

(* A request closes its client and is done.                                *)
LEMMA HoldCloses ==
  ASSUME HoldInv, NEW r \in Incoming, stage[r] \in Holding, GoOn(r, "done"),
         client' = [client EXCEPT ![r] = Null], UNCHANGED pool,
         up' = [up EXCEPT ![client[r]] = FALSE]
  PROVE  HoldInv'
<1>1. HoldTyped /\ OneHolder /\ HeldOrPooled /\ OneSlot /\ client[r] \in Incoming
  BY Zenon DEF HoldInv, HoldTyped
<1>2. HoldTyped'
  BY <1>1, Zenon DEF HoldTyped, States, GoOn
<1>3. /\ stage'[r] = "done" /\ client'[r] = Null
      /\ \A s \in Incoming \ {r} : stage'[s] = stage[s] /\ client'[s] = client[s]
  BY <1>1, Zenon DEF HoldTyped, GoOn
<1>4. /\ ~up'[client[r]]
      /\ \A c \in Incoming : c # client[r] => up'[c] = up[c]
  BY <1>1, Zenon DEF HoldTyped
<1>5. OneHolder'
  BY <1>1, <1>3 DEF OneHolder
<1>6. HeldOrPooled' /\ OneSlot'
  <2>1. \A k \in Channel : \A i \in DOMAIN pool[k] : pool[k][i] # Null
    BY <1>1, SwooleHttpAssumption DEF HoldTyped
  <2>. QED  BY <1>1, <1>3, <2>1 DEF HeldOrPooled, OneSlot
<1>7. \A c \in Incoming : Unused(c) => Unused(c)'
  BY <1>1, <1>3, SwooleHttpAssumption, Zenon DEF Unused
<1>8. \A c \in Incoming : c # client[r] /\ ~Unused(c) => ~Unused(c)'
  BY <1>1, <1>3, Zenon DEF Unused
<1>9. \A s \in Incoming : client'[s] # Null <=> stage'[s] \in Holding
  BY <1>3 DEF HoldInv, Holding
<1>10. \A s \in Incoming : stage'[s] \in {"new", "pop"} => Unused(s)'
  BY <1>3, <1>7, Zenon DEF HoldInv
<1>11. \A k \in Channel : \A i \in DOMAIN pool'[k] : up'[pool'[k][i]]
  <2>. SUFFICES ASSUME NEW k \in Channel, NEW i \in DOMAIN pool[k]  PROVE up'[pool[k][i]]
    BY Zenon
  <2>1. pool[k][i] \in Incoming /\ pool[k][i] # client[r] /\ up[pool[k][i]]
    BY <1>1 DEF HoldTyped, HeldOrPooled, HoldInv
  <2>. QED  BY <1>4, <2>1, Zenon
<1>12. \A c \in Incoming : up'[c] => ~Unused(c)'
  BY <1>4, <1>8, Zenon DEF HoldInv
<1>. QED  BY <1>2, <1>5, <1>6, <1>9, <1>10, <1>11, <1>12, Zenon DEF HoldInv

(* A request takes the first client of its Channel: the Channels hold      *)
(* connected clients only.                                                 *)
LEMMA PopTakes ==
  ASSUME HoldInv, NEW r \in Incoming, PopClient(r)
  PROVE  \E k \in Channel :
           /\ Len(pool[k]) \in Nat \ {0} /\ pool[k][1] \in Incoming
           /\ client' = [client EXCEPT ![r] = pool[k][1]]
           /\ pool' = [pool EXCEPT ![k] = Tail(pool[k])]
           /\ GoOn(r, "send") /\ UNCHANGED <<got, connVars>>
<1>1. PICK k \in Channel : k = ChannelOf(r)
  BY Zenon DEF ChannelOf, Channel
<1>2. pool[k] \in Seq(Incoming) /\ pool[k] # <<>> /\ pool' = [pool EXCEPT ![k] = Tail(pool[k])]
      /\ UNCHANGED <<got, connVars>>
  BY <1>1, Zenon DEF PopClient, HoldInv, HoldTyped
<1>3. Len(pool[k]) \in Nat \ {0} /\ 1 \in DOMAIN pool[k] /\ Head(pool[k]) = pool[k][1]
      /\ pool[k][1] \in Incoming
  BY <1>2
<1>4. up[pool[k][1]]
  BY <1>3, Zenon DEF HoldInv
<1>5. client' = [client EXCEPT ![r] = pool[k][1]] /\ GoOn(r, "send")
  BY <1>1, <1>3, <1>4, Zenon DEF PopClient
<1>. QED  BY <1>2, <1>3, <1>5, Zenon

LEMMA HoldPop == ASSUME HoldInv, NEW r \in Incoming, PopClient(r)  PROVE HoldInv'
<1>1. HoldTyped /\ OneHolder /\ HeldOrPooled /\ OneSlot /\ stage[r] = "pop" /\ client[r] = Null
  BY Zenon DEF HoldInv, PopClient, Holding
<1>2. PICK k \in Channel :
        /\ Len(pool[k]) \in Nat \ {0} /\ pool[k][1] \in Incoming
        /\ client' = [client EXCEPT ![r] = pool[k][1]]
        /\ pool' = [pool EXCEPT ![k] = Tail(pool[k])]
        /\ GoOn(r, "send") /\ UNCHANGED up
  BY PopTakes, Zenon DEF connVars
<1>. DEFINE c == pool[k][1]
<1>3. HoldTyped'
  BY <1>1, <1>2 DEF HoldTyped, States, GoOn
<1>4. /\ stage'[r] = "send" /\ client'[r] = c
      /\ \A s \in Incoming \ {r} : stage'[s] = stage[s] /\ client'[s] = client[s]
  BY <1>1, <1>2, Zenon DEF HoldTyped, GoOn
<1>5. /\ pool[k] \in Seq(Incoming) /\ pool'[k] = Tail(pool[k])
      /\ \A l \in Channel : l # k => pool'[l] = pool[l]
  BY <1>1, <1>2, Zenon DEF HoldTyped
<1>6. /\ \A i \in DOMAIN pool'[k] :
            i + 1 \in DOMAIN pool[k] /\ pool'[k][i] = pool[k][i + 1] /\ i \in Nat \ {0} /\ i + 1 # 1
      /\ \A i \in DOMAIN pool[k] :
            i # 1 => i - 1 \in DOMAIN pool'[k] /\ pool'[k][i - 1] = pool[k][i]
      /\ 1 \in DOMAIN pool[k] /\ Len(pool'[k]) = Len(pool[k]) - 1
  <2>1. Len(pool[k]) # 0
    BY <1>2, Zenon
  <2>2. /\ \A i \in DOMAIN Tail(pool[k]) :
              /\ i + 1 \in DOMAIN pool[k] /\ Tail(pool[k])[i] = pool[k][i + 1]
              /\ i \in Nat \ {0} /\ i + 1 # 1
        /\ \A i \in DOMAIN pool[k] :
              i # 1 => i - 1 \in DOMAIN Tail(pool[k]) /\ Tail(pool[k])[i - 1] = pool[k][i]
        /\ 1 \in DOMAIN pool[k] /\ Len(Tail(pool[k])) = Len(pool[k]) - 1
    BY <1>5, <2>1, TailFacts, Zenon
  <2>. QED  BY <1>5, <2>2, Zenon
<1>. HIDE DEF c
<1>7. \A l \in Channel : \A i \in DOMAIN pool'[l] :
        \E j \in DOMAIN pool[l] : /\ pool'[l][i] = pool[l][j]
                                  /\ l = k => j = i + 1 /\ j # 1
                                  /\ l # k => j = i
  <2>. TAKE l \in Channel
  <2>. TAKE i \in DOMAIN pool'[l]
  <2>1. CASE l = k
    BY <1>6, <2>1, Zenon
  <2>2. CASE l # k
    BY <1>5, <2>2, Zenon
  <2>. QED  BY <2>1, <2>2, Zenon
<1>8. \A l \in Channel : \A i \in DOMAIN pool'[l] : pool'[l][i] # c
  <2>. SUFFICES ASSUME NEW l \in Channel, NEW i \in DOMAIN pool'[l], pool'[l][i] = pool[k][1]
                PROVE  FALSE
    BY Zenon DEF c
  <2>1. PICK j \in DOMAIN pool[l] :
          pool'[l][i] = pool[l][j] /\ (l = k => j = i + 1 /\ j # 1) /\ (l # k => j = i)
    BY <1>7, Zenon
  <2>. QED  BY <1>1, <1>2, <1>6, <2>1 DEF OneSlot
<1>9. \A s \in Incoming : client[s] # c
  BY <1>1, <1>2, <1>6 DEF HeldOrPooled, c
<1>10. OneHolder'
  BY <1>1, <1>4, <1>9 DEF OneHolder
<1>11. HeldOrPooled'
  <2>. SUFFICES ASSUME NEW s \in Incoming, NEW l \in Channel, NEW i \in DOMAIN pool'[l]
                PROVE  client'[s] # pool'[l][i]
    BY Zenon DEF HeldOrPooled
  <2>1. CASE s = r
    BY <1>4, <1>8, <2>1, Zenon
  <2>2. CASE s # r
    <3>1. PICK j \in DOMAIN pool[l] : pool'[l][i] = pool[l][j]
      BY <1>7, Zenon
    <3>2. client'[s] = client[s]
      BY <1>4, <2>2, Zenon
    <3>3. client[s] # pool[l][j]
      BY <1>1, Zenon DEF HeldOrPooled
    <3>. QED  BY <3>1, <3>2, <3>3, Zenon
  <2>. QED  BY <2>1, <2>2, Zenon
<1>12. OneSlot'
  <2>. SUFFICES ASSUME NEW l \in Channel, NEW m \in Channel, NEW i \in DOMAIN pool'[l],
                       NEW j \in DOMAIN pool'[m], pool'[l][i] = pool'[m][j]
                PROVE  l = m /\ i = j
    BY Zenon DEF OneSlot
  <2>1. PICK a \in DOMAIN pool[l] :
          pool'[l][i] = pool[l][a] /\ (l = k => a = i + 1) /\ (l # k => a = i)
    BY <1>7, Zenon
  <2>2. PICK b \in DOMAIN pool[m] :
          pool'[m][j] = pool[m][b] /\ (m = k => b = j + 1) /\ (m # k => b = j)
    BY <1>7, Zenon
  <2>3. l = m /\ a = b
    <3>1. pool[l][a] = pool[m][b]
      BY <2>1, <2>2, Zenon
    <3>2. \A u, v \in Channel : \A x \in DOMAIN pool[u] : \A y \in DOMAIN pool[v] :
            pool[u][x] = pool[v][y] => u = v /\ x = y
      BY <1>1, Zenon DEF OneSlot
    <3>3. l \in Channel /\ m \in Channel /\ a \in DOMAIN pool[l] /\ b \in DOMAIN pool[m]
      BY Zenon
    <3>. QED  BY <3>1, <3>2, <3>3, SMT
  <2>. QED  BY <1>6, <2>1, <2>2, <2>3
<1>13. \A d \in Incoming : Unused(d) => Unused(d)'
  <2>. SUFFICES ASSUME NEW d \in Incoming, Unused(d)  PROVE Unused(d)'
    BY Zenon
  <2>1. d # c
    BY <1>2, <1>6, Zenon DEF Unused, c
  <2>2. \A t \in Incoming : client'[t] # d
    BY <1>4, <2>1, Zenon DEF Unused
  <2>3. ASSUME NEW l \in Channel, NEW i \in DOMAIN pool'[l]  PROVE pool'[l][i] # d
    <3>1. PICK j \in DOMAIN pool[l] : pool'[l][i] = pool[l][j]
      BY <1>7, Zenon
    <3>. QED  BY <3>1, Zenon DEF Unused
  <2>. QED  BY <2>2, <2>3, Zenon DEF Unused
<1>14. \A d \in Incoming : ~Unused(d) => ~Unused(d)'
  <2>. SUFFICES ASSUME NEW d \in Incoming, Unused(d)'  PROVE Unused(d)
    BY Zenon
  <2>1. \A s \in Incoming : client[s] # d
    BY <1>1, <1>4, SwooleHttpAssumption, Zenon DEF Unused
  <2>2. c # d
    BY <1>4, Zenon DEF Unused
  <2>3. \A l \in Channel : \A i \in DOMAIN pool[l] : pool[l][i] # d
    <3>. SUFFICES ASSUME NEW l \in Channel, NEW i \in DOMAIN pool[l]  PROVE pool[l][i] # d
      BY Zenon
    <3>1. CASE l # k
      BY <1>5, <3>1, Zenon DEF Unused
    <3>2. CASE l = k /\ i # 1
      BY <1>6, <3>2, Zenon DEF Unused
    <3>3. CASE l = k /\ i = 1
      BY <2>2, <3>3, Zenon DEF c
    <3>. QED  BY <3>1, <3>2, <3>3, Zenon
  <2>. QED  BY <2>1, <2>3, Zenon DEF Unused
<1>15. \A s \in Incoming : client'[s] # Null <=> stage'[s] \in Holding
  BY <1>2, <1>4, SwooleHttpAssumption DEF HoldInv, Holding, c
<1>16. \A s \in Incoming : stage'[s] \in {"new", "pop"} => Unused(s)'
  BY <1>4, <1>13, Zenon DEF HoldInv
<1>17. \A l \in Channel : \A i \in DOMAIN pool'[l] : up'[pool'[l][i]]
  <2>. SUFFICES ASSUME NEW l \in Channel, NEW i \in DOMAIN pool'[l]  PROVE up'[pool'[l][i]]
    BY Zenon
  <2>1. PICK j \in DOMAIN pool[l] : pool'[l][i] = pool[l][j]
    BY <1>7, Zenon
  <2>. QED  BY <1>2, <2>1, Zenon DEF HoldInv
<1>18. \A d \in Incoming : up'[d] => ~Unused(d)'
  BY <1>2, <1>14, Zenon DEF HoldInv
<1>19. \A l \in Channel : Len(pool'[l]) <= PoolSize
  BY <1>2, <1>5, <1>6, SwooleHttpAssumption DEF HoldInv
<1>. QED  BY <1>3, <1>10, <1>11, <1>12, <1>15, <1>16, <1>17, <1>18, <1>19, Zenon DEF HoldInv

(* A request makes a client of its own.                                    *)
LEMMA HoldMakes == ASSUME HoldInv, NEW r \in Incoming, PopTimesOut(r)  PROVE HoldInv'
<1>1. HoldTyped /\ OneHolder /\ HeldOrPooled /\ OneSlot /\ Unused(r) /\ client[r] = Null
  BY Zenon DEF HoldInv, PopTimesOut, Holding
<1>2. HoldTyped' /\ stage'[r] \in {"send", "dial"} /\ client'[r] = r
      /\ (\A s \in Incoming \ {r} : stage'[s] = stage[s] /\ client'[s] = client[s])
      /\ UNCHANGED <<pool, up>>
  BY <1>1, Zenon DEF HoldTyped, PopTimesOut, GoOn, connVars, States
<1>3. OneHolder' /\ HeldOrPooled' /\ OneSlot'
  BY <1>1, <1>2 DEF OneHolder, HeldOrPooled, OneSlot, Unused
<1>4. \A c \in Incoming : c # r => (Unused(c)' <=> Unused(c))
  BY <1>1, <1>2, SwooleHttpAssumption DEF Unused
<1>5. \A s \in Incoming : client'[s] # Null <=> stage'[s] \in Holding
  BY <1>2, SwooleHttpAssumption DEF HoldInv, Holding
<1>6. \A s \in Incoming : stage'[s] \in {"new", "pop"} => Unused(s)'
  BY <1>2, <1>4, Zenon DEF HoldInv
<1>7. \A c \in Incoming : up'[c] => ~Unused(c)'
  BY <1>1, <1>2, <1>4, Zenon DEF HoldInv
<1>. QED  BY <1>2, <1>3, <1>5, <1>6, <1>7, Zenon DEF HoldInv

(* A request puts its connected client into its Channel.                   *)
LEMMA HoldPush == ASSUME HoldInv, NEW r \in Incoming, Push(r)  PROVE HoldInv'
<1>1. HoldTyped /\ OneHolder /\ HeldOrPooled /\ OneSlot /\ client[r] \in Incoming /\ up[client[r]]
  BY DEF HoldInv, HoldTyped, Push, Holding
<1>. DEFINE c == client[r]
<1>2. PICK k \in Channel :
        /\ Len(pool[k]) < PoolSize
        /\ client' = [client EXCEPT ![r] = Null]
        /\ pool' = [pool EXCEPT ![k] = Append(pool[k], c)]
        /\ GoOn(r, "done") /\ UNCHANGED up
  BY Zenon DEF Push, ChannelOf, Channel, connVars
<1>3. HoldTyped'
  BY <1>1, <1>2 DEF HoldTyped, States, GoOn
<1>4. /\ stage'[r] = "done" /\ client'[r] = Null
      /\ \A s \in Incoming \ {r} : stage'[s] = stage[s] /\ client'[s] = client[s]
  BY <1>1, <1>2, Zenon DEF HoldTyped, GoOn
<1>5. /\ pool[k] \in Seq(Incoming) /\ pool'[k] = Append(pool[k], c)
      /\ \A l \in Channel : l # k => pool'[l] = pool[l]
  BY <1>1, <1>2, Zenon DEF HoldTyped
<1>6. /\ Len(pool[k]) \in Nat /\ Len(pool'[k]) = Len(pool[k]) + 1
      /\ Len(pool[k]) + 1 \in DOMAIN pool'[k] /\ pool'[k][Len(pool[k]) + 1] = c
      /\ \A i \in DOMAIN pool[k] : i \in DOMAIN pool'[k] /\ pool'[k][i] = pool[k][i]
      /\ \A i \in DOMAIN pool'[k] : i \in DOMAIN pool[k] \/ i = Len(pool[k]) + 1
  BY <1>1, <1>5
<1>. HIDE DEF c
<1>7. \A l \in Channel : \A i \in DOMAIN pool[l] : i \in DOMAIN pool'[l] /\ pool'[l][i] = pool[l][i]
  BY <1>5, <1>6, Zenon
<1>8. \A l \in Channel : \A i \in DOMAIN pool'[l] :
        \/ i \in DOMAIN pool[l] /\ pool'[l][i] = pool[l][i] /\ pool[l][i] # c
        \/ l = k /\ i = Len(pool[k]) + 1 /\ pool'[l][i] = c
  BY <1>1, <1>5, <1>6, Zenon DEF HeldOrPooled, c
<1>9. \A s \in Incoming : client'[s] # c
  BY <1>1, <1>4, SwooleHttpAssumption DEF OneHolder, c
<1>10. OneHolder'
  BY <1>1, <1>4 DEF OneHolder
<1>11. \A l \in Channel : \A i \in DOMAIN pool'[l] : pool'[l][i] # Null
  BY <1>3, SwooleHttpAssumption DEF HoldTyped
<1>12. HeldOrPooled'
  <2>. SUFFICES ASSUME NEW s \in Incoming, NEW l \in Channel, NEW i \in DOMAIN pool'[l],
                       client'[s] = pool'[l][i]
                PROVE  FALSE
    BY Zenon DEF HeldOrPooled
  <2>1. s # r /\ client'[s] = client[s]
    BY <1>4, <1>11, Zenon
  <2>2. i \in DOMAIN pool[l] /\ pool'[l][i] = pool[l][i]
    BY <1>8, <1>9, Zenon
  <2>. QED  BY <1>1, <2>1, <2>2, Zenon DEF HeldOrPooled
<1>13. OneSlot'
  <2>. SUFFICES ASSUME NEW l \in Channel, NEW m \in Channel, NEW i \in DOMAIN pool'[l],
                       NEW j \in DOMAIN pool'[m], pool'[l][i] = pool'[m][j]
                PROVE  l = m /\ i = j
    BY Zenon DEF OneSlot
  <2>1. CASE pool'[l][i] = c
    BY <1>8, <2>1, Zenon
  <2>2. CASE pool'[l][i] # c
    <3>1. i \in DOMAIN pool[l] /\ pool[l][i] = pool'[l][i]
          /\ j \in DOMAIN pool[m] /\ pool[m][j] = pool'[m][j]
      BY <1>8, <2>2, Zenon
    <3>. QED  BY <1>1, <3>1 DEF OneSlot
  <2>. QED  BY <2>1, <2>2, Zenon
<1>14. \A d \in Incoming : Unused(d) => Unused(d)'
  <2>. SUFFICES ASSUME NEW d \in Incoming, Unused(d)  PROVE Unused(d)'
    BY Zenon
  <2>1. d # c
    BY Zenon DEF Unused, c
  <2>. QED  BY <1>4, <1>8, <2>1, SwooleHttpAssumption, Zenon DEF Unused
<1>15. \A d \in Incoming : Unused(d)' => Unused(d)
  <2>. SUFFICES ASSUME NEW d \in Incoming, Unused(d)'  PROVE Unused(d)
    BY Zenon
  <2>1. d # c
    BY <1>6, Zenon DEF Unused
  <2>. QED  BY <1>4, <1>7, <2>1, Zenon DEF Unused, c
<1>16. \A s \in Incoming : client'[s] # Null <=> stage'[s] \in Holding
  BY <1>4, Zenon DEF HoldInv, Holding
<1>17. \A s \in Incoming : stage'[s] \in {"new", "pop"} => Unused(s)'
  BY <1>4, <1>14, Zenon DEF HoldInv
<1>18. \A l \in Channel : \A i \in DOMAIN pool'[l] : up'[pool'[l][i]]
  BY <1>1, <1>2, <1>8, Zenon DEF HoldInv, c
<1>19. \A d \in Incoming : up'[d] => ~Unused(d)'
  BY <1>2, <1>15, Zenon DEF HoldInv
<1>20. \A l \in Channel : Len(pool'[l]) <= PoolSize
  BY <1>2, <1>5, <1>6, SwooleHttpAssumption DEF HoldInv
<1>. QED  BY <1>3, <1>10, <1>12, <1>13, <1>16, <1>17, <1>18, <1>19, <1>20, Zenon DEF HoldInv

-----------------------------------------------------------------------------
(* What is on the connections.                                             *)

(* The step touches no connection and no request that waits for a reply.   *)
LEMMA WireStays ==
  ASSUME WireInv, UNCHANGED <<got, owed, replies>>,
         \A s \in Incoming :
           \/ stage'[s] = stage[s] /\ client'[s] = client[s]
           \/ /\ stage[s] \notin Waiting /\ stage'[s] \notin Waiting
              /\ stage'[s] \in {"new", "pop", "dial", "send"} => stage[s] \in {"new", "pop", "dial", "send"}
  PROVE  WireInv'
<1>1. WireTyped' /\ ResponseIsOwn'
  BY Zenon DEF WireInv, WireTyped, ResponseIsOwn
<1>2. \A s \in Incoming : stage'[s] \in {"head", "body"} => ~Whole(got'[s])
  BY Zenon DEF WireInv, Waiting
<1>3. \A s \in Incoming : stage'[s] \in {"new", "pop", "dial", "send"} => got'[s] = <<>>
  BY Zenon DEF WireInv
<1>4. \A c, s \in Incoming : Busy(c, s) => Busy(c, s)'
  BY Zenon DEF Busy
<1>5. \A c \in Incoming : Clean(c) => Clean(c)'
  BY Zenon DEF Clean
<1>. QED  BY <1>1, <1>2, <1>3, <1>4, <1>5, Zenon DEF WireInv

(* Of two requests that wait, each has a client of its own.                *)
LEMMA OthersBusy ==
  ASSUME IInv, NEW r \in Incoming, client[r] \in Incoming,
         \A s \in Incoming \ {r} : stage'[s] = stage[s] /\ client'[s] = client[s],
         \A c \in Incoming \ {client[r]} : owed'[c] = owed[c] /\ replies'[c] = replies[c]
  PROVE  \A c \in Incoming \ {client[r]} : Clean(c)' \/ \E s \in Incoming : Busy(c, s)'
<1>. SUFFICES ASSUME NEW c \in Incoming, c # client[r]
              PROVE  Clean(c)' \/ \E s \in Incoming : Busy(c, s)'
  BY Zenon
<1>1. CASE Clean(c)
  BY <1>1, Zenon DEF Clean
<1>2. CASE ~Clean(c)
  <2>1. PICK s \in Incoming : Busy(c, s)
    BY <1>2, Zenon DEF IInv, WireInv
  <2>2. s # r
    BY <2>1, Zenon DEF Busy
  <2>3. stage'[s] = stage[s] /\ client'[s] = client[s] /\ owed'[c] = owed[c] /\ replies'[c] = replies[c]
    BY <2>2, Zenon
  <2>4. Busy(c, s)'
    BY <2>1, <2>3, Zenon DEF Busy
  <2>. QED  BY <2>4, Zenon
<1>. QED  BY <1>1, <1>2, Zenon

(* A request whose exchange is over, or that gives it up, leaves nothing   *)
(* on the connection.                                                      *)
LEMMA WireCleans ==
  ASSUME IInv, NEW r \in Incoming, NEW c, c = client[r], stage[r] \in Holding, NEW p \in States,
         p \notin Waiting, p \in {"new", "pop", "dial", "send"} => stage[r] = "dial" /\ got' = got,
         GoOn(r, p), UNCHANGED client \/ client' = [client EXCEPT ![r] = Null],
         owed' = [owed EXCEPT ![c] = <<>>], replies' = [replies EXCEPT ![c] = <<>>],
         NEW g \in Seq(Pieces), got' = [got EXCEPT ![r] = g], OfOnly(g, r)
  PROVE  WireInv'
<1>1. HoldTyped /\ WireTyped /\ c \in Incoming
  BY DEF IInv, HoldInv, WireInv, HoldTyped
<1>2. /\ stage'[r] = p
      /\ \A s \in Incoming \ {r} : stage'[s] = stage[s] /\ client'[s] = client[s]
  BY <1>1, Zenon DEF HoldTyped, GoOn
<1>3. /\ owed'[c] = <<>> /\ replies'[c] = <<>>
      /\ \A d \in Incoming \ {c} : owed'[d] = owed[d] /\ replies'[d] = replies[d]
  BY <1>1, Zenon DEF WireTyped
<1>4. got'[r] = g /\ \A s \in Incoming \ {r} : got'[s] = got[s]
  BY <1>1, Zenon DEF WireTyped
<1>5. WireTyped'
  BY <1>1 DEF WireTyped
<1>6. ResponseIsOwn'
  <2>1. ASSUME NEW s \in Incoming PROVE \A i \in DOMAIN got'[s] : got'[s][i].of = s
    <3>1. CASE s = r
      BY <1>4, <3>1, Zenon DEF OfOnly
    <3>2. CASE s # r
      BY <1>4, <3>2, Zenon DEF IInv, WireInv, ResponseIsOwn
    <3>. QED  BY <3>1, <3>2, Zenon
  <2>. QED  BY <2>1, Zenon DEF ResponseIsOwn
<1>7. \A s \in Incoming : stage'[s] \in {"head", "body"} => ~Whole(got'[s])
  BY <1>2, <1>4, Zenon DEF IInv, WireInv, Waiting
<1>8. \A s \in Incoming : stage'[s] \in {"new", "pop", "dial", "send"} => got'[s] = <<>>
  BY <1>2, <1>4, Zenon DEF IInv, WireInv
<1>9. \A d \in Incoming : Clean(d)' \/ \E s \in Incoming : Busy(d, s)'
  BY <1>1, <1>2, <1>3, OthersBusy, Zenon DEF Clean
<1>. QED  BY <1>5, <1>6, <1>7, <1>8, <1>9, Zenon DEF WireInv

(* A request that is sent is the only one on its connection.               *)
LEMMA WireSends ==
  ASSUME IInv, NEW r \in Incoming, stage[r] = "send", NEW p \in Waiting, GoOn(r, p),
         UNCHANGED <<client, got, replies>>,
         owed' = [owed EXCEPT ![client[r]] = Append(owed[client[r]], r)]
  PROVE  WireInv'
<1>. DEFINE c == client[r]
<1>1. HoldTyped /\ WireTyped /\ OneHolder /\ c \in Incoming
  BY DEF IInv, HoldInv, WireInv, HoldTyped, Holding
<1>2. /\ stage'[r] = p /\ client'[r] = c
      /\ \A s \in Incoming \ {r} : stage'[s] = stage[s] /\ client'[s] = client[s]
  BY <1>1, Zenon DEF HoldTyped, GoOn
<1>3. Clean(c)
  <2>1. \A s \in Incoming : ~Busy(c, s)
    <3>. SUFFICES ASSUME NEW s \in Incoming, Busy(c, s)  PROVE FALSE
      BY Zenon
    <3>1. s = r
      BY <1>1, SwooleHttpAssumption, Zenon DEF Busy, OneHolder
    <3>. QED  BY <3>1, Zenon DEF Busy, Waiting
  <2>. QED  BY <1>1, <2>1, Zenon DEF IInv, WireInv
<1>4. owed'[c] = <<r>> /\ replies'[c] = <<>>
      /\ \A d \in Incoming \ {c} : owed'[d] = owed[d] /\ replies'[d] = replies[d]
  BY <1>1, <1>3 DEF WireTyped, Clean
<1>5. WireTyped' /\ ResponseIsOwn'
  BY <1>1 DEF WireTyped, IInv, WireInv, ResponseIsOwn
<1>6. got[r] = <<>>
  BY Zenon DEF IInv, WireInv
<1>7. ~Whole(got[r])
  BY <1>6 DEF Whole
<1>8. \A s \in Incoming : stage'[s] \in {"head", "body"} => ~Whole(got'[s])
  BY <1>2, <1>7, Zenon DEF IInv, WireInv
<1>9. \A s \in Incoming : stage'[s] \in {"new", "pop", "dial", "send"} => got'[s] = <<>>
  BY <1>2, Zenon DEF IInv, WireInv, Waiting
<1>10. Busy(c, r)'
  BY <1>2, <1>4, Zenon DEF Busy
<1>11. \A d \in Incoming : Clean(d)' \/ \E s \in Incoming : Busy(d, s)'
  BY <1>1, <1>2, <1>4, <1>10, OthersBusy, Zenon
<1>. QED  BY <1>5, <1>8, <1>9, <1>11, Zenon DEF WireInv

(* The pieces of a reply are of the request it answers, and the one that   *)
(* ends it is the last.                                                    *)
LEMMA ReplyPieces ==
  ASSUME NEW r \in Incoming, NEW f \in Framing
  PROVE  ReplyTo(r, f) \in Seq(Pieces) /\ OfOnly(ReplyTo(r, f), r) /\ EndsLast(ReplyTo(r, f))
<1>. USE DEF OfOnly, EndsLast
<1>1. Piece(r, "head", f) \in Pieces /\ Piece(r, "body", f) \in Pieces
  BY Zenon DEF Piece, Pieces
<1>2. CASE kind[r] = "head" \/ f = "empty"
  <2>1. ReplyTo(r, f) = <<Piece(r, "head", f)>> \o <<>>
    BY <1>2, Zenon DEF ReplyTo
  <2>2. ReplyTo(r, f) = <<Piece(r, "head", f)>>
    BY <1>1, <2>1
  <2>. QED  BY <1>1, <2>2 DEF Piece
<1>3. CASE ~(kind[r] = "head" \/ f = "empty")
  <2>1. ReplyTo(r, f) = <<Piece(r, "head", f)>> \o <<Piece(r, "body", f)>>
    BY <1>3, Zenon DEF ReplyTo
  <2>2. /\ ReplyTo(r, f) \in Seq(Pieces) /\ Len(ReplyTo(r, f)) = 2
        /\ ReplyTo(r, f)[1] = Piece(r, "head", f) /\ ReplyTo(r, f)[2] = Piece(r, "body", f)
    BY <1>1, <2>1
  <2>. QED  BY <1>3, <2>2 DEF Piece, Last
<1>. QED  BY <1>2, <1>3, Zenon

LEMMA WireAnswers == ASSUME IInv, NEW c \in Incoming, BackendAnswers(c)  PROVE WireInv'
<1>1. WireTyped /\ owed[c] # <<>> /\ UNCHANGED <<stage, client, got>>
  BY Zenon DEF IInv, WireInv, BackendAnswers
<1>2. PICK r \in Incoming : Busy(c, r) /\ owed[c] = <<r>> /\ replies[c] = <<>>
  BY <1>1, Zenon DEF IInv, WireInv, Clean, Busy
<1>3. PICK f \in Framing : replies' = [replies EXCEPT ![c] = replies[c] \o ReplyTo(r, f)]
  <2>1. Head(owed[c]) = r
    BY <1>2
  <2>. QED  BY <2>1, Zenon DEF BackendAnswers
<1>4. replies' = [replies EXCEPT ![c] = ReplyTo(r, f)] /\ owed' = [owed EXCEPT ![c] = <<>>]
  <2>1. Tail(owed[c]) = <<>> /\ replies[c] \o ReplyTo(r, f) = ReplyTo(r, f)
    BY <1>2, ReplyPieces
  <2>. QED  BY <1>3, <2>1, Zenon DEF BackendAnswers
<1>5. WireTyped'
  BY <1>1, <1>4, ReplyPieces DEF WireTyped
<1>6. replies'[c] = ReplyTo(r, f) /\ owed'[c] = <<>>
      /\ \A d \in Incoming \ {c} : owed'[d] = owed[d] /\ replies'[d] = replies[d]
  BY <1>1, <1>4, Zenon DEF WireTyped
<1>7. Busy(c, r)'
  <2>1. OfOnly(replies'[c], r) /\ EndsLast(replies'[c])
    BY <1>6, ReplyPieces, Zenon
  <2>. QED  BY <1>1, <1>2, <1>6, <2>1, Zenon DEF Busy
<1>8. \A d \in Incoming : Clean(d)' \/ \E s \in Incoming : Busy(d, s)'
  <2>. SUFFICES ASSUME NEW d \in Incoming, d # c  PROVE Clean(d)' \/ \E s \in Incoming : Busy(d, s)'
    BY <1>7, Zenon
  <2>1. (Clean(d) => Clean(d)') /\ \A s \in Incoming : Busy(d, s) => Busy(d, s)'
    BY <1>1, <1>6, Zenon DEF Clean, Busy
  <2>. QED  BY <2>1, Zenon DEF IInv, WireInv
<1>. QED  BY <1>1, <1>5, <1>8, Zenon DEF IInv, WireInv, ResponseIsOwn

(* What a request has read once it takes k pieces more.                    *)
Reads(r, k) == Join(got[r], replies[client[r]], k)

(* It is a part of the reply to the request; so is what is left, and only  *)
(* its last piece ends the reply.                                          *)
LEMMA WireReads ==
  ASSUME IInv, NEW r \in Incoming, stage[r] \in {"head", "body"}, NEW k \in 1..Len(replies[client[r]])
  PROVE  /\ client[r] \in Incoming
         /\ Reads(r, k) \in Seq(Pieces) /\ OfOnly(Reads(r, k), r)
         /\ owed[client[r]] = <<>>
         /\ OfOnly(replies[client[r]], r) /\ EndsLast(replies[client[r]])
         /\ Whole(Reads(r, k)) => k = Len(replies[client[r]])
<1>. DEFINE c == client[r]
            g == Reads(r, k)
<1>1. HoldTyped /\ WireTyped /\ OneHolder /\ c \in Incoming
  BY DEF IInv, HoldInv, WireInv, HoldTyped, Holding
<1>2. replies[c] \in Seq(Pieces) /\ got[r] \in Seq(Pieces) /\ replies[c] # <<>>
  BY <1>1 DEF WireTyped
<1>3. PICK s \in Incoming : Busy(c, s)
  BY <1>1, <1>2, Zenon DEF IInv, WireInv, Clean
<1>4. s = r
  BY <1>1, <1>3, SwooleHttpAssumption, Zenon DEF Busy, OneHolder
<1>5. owed[c] = <<>> /\ OfOnly(replies[c], r) /\ EndsLast(replies[c])
  BY <1>2, <1>3, <1>4, Zenon DEF Busy
<1>6. ~Whole(got[r]) /\ OfOnly(got[r], r)
  BY Zenon DEF IInv, WireInv, ResponseIsOwn, OfOnly
<1>7. g \in Seq(Pieces) /\ IsJoin(g, got[r], replies[c], k)
  BY <1>2, JoinFacts, Zenon DEF Reads
<1>. HIDE DEF c, g
<1>8. OfOnly(g, r)
  <2>. SUFFICES ASSUME NEW i \in DOMAIN g  PROVE g[i].of = r
    BY Zenon DEF OfOnly
  <2>1. CASE i \in DOMAIN got[r] /\ g[i] = got[r][i]
    BY <1>6, <2>1, Zenon DEF OfOnly
  <2>2. CASE \E j \in DOMAIN replies[c] : g[i] = replies[c][j] /\ j <= k
    BY <1>5, <2>2, Zenon DEF OfOnly
  <2>. QED  BY <1>7, <2>1, <2>2, Zenon DEF IsJoin
<1>9. ASSUME Whole(g)  PROVE k = Len(replies[c])
  <2>1. PICK i \in DOMAIN g : Last(g[i])
    BY <1>9, Zenon DEF Whole, Last
  <2>2. ~Last(got[r][i]) \/ i \notin DOMAIN got[r]
    BY <1>6, Zenon DEF Whole, Last
  <2>3. PICK j \in DOMAIN replies[c] : Last(replies[c][j]) /\ j <= k
    BY <1>7, <2>1, <2>2, Zenon DEF IsJoin
  <2>4. j = Len(replies[c])
    BY <1>5, <2>3, Zenon DEF EndsLast
  <2>. QED  BY <1>2, <2>3, <2>4 DEF c
<1>. QED  BY <1>1, <1>5, <1>7, <1>8, <1>9, Zenon DEF c, g

(* A read that keeps the connection: the reply goes on, or it is over and  *)
(* nothing is left of it.                                                  *)
LEMMA WireRecv ==
  ASSUME IInv, NEW r \in Incoming, stage[r] \in {"head", "body"}, NEW k \in 1..Len(replies[client[r]]),
         got' = [got EXCEPT ![r] = Reads(r, k)],
         replies' = [replies EXCEPT ![client[r]] = Suffix(replies[client[r]], k)],
         IF Whole(Reads(r, k)) THEN GoOn(r, "release") ELSE GoOn(r, "body"),
         UNCHANGED <<client, owed>>
  PROVE  WireInv'
<1>1. HoldTyped /\ WireTyped
  BY Zenon DEF IInv, HoldInv, WireInv
<1>2. PICK c \in Incoming : c = client[r]
  BY WireReads, Zenon
<1>. DEFINE g == Reads(r, k)
            w == Suffix(replies[c], k)
<1>3. g \in Seq(Pieces) /\ OfOnly(g, r) /\ owed[c] = <<>>
      /\ OfOnly(replies[c], r) /\ EndsLast(replies[c]) /\ (Whole(g) => k = Len(replies[c]))
  BY <1>2, WireReads, Zenon
<1>4. w \in Seq(Pieces) /\ IsSuffix(w, replies[c], k)
  <2>1. replies[c] \in Seq(Pieces) /\ k \in 1..Len(replies[c])
    BY <1>1, <1>2 DEF WireTyped
  <2>. QED  BY <2>1, SuffixFacts, Zenon
<1>. HIDE DEF g, w
<1>5. OfOnly(w, r) /\ EndsLast(w)
  <2>. SUFFICES ASSUME NEW i \in DOMAIN w  PROVE w[i].of = r /\ (Last(w[i]) => i = Len(w))
    BY Zenon DEF OfOnly, EndsLast
  <2>1. i + k \in DOMAIN replies[c] /\ w[i] = replies[c][i + k] /\ i \in Nat
    BY <1>4, Zenon DEF IsSuffix
  <2>2. w[i].of = r /\ (Last(w[i]) => i + k = Len(replies[c]))
    BY <1>3, <2>1, Zenon DEF OfOnly, EndsLast
  <2>. QED  BY <1>4, <2>1, <2>2 DEF IsSuffix
<1>6. /\ stage'[r] = IF Whole(g) THEN "release" ELSE "body"
      /\ \A s \in Incoming \ {r} : stage'[s] = stage[s] /\ client'[s] = client[s]
  BY <1>1, Zenon DEF HoldTyped, GoOn, g
<1>7. /\ owed'[c] = <<>> /\ replies'[c] = w
      /\ \A d \in Incoming \ {c} : owed'[d] = owed[d] /\ replies'[d] = replies[d]
  BY <1>1, <1>2, <1>3, Zenon DEF WireTyped, w
<1>8. got'[r] = g /\ \A s \in Incoming \ {r} : got'[s] = got[s]
  BY <1>1, Zenon DEF WireTyped, g
<1>9. WireTyped'
  BY <1>1, <1>2, <1>3, <1>4 DEF WireTyped, g, w
<1>10. ResponseIsOwn'
  BY <1>3, <1>8, Zenon DEF IInv, WireInv, ResponseIsOwn, OfOnly
<1>11. \A s \in Incoming : stage'[s] \in {"head", "body"} => ~Whole(got'[s])
  BY <1>6, <1>8 DEF IInv, WireInv
<1>12. \A s \in Incoming : stage'[s] \in {"new", "pop", "dial", "send"} => got'[s] = <<>>
  BY <1>6, <1>8 DEF IInv, WireInv
<1>13. Clean(c)' \/ Busy(c, r)'
  <2>1. CASE Whole(g)
    BY <1>3, <1>4, <1>7, <2>1, Zenon DEF Clean, IsSuffix
  <2>2. CASE ~Whole(g)
    <3>1. stage'[r] \in Waiting /\ client'[r] = c
      BY <1>2, <1>6, <2>2 DEF Waiting
    <3>. QED  BY <1>5, <1>7, <3>1, Zenon DEF Busy
  <2>. QED  BY <2>1, <2>2
<1>14. \A d \in Incoming : Clean(d)' \/ \E s \in Incoming : Busy(d, s)'
  BY <1>2, <1>6, <1>7, <1>13, OthersBusy, Zenon
<1>. QED  BY <1>9, <1>10, <1>11, <1>12, <1>14, Zenon DEF WireInv

-----------------------------------------------------------------------------
(* The steps that end with the client closed.                              *)
LEMMA ClosesInv ==
  ASSUME IInv, NEW r \in Incoming, stage[r] \in Holding, Close(client[r]), GoOn(r, "done"),
         client' = [client EXCEPT ![r] = Null], UNCHANGED pool,
         NEW g \in Seq(Pieces), got' = [got EXCEPT ![r] = g], OfOnly(g, r)
  PROVE  IInv'
<1>1. HoldInv'
  BY HoldCloses, Zenon DEF IInv, Close
<1>2. "done" \in States /\ "done" \notin Waiting /\ "done" \notin {"new", "pop", "dial", "send"}
  BY Zenon DEF States, Waiting
<1>3. WireInv'
  BY <1>2, WireCleans, Zenon DEF Close
<1>. QED  BY <1>1, <1>3 DEF IInv

(* got unchanged, in the form that the lemmas on connections have.         *)
LEMMA GotSame ==
  ASSUME IInv, NEW r \in Incoming, UNCHANGED got
  PROVE  got[r] \in Seq(Pieces) /\ got' = [got EXCEPT ![r] = got[r]] /\ OfOnly(got[r], r)
BY Zenon DEF IInv, WireInv, WireTyped, ResponseIsOwn, OfOnly

LEMMA BadGatewayInv ==
  ASSUME IInv, NEW r \in Incoming, stage[r] \in Holding, BadGateway(r)  PROVE IInv'
BY ClosesInv, GotSame, Zenon DEF BadGateway

LEMMA StartInv == ASSUME IInv, NEW r \in Incoming, Rejected(r) \/ OnRequest(r)  PROVE IInv'
<1>1. PICK p \in {"pop", "done"} : stage[r] = "new" /\ GoOn(r, p) /\ UNCHANGED <<client, pool, up>>
  BY Zenon DEF Rejected, OnRequest, connVars
<1>2. HoldInv'
  BY <1>1, HoldStarts, Zenon DEF IInv
<1>3. UNCHANGED <<got, owed, replies>>
  BY Zenon DEF Rejected, OnRequest, connVars
<1>4. stage'[r] = p /\ \A s \in Incoming \ {r} : stage'[s] = stage[s] /\ client'[s] = client[s]
  BY <1>1 DEF IInv, HoldInv, HoldTyped, GoOn
<1>5. "new" \notin Waiting /\ p \notin Waiting
  BY Zenon DEF Waiting
<1>6. WireInv'
  BY <1>1, <1>3, <1>4, <1>5, WireStays, Zenon DEF IInv
<1>. QED  BY <1>2, <1>6, Zenon DEF IInv

LEMMA PopInv == ASSUME IInv, NEW r \in Incoming, PopClient(r) \/ PopTimesOut(r)  PROVE IInv'
<1>1. HoldInv'
  BY HoldPop, HoldMakes, Zenon DEF IInv
<1>2. UNCHANGED <<got, owed, replies>> /\ stage[r] = "pop" /\ stage' = [stage EXCEPT ![r] = stage'[r]]
      /\ \A s \in Incoming \ {r} : client'[s] = client[s]
  BY DEF IInv, HoldInv, HoldTyped, PopClient, PopTimesOut, GoOn, connVars
<1>3. stage'[r] \in {"send", "dial"}
  BY DEF IInv, HoldInv, HoldTyped, PopClient, PopTimesOut, GoOn
<1>4. \A s \in Incoming \ {r} : stage'[s] = stage[s]
  BY <1>2, Zenon DEF IInv, HoldInv, HoldTyped
<1>5. stage[r] \notin Waiting /\ stage'[r] \notin Waiting
  BY <1>2, <1>3 DEF Waiting
<1>6. WireInv'
  BY <1>2, <1>4, <1>5, WireStays, Zenon DEF IInv
<1>. QED  BY <1>1, <1>6 DEF IInv

LEMMA PushInv == ASSUME IInv, NEW r \in Incoming, Push(r)  PROVE IInv'
<1>1. HoldInv'
  BY HoldPush, Zenon DEF IInv
<1>2. UNCHANGED <<got, owed, replies>> /\ stage[r] = "release" /\ stage'[r] = "done"
      /\ \A s \in Incoming \ {r} : stage'[s] = stage[s] /\ client'[s] = client[s]
  BY Zenon DEF IInv, HoldInv, HoldTyped, Push, GoOn, connVars
<1>3. stage[r] \notin Waiting /\ stage'[r] \notin Waiting /\ stage'[r] \notin {"new", "pop", "dial", "send"}
  BY <1>2, Zenon DEF Waiting
<1>4. WireInv'
  BY <1>2, <1>3, WireStays, Zenon DEF IInv
<1>. QED  BY <1>1, <1>4 DEF IInv

LEMMA DialInv == ASSUME IInv, NEW r \in Incoming, Dial(r)  PROVE IInv'
<1>1. stage[r] = "dial" /\ stage[r] \in Holding /\ "send" \in Holding /\ "send" \in States
      /\ "send" \notin Waiting
  BY Zenon DEF Dial, Holding, States, Waiting
<1>2. GoOn(r, "send") /\ UNCHANGED <<client, pool, got>>
      /\ up' = [up EXCEPT ![client[r]] = TRUE]
      /\ owed' = [owed EXCEPT ![client[r]] = <<>>] /\ replies' = [replies EXCEPT ![client[r]] = <<>>]
  BY Zenon DEF Dial, Opened
<1>3. HoldInv'
  BY <1>1, <1>2, HoldMoves, Zenon DEF IInv
<1>4. WireInv'
  BY <1>1, <1>2, WireCleans, GotSame, Zenon
<1>. QED  BY <1>3, <1>4, Zenon DEF IInv

LEMMA SendInv == ASSUME IInv, NEW r \in Incoming, SendRaw(r) \/ Execute(r)  PROVE IInv'
<1>1. PICK p \in {"head", "execute"} :
        /\ stage[r] = "send" /\ GoOn(r, p) /\ UNCHANGED <<client, pool, got, replies>>
        /\ owed' = [owed EXCEPT ![client[r]] = Append(owed[client[r]], r)]
        /\ UNCHANGED up \/ up' = [up EXCEPT ![client[r]] = TRUE]
  BY Zenon DEF SendRaw, Execute
<1>2. p \in Holding /\ p \in Waiting /\ "send" \in Holding
  BY Zenon DEF Holding, Waiting
<1>3. HoldInv'
  BY <1>1, <1>2, HoldMoves, Zenon DEF IInv
<1>4. WireInv'
  BY <1>1, <1>2, WireSends, Zenon
<1>. QED  BY <1>3, <1>4, Zenon DEF IInv

LEMMA ExecutedInv == ASSUME IInv, NEW r \in Incoming, Executed(r)  PROVE IInv'
<1>1. PICK c \in Incoming : c = client[r] /\ HoldTyped /\ WireTyped /\ OneHolder
  BY DEF IInv, HoldInv, WireInv, HoldTyped, Executed, Holding
<1>2. stage[r] = "execute" /\ replies[c] # <<>> /\ GoOn(r, "release") /\ UNCHANGED <<client, pool>>
      /\ got' = [got EXCEPT ![r] = replies[c]]
  BY <1>1, Zenon DEF Executed
<1>3. "execute" \in Holding /\ "release" \in Holding /\ "release" \in States
      /\ "release" \notin Waiting /\ "release" \notin {"new", "pop", "dial", "send"}
  BY Zenon DEF Holding, States, Waiting
<1>4. PICK s \in Incoming : Busy(c, s)
  BY <1>2, Zenon DEF IInv, WireInv, Clean
<1>5. s = r
  BY <1>1, <1>4, SwooleHttpAssumption, Zenon DEF Busy, OneHolder
<1>6. owed[c] = <<>> /\ OfOnly(replies[c], r) /\ replies[c] \in Seq(Pieces)
  BY <1>1, <1>2, <1>4, <1>5 DEF Busy, WireTyped
<1>7. UNCHANGED up \/ up' = [up EXCEPT ![c] = FALSE]
  BY <1>1, Zenon DEF Executed, Close
<1>8. owed' = [owed EXCEPT ![c] = <<>>] /\ replies' = [replies EXCEPT ![c] = <<>>]
  <2>1. owed = [owed EXCEPT ![c] = <<>>]
    BY <1>1, <1>6, Zenon DEF WireTyped
  <2>. QED  BY <1>1, <2>1, Zenon DEF Executed, Close
<1>9. HoldInv'
  BY <1>1, <1>2, <1>3, <1>7, HoldMoves, Zenon DEF IInv
<1>10. WireInv'
  BY <1>1, <1>2, <1>3, <1>6, <1>8, WireCleans, Zenon
<1>. QED  BY <1>9, <1>10, Zenon DEF IInv

LEMMA ExecuteFailsInv == ASSUME IInv, NEW r \in Incoming, ExecuteFails(r)  PROVE IInv'
<1>1. stage[r] = "execute" /\ Close(client[r]) /\ GoOn(r, "release") /\ UNCHANGED <<client, pool, got>>
  BY Zenon DEF ExecuteFails
<1>2. "execute" \in Holding /\ "release" \in Holding /\ "release" \in States
      /\ "release" \notin Waiting /\ "release" \notin {"new", "pop", "dial", "send"}
  BY Zenon DEF Holding, States, Waiting
<1>3. HoldInv'
  BY <1>1, <1>2, HoldMoves, Zenon DEF IInv, Close
<1>4. WireInv'
  BY <1>1, <1>2, WireCleans, GotSame, Zenon DEF Close
<1>. QED  BY <1>3, <1>4, Zenon DEF IInv

LEMMA RecvInv == ASSUME IInv, NEW r \in Incoming, Recv(r)  PROVE IInv'
<1>1. stage[r] \in {"head", "body"} /\ UNCHANGED pool
  BY Zenon DEF Recv
<1>2. PICK k \in 1..Len(replies[client[r]]) :
        /\ got' = [got EXCEPT ![r] = Reads(r, k)]
        /\ IF Reads(r, k)[1].framing = "closing"
           THEN Close(client[r]) /\ client' = [client EXCEPT ![r] = Null] /\ GoOn(r, "done")
           ELSE /\ replies' = [replies EXCEPT ![client[r]] = Suffix(replies[client[r]], k)]
                /\ IF Whole(Reads(r, k)) THEN GoOn(r, "release") ELSE GoOn(r, "body")
                /\ UNCHANGED <<client, up, owed>>
  BY Zenon DEF Recv, Reads, Join, Suffix
<1>3. Reads(r, k) \in Seq(Pieces) /\ OfOnly(Reads(r, k), r)
  BY <1>1, WireReads, Zenon
<1>4. stage[r] \in Holding /\ "release" \in Holding /\ "body" \in Holding
  BY <1>1, Zenon DEF Holding
<1>5. CASE Reads(r, k)[1].framing = "closing"
  BY <1>1, <1>2, <1>3, <1>4, <1>5, ClosesInv, Zenon
<1>6. CASE Reads(r, k)[1].framing # "closing"
  <2>1. WireInv'
    BY <1>1, <1>2, <1>6, WireRecv, Zenon
  <2>2. PICK p \in Holding : GoOn(r, p) /\ UNCHANGED <<client, up>>
    BY <1>2, <1>4, <1>6, Zenon
  <2>3. HoldInv'
    BY <1>1, <1>4, <2>2, HoldMoves, Zenon DEF IInv
  <2>. QED  BY <2>1, <2>3 DEF IInv
<1>. QED  BY <1>5, <1>6, Zenon

LEMMA DiscardInv == ASSUME IInv, NEW r \in Incoming, Discard(r)  PROVE IInv'
<1>1. stage[r] \in Holding
  BY Zenon DEF Discard, Holding
<1>. QED  BY <1>1, ClosesInv, GotSame, Zenon DEF Discard

LEMMA FailsInv ==
  ASSUME IInv, NEW r \in Incoming, DialFails(r) \/ SendRawFails(r) \/ RecvFails(r)  PROVE IInv'
<1>1. stage[r] \in Holding
  BY Zenon DEF DialFails, SendRawFails, RecvFails, Holding
<1>. QED  BY <1>1, BadGatewayInv, Zenon DEF DialFails, SendRawFails, RecvFails

(* The places of the clients do not depend on the other variables.         *)
LEMMA HoldSame == ASSUME HoldInv, UNCHANGED <<stage, client, pool, up>>  PROVE HoldInv'
<1>1. \A c : Unused(c)' <=> Unused(c)
  BY Zenon DEF Unused
<1>. QED  BY <1>1 DEF HoldInv, HoldTyped, OneHolder, HeldOrPooled, OneSlot

LEMMA BackendInv ==
  ASSUME IInv, NEW c \in Incoming, BackendAnswers(c) \/ PeerCloses(c)  PROVE IInv'
<1>1. HoldInv'
  BY HoldSame, Zenon DEF IInv, BackendAnswers, PeerCloses
<1>2. CASE BackendAnswers(c)
  BY <1>1, <1>2, WireAnswers, Zenon DEF IInv
<1>3. CASE PeerCloses(c)
  <2>1. UNCHANGED <<got, owed, replies, stage, client>>
    BY <1>3, Zenon DEF PeerCloses
  <2>. QED  BY <1>1, <2>1, WireStays, Zenon DEF IInv
<1>. QED  BY <1>2, <1>3, Zenon

LEMMA NextInv == ASSUME IInv, [HttpNext]_httpVars  PROVE IInv'
<1>1. CASE UNCHANGED httpVars
  <2>1. UNCHANGED <<stage, client, pool, up, got, owed, replies>>
    BY <1>1, Zenon DEF httpVars, connVars
  <2>2. HoldInv'
    BY <2>1, HoldSame, Zenon DEF IInv
  <2>3. WireInv'
    BY <2>1, WireStays, Zenon DEF IInv
  <2>. QED  BY <2>2, <2>3 DEF IInv
<1>2. CASE Backend
  BY <1>2, BackendInv, Zenon DEF Backend
<1>3. ASSUME NEW r \in Incoming, Rejected(r) \/ OnRequest(r) \/ Handles(r)  PROVE IInv'
  <2>1. CASE Rejected(r) \/ OnRequest(r)
    BY <2>1, StartInv, Zenon
  <2>2. CASE PopClient(r) \/ PopTimesOut(r) \/ Push(r)
    BY <2>2, PopInv, PushInv, Zenon
  <2>3. CASE Dial(r) \/ SendRaw(r) \/ Execute(r)
    BY <2>3, DialInv, SendInv, Zenon
  <2>4. CASE DialFails(r) \/ SendRawFails(r) \/ RecvFails(r) \/ Discard(r)
    BY <2>4, FailsInv, DiscardInv, Zenon
  <2>5. CASE Recv(r) \/ Executed(r) \/ ExecuteFails(r)
    BY <2>5, RecvInv, ExecutedInv, ExecuteFailsInv, Zenon
  <2>. QED  BY <1>3, <2>1, <2>2, <2>3, <2>4, <2>5, Zenon DEF Handles
<1>. QED  BY <1>1, <1>2, <1>3, Zenon DEF HttpNext, HttpFinished

-----------------------------------------------------------------------------
(* IInv holds of every reachable state.                                    *)
THEOREM Invariance == HttpSpec => []IInv
BY InitInv, NextInv, PTL DEF HttpSpec

(* No request is answered with a reply to another one, whatever clients    *)
(* were used, failed or timed out before (Handler.php 281-332).            *)
THEOREM ResponsesAreOwn == HttpSpec => []ResponseIsOwn
<1>1. IInv => ResponseIsOwn
  BY Zenon DEF IInv, WireInv
<1>. QED  BY <1>1, Invariance, PTL

(* A set without two distinct elements counts at most one.                 *)
LEMMA AtMostOne ==
  ASSUME NEW S, \A x, y \in S : x = y
  PROVE  Cardinality(S) = IF S = {} THEN 0 ELSE 1
<1>1. CASE S = {}
  BY <1>1, FS_EmptySet
<1>2. CASE S # {}
  <2>1. PICK x : S = {x}
    BY <1>2
  <2>. QED  BY <1>2, <2>1, FS_Singleton
<1>. QED  BY <1>1, <1>2

(* Every client is in one place at most, a connected one is in one, and no *)
(* Channel is over its capacity (Handler.php 195-203, 336-344).            *)
THEOREM ClientsAccounted == HttpSpec => []Accounted
<1>1. ASSUME HoldInv  PROVE Accounted
  <2>. SUFFICES ASSUME NEW c \in Incoming,
                       NEW h, h = Cardinality(ClientHolders(c)), NEW s, s = Cardinality(Slots(c))
                PROVE  h + s <= 1 /\ (up[c] => h + s = 1)
    BY <1>1, Zenon DEF Accounted, HoldInv
  <2>1. h = IF ClientHolders(c) = {} THEN 0 ELSE 1
    <3>1. \A x, y \in ClientHolders(c) : x = y
      BY <1>1, SwooleHttpAssumption, Zenon DEF HoldInv, OneHolder, ClientHolders
    <3>. QED  BY <3>1, AtMostOne, Zenon
  <2>2. \A x \in Slots(c) :
          \E k \in Channel : \E i \in DOMAIN pool[k] : x = <<k, i>> /\ pool[k][i] = c
    <3>. SUFFICES ASSUME NEW k \in Channel, NEW i \in 1..PoolSize, i <= Len(pool[k])
                  PROVE  i \in DOMAIN pool[k]
      BY DEF Slots
    <3>. QED  BY <1>1, SwooleHttpAssumption DEF HoldInv, HoldTyped
  <2>3. \A k \in Channel : \A i \in DOMAIN pool[k] : pool[k][i] = c => <<k, i>> \in Slots(c)
    <3>. SUFFICES ASSUME NEW k \in Channel, NEW i \in DOMAIN pool[k]
                  PROVE  i \in 1..PoolSize /\ i <= Len(pool[k])
      BY Zenon DEF Slots
    <3>. QED  BY <1>1, SwooleHttpAssumption DEF HoldInv, HoldTyped
  <2>4. s = IF Slots(c) = {} THEN 0 ELSE 1
    <3>1. \A x, y \in Slots(c) : x = y
      BY <1>1, <2>2 DEF HoldInv, OneSlot
    <3>. QED  BY <3>1, AtMostOne, Zenon
  <2>5. ClientHolders(c) = {} \/ Slots(c) = {}
    <3>. SUFFICES ASSUME NEW r \in Incoming, client[r] = c, NEW x \in Slots(c)  PROVE FALSE
      BY Zenon DEF ClientHolders
    <3>. QED  BY <1>1, <2>2, Zenon DEF HoldInv, HeldOrPooled
  <2>6. up[c] => ClientHolders(c) # {} \/ Slots(c) # {}
    BY <1>1, <2>3, Zenon DEF HoldInv, Unused, ClientHolders
  <2>. QED  BY <2>1, <2>4, <2>5, <2>6
<1>2. IInv => Accounted
  BY <1>1 DEF IInv
<1>. QED  BY <1>2, Invariance, PTL
=============================================================================
