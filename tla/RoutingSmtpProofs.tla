------------------------- MODULE RoutingSmtpProofs --------------------------
(***************************************************************************)
(* How a connection finds its backend, and the dialogue an SMTP client has *)
(* with it then.  The properties of Routing hold for any number of tasks,  *)
(* all addresses and endpoints, and every time to live and timeout, those  *)
(* of SmtpSession for sessions of any length.                              *)
(***************************************************************************)
EXTENDS Routing, SmtpSession, TLAPS

(* Routing.                                                                *)

Address == Address4 \cup Address6

(* How far behind the clock an address may be when it is checked.          *)
Slack == DnsTimeout + Lifetime(dns_ttl)

(* What validate has let through.                                          *)
Passed(checked) == checked.host \in Address /\ ~Reserved(checked.host) /\ WellFormed(checked)

EntryInv(e) ==
    /\ {e.at, e.hostAsOf, e.ipAsOf} \subseteq Int
    /\ e.at <= now /\ e.at <= e.hostAsOf + DnsTimeout /\ e.at <= e.ipAsOf + Slack
    /\ ~skip_validation =>
          Passed(e.checked) /\ e.text = ToText(e.checked.host, e.checked.rest)

DnsInv ==
    /\ ttl_seconds \in DnsTtls /\ dns_ttl \in DnsTtls \cup {None}
    /\ dns # None =>
          /\ dns.ip \in Address /\ {dns.at, dns.asOf} \subseteq Int
          /\ dns.at <= now /\ dns.at <= dns.asOf + DnsTimeout

(* A task between two awaits has not seen the clock move; one that waits   *)
(* for the DNS has waited no longer than the timeout.                      *)
TaskInv(t) ==
    /\ point[t] \in {"idle", "get", "resolve", "unchecked", "dns", "lookup", "check"}
    /\ point[t] = "unchecked" => skip_validation /\ endpoint[t].asOf = now
    /\ point[t] \in {"dns", "lookup", "check"} =>
          /\ endpoint[t].what.host \in Address4 \cup {Name} /\ WellFormed(endpoint[t].what)
          /\ endpoint[t].asOf \in Int
    /\ point[t] = "dns" => endpoint[t].asOf = now
    /\ point[t] = "lookup" =>
          asked[t] = endpoint[t].asOf /\ asked[t] <= now /\ now <= asked[t] + DnsTimeout
    /\ point[t] = "check" =>
          /\ ip[t].what \in Address /\ ip[t].asOf \in Int
          /\ now <= endpoint[t].asOf + DnsTimeout /\ now <= ip[t].asOf + Slack

RoutingInv ==
    /\ now \in Int /\ cache_ttl \in Nat /\ skip_validation \in BOOLEAN
    /\ DOMAIN point = Task /\ DOMAIN endpoint = Task /\ DOMAIN asked = Task /\ DOMAIN ip = Task
    /\ DnsInv
    /\ cache # None => EntryInv(cache)
    /\ \A t \in Task : TaskInv(t)
    /\ OnlyValidated /\ DialsChecked /\ BoundedStaleness

-----------------------------------------------------------------------------
LEMMA Constants ==
  /\ None \notin Nat /\ MokaTtl \in Nat /\ DnsTimeout \in Nat
  /\ DnsTtls \subseteq Nat /\ CacheTtls \subseteq Nat
  /\ Addresses \subseteq Address
  /\ \A e \in Endpoints : e.host \in Address4 \cup {Name}
  BY RoutingAssumption, Zenon DEF Address

(* The first two octets of the reserved IPv4 addresses.                    *)
LEMMA Octets ==
  ASSUME NEW x \in Int, NEW y \in Int, 0 <= x, x < 256, 0 <= y, y < 256
  PROVE  Reserved4(x * 256 + y) =>
            \/ x = 10 \/ (x = 172 /\ y \in 16..31) \/ (x = 192 /\ y = 168)
            \/ x = 127 \/ (x = 169 /\ y = 254) \/ x >= 224 \/ x = 0
<1>1. Prefix(x * 256 + y, 10, 0, 256) => x = 10
  BY SMT DEF Prefix
<1>2. Prefix(x * 256 + y, 172, 16, 16) => x = 172 /\ y \in 16..31
  BY SMT DEF Prefix
<1>3. Prefix(x * 256 + y, 192, 168, 1) => x = 192 /\ y = 168
  BY SMT DEF Prefix
<1>4. Prefix(x * 256 + y, 127, 0, 256) => x = 127
  BY SMT DEF Prefix
<1>5. Prefix(x * 256 + y, 169, 254, 1) => x = 169 /\ y = 254
  BY SMT DEF Prefix
<1>6. Prefix(x * 256 + y, 224, 0, 4096) => x >= 224
  BY SMT DEF Prefix
<1>7. Prefix(x * 256 + y, 240, 0, 4096) => x >= 224
  BY SMT DEF Prefix
<1>8. Prefix(x * 256 + y, 0, 0, 256) => x = 0
  BY SMT DEF Prefix
<1>. QED  BY <1>1, <1>2, <1>3, <1>4, <1>5, <1>6, <1>7, <1>8, SMT DEF Reserved4

(* An IPv4 address that is_blocked_ipv4 lets through is in no range its    *)
(* comments name.                                                          *)
LEMMA Unblocked4 == \A a \in Address4 : ~is_blocked_ip(a) => ~Reserved(a)
<1>. SUFFICES ASSUME NEW a \in Address4, ~is_blocked_ip(a)  PROVE ~Reserved(a)
  BY Zenon
<1>1. a.is = "v4" /\ a.octets[1] \in Octet /\ a.octets[2] \in Octet
  BY Zenon DEF Address4
<1>2. \A x \in Octet : x \in Int /\ 0 <= x /\ x < 256
  BY SMT DEF Octet
<1>. QED  BY <1>1, <1>2, Octets, SMT DEF is_blocked_ip, is_blocked_ipv4, Reserved

(* The same for IPv6.                                                      *)
LEMMA Unblocked6 == \A a \in Address6 : ~is_blocked_ip(a) => ~Reserved(a)
<1>. SUFFICES ASSUME NEW a \in Address6, ~is_blocked_ip(a), Reserved(a)  PROVE FALSE
  BY Zenon
<1>1. a.is = "v6" /\ a.segments \in [1..8 -> 0..MaxU16]
  BY Zenon DEF Address6
<1>2. a.segments[1] \in Int
  BY SMT, <1>1
<1>3. CASE Reserved6(a.segments[1])
  <2>1. ASSUME NEW w \in Int, Reserved6(w)
        PROVE  w - (w % 64) = 65152 \/ w - (w % 512) = 64512
    BY SMT, <2>1 DEF Reserved6
  <2>. QED  BY SMT, <1>1, <1>2, <1>3, <2>1 DEF is_blocked_ip, is_blocked_ipv6
<1>4. CASE a = V6(<<0, 0, 0, 0, 0, 0, 0, 1>>)
  <2>1. a.segments = <<0, 0, 0, 0, 0, 0, 0, 1>>
    BY SMT, <1>4 DEF V6
  <2>. QED  BY SMT, <1>1, <2>1 DEF is_blocked_ip, is_blocked_ipv6
<1>5. CASE \A i \in 1..6 : a.segments[i] = (IF i = 6 THEN MaxU16 ELSE 0)
  BY SMT, <1>1, <1>5 DEF is_blocked_ip, is_blocked_ipv6
<1>. QED  BY SMT, <1>1, <1>3, <1>4, <1>5 DEF Reserved

LEMMA LifetimeType == ASSUME RoutingInv  PROVE Lifetime(dns_ttl) \in Nat /\ Slack \in Nat
<1>1. dns_ttl \in Nat \cup {None} /\ DnsTimeout \in Nat
  BY Constants, Zenon DEF RoutingInv, DnsInv
<1>. QED  BY <1>1 DEF Lifetime, Slack

(* The time to live of the DNS cache is set once, which only adds slack.   *)
LEMMA SlackGrows ==
  ASSUME RoutingInv, dns_ttl' = dns_ttl \/ (dns_ttl = None /\ dns_ttl' \in DnsTtls)
  PROVE  /\ Slack \in Int /\ Slack' \in Int /\ Slack <= Slack'
         /\ dns_ttl' \in DnsTtls \cup {None}
<1>1. DnsTimeout \in Nat /\ dns_ttl \in Nat \cup {None} /\ dns_ttl' \in Nat \cup {None}
  BY Constants, Zenon DEF RoutingInv, DnsInv
<1>0. \A x \in Nat \cup {None} : Lifetime(x) \in Nat
  BY DEF Lifetime
<1>2. Lifetime(dns_ttl) \in Nat /\ Lifetime(dns_ttl') \in Nat
  BY <1>0, <1>1, Zenon
<1>4. Lifetime(None) = 0
  BY Zenon DEF Lifetime
<1>3. Lifetime(dns_ttl) <= Lifetime(dns_ttl')
  BY <1>2, <1>4
<1>. QED  BY <1>1, <1>2, <1>3 DEF Slack, RoutingInv, DnsInv

LEMMA RoutingInitInv == RoutingInit => RoutingInv
<1>. SUFFICES ASSUME RoutingInit  PROVE RoutingInv
  BY Zenon
<1>1. \A t \in Task : TaskInv(t)
  BY Zenon DEF RoutingInit, TaskInv
<1>2. OnlyValidated /\ DialsChecked /\ BoundedStaleness /\ DnsInv
  BY Zenon DEF RoutingInit, OnlyValidated, DialsChecked, BoundedStaleness, DnsInv
<1>. QED  BY <1>1, <1>2, Constants DEF RoutingInit, RoutingInv

(* A result that is None satisfies everything.                             *)
LEMMA NoResult == result' = None => OnlyValidated' /\ DialsChecked' /\ BoundedStaleness'
  BY Zenon DEF OnlyValidated, DialsChecked, BoundedStaleness

(* Tasks that do not move while the clock stands still.                    *)
LEMMA OtherTasks ==
  ASSUME RoutingInv, NEW t \in Task, Slack \in Int, Slack' \in Int, Slack <= Slack',
         UNCHANGED <<now, setVars, point[t], endpoint[t], asked[t], ip[t]>>
  PROVE  TaskInv(t)'
<1>1. TaskInv(t) /\ now \in Int /\ DnsTimeout \in Nat
  BY Constants, Zenon DEF RoutingInv
<1>. QED  BY <1>1 DEF TaskInv, setVars

LEMMA EntryStays ==
  ASSUME RoutingInv, NEW e, EntryInv(e), Slack \in Int, Slack' \in Int, Slack <= Slack', now <= now',
         now' \in Int, skip_validation' = skip_validation
  PROVE  /\ {e.at, e.hostAsOf, e.ipAsOf} \subseteq Int
         /\ e.at <= now' /\ e.at <= e.hostAsOf + DnsTimeout /\ e.at <= e.ipAsOf + Slack'
         /\ ~skip_validation' =>
               Passed(e.checked) /\ e.text = ToText(e.checked.host, e.checked.rest)
  BY Constants DEF EntryInv, RoutingInv

-----------------------------------------------------------------------------
(* Steps that only move a task on, leaving both caches alone or giving the *)
(* DNS cache its time to live.                                             *)
LEMMA MoveInv ==
  ASSUME RoutingInv, NEW t \in Task, NEW label, Goto(t, label), cache' = cache,
         \A u \in Task \ {t} : UNCHANGED <<endpoint[u], asked[u], ip[u]>>,
         DOMAIN endpoint' = Task, DOMAIN asked' = Task, DOMAIN ip' = Task,
         dns_ttl' = dns_ttl \/ (dns_ttl = None /\ dns_ttl' \in DnsTtls),
         TaskInv(t)', DnsInv'
  PROVE  RoutingInv'
<1>1. UNCHANGED <<now, setVars>> /\ point' = [point EXCEPT ![t] = label] /\ result' = None
  BY Zenon DEF Goto
<1>2. Slack \in Int /\ Slack' \in Int /\ Slack <= Slack'
  BY SlackGrows, Zenon
<1>3. \A u \in Task : TaskInv(u)'
  BY <1>1, <1>2, OtherTasks, Zenon DEF RoutingInv
<1>4. cache' # None => EntryInv(cache)'
  BY <1>1, <1>2, EntryStays DEF RoutingInv, EntryInv, setVars
<1>. QED  BY <1>1, <1>3, <1>4, NoResult, Zenon DEF RoutingInv, setVars

(* Steps in which a task is done.                                          *)
LEMMA EndsInv ==
  ASSUME RoutingInv, NEW t \in Task, Ends(t), cache' # None => EntryInv(cache)',
         OnlyValidated', DialsChecked', BoundedStaleness'
  PROVE  RoutingInv'
<1>1. UNCHANGED <<now, setVars, dnsVars>>
  BY Zenon DEF Ends
<1>2. Slack \in Int /\ Slack' \in Int /\ Slack <= Slack' /\ DnsInv'
  BY <1>1, SlackGrows, Zenon DEF dnsVars, DnsInv, RoutingInv
<1>3. TaskInv(t)'
  BY Zenon DEF Ends, TaskInv, RoutingInv
<1>4. \A u \in Task : TaskInv(u)'
  BY <1>1, <1>2, <1>3, OtherTasks, Zenon DEF RoutingInv, Ends
<1>. QED  BY <1>1, <1>2, <1>4, Zenon DEF RoutingInv, Ends, setVars

LEMMA ErrorInv == ASSUME RoutingInv, NEW t \in Task, Error(t)  PROVE RoutingInv'
<1>1. cache' = cache /\ result' = None /\ Ends(t)
  BY Zenon DEF Error
<1>2. cache' # None => EntryInv(cache)'
  BY <1>1, Zenon DEF Ends, RoutingInv, EntryInv, setVars, dnsVars, Slack
<1>. QED  BY <1>1, <1>2, EndsInv, NoResult, Zenon

(* A sound entry, no older than a cache may keep it, makes a sound answer. *)
LEMMA AnswerSound ==
  ASSUME RoutingInv, NEW t \in Task, NEW e, EntryInv(e), now - e.at <= CacheLifetime,
         CacheLifetime \in Nat, Answer(t, e)
  PROVE  OnlyValidated' /\ DialsChecked' /\ BoundedStaleness'
<1>1. /\ result' = [dials |-> parse_endpoint(e.text, DefaultPort), checked |-> e.checked,
                    hostAge |-> now - e.hostAsOf, ipAge |-> now - e.ipAsOf]
      /\ UNCHANGED <<now, setVars, dnsVars>>
  BY Zenon DEF Answer, Ends
<1>2. OnlyValidated'
  BY <1>1 DEF OnlyValidated, EntryInv, Passed, Address, Address4, Address6, Name, setVars
<1>3. DialsChecked'
  <2>. SUFFICES ASSUME ~skip_validation, e.checked.host.is = "v4"
                PROVE  parse_endpoint(e.text, DefaultPort)
                         = [host |-> e.checked.host,
                            port |-> IF e.checked.rest = NoPort THEN DefaultPort ELSE e.checked.rest]
    BY <1>1, Zenon DEF DialsChecked, setVars
  <2>1. e.text = [host |-> e.checked.host, rest |-> e.checked.rest]
    BY Zenon DEF EntryInv, ToText
  <2>2. e.checked.rest = NoPort \/ e.checked.rest \in 1..MaxU16
    BY Zenon DEF EntryInv, Passed, WellFormed
  <2>3. NoPort \notin Port /\ 1..MaxU16 \subseteq Port /\ NoPort \notin 1..MaxU16
    BY DEF NoPort, Port
  <2>. QED  BY <2>1, <2>2, <2>3 DEF parse_endpoint
<1>4. BoundedStaleness'
  <2>1. now - e.hostAsOf <= CacheLifetime + DnsTimeout
    BY Constants DEF RoutingInv, EntryInv
  <2>2. now - e.ipAsOf <= CacheLifetime + Lifetime(dns_ttl) + DnsTimeout
    BY Constants, LifetimeType DEF RoutingInv, EntryInv, Slack
  <2>3. CacheLifetime' = CacheLifetime /\ dns_ttl' = dns_ttl
    BY <1>1, Zenon DEF CacheLifetime, setVars, dnsVars
  <2>. QED  BY <1>1, <2>1, <2>2, <2>3, Zenon DEF BoundedStaleness
<1>. QED  BY <1>2, <1>3, <1>4, Zenon

LEMMA CacheLifetimeType == ASSUME RoutingInv  PROVE CacheLifetime \in Nat
<1>1. cache_ttl \in Nat /\ MokaTtl \in Nat
  BY Constants, Zenon DEF RoutingInv
<1>. QED  BY <1>1 DEF CacheLifetime, Lifetime

LEMMA CacheHitInv == ASSUME RoutingInv, NEW t \in Task, CacheHit(t)  PROVE RoutingInv'
<1>1. cache # None /\ EntryInv(cache) /\ Answer(t, cache) /\ cache' = cache
  BY Zenon DEF CacheHit, CacheFresh, Fresh, RoutingInv
<1>2. now - cache.at <= CacheLifetime
  <2>1. now - cache.at < cache_ttl /\ now - cache.at < MokaTtl
    BY Zenon DEF CacheHit, CacheFresh, Fresh
  <2>2. cache_ttl \in Nat /\ MokaTtl \in Nat /\ None \notin Nat /\ now - cache.at \in Nat
    BY <1>1, Constants DEF RoutingInv, EntryInv
  <2>. QED  BY <2>1, <2>2 DEF CacheLifetime, Lifetime
<1>3. OnlyValidated' /\ DialsChecked' /\ BoundedStaleness'
  BY <1>1, <1>2, AnswerSound, CacheLifetimeType, Zenon
<1>4. EntryInv(cache)' /\ Ends(t)
  BY <1>1, Zenon DEF Answer, Ends, EntryInv, setVars, dnsVars, Slack
<1>. QED  BY <1>3, <1>4, EndsInv, Zenon

(* What is stored is stored at this moment.                                *)
LEMMA StoreInv ==
  ASSUME RoutingInv, NEW t \in Task, NEW text, NEW address, NEW when, Store(t, text, address, when),
         EntryInv([text |-> text, checked |-> [host |-> address, rest |-> endpoint[t].what.rest],
                   hostAsOf |-> endpoint[t].asOf, ipAsOf |-> when, at |-> now])
  PROVE  RoutingInv'
<1>. DEFINE entry == [text |-> text,
                      checked |-> [host |-> address, rest |-> endpoint[t].what.rest],
                      hostAsOf |-> endpoint[t].asOf, ipAsOf |-> when, at |-> now]
<1>1. Answer(t, entry) /\ cache' \in {cache, entry}
  BY Zenon DEF Store
<1>2. now - entry.at <= CacheLifetime
  BY CacheLifetimeType DEF RoutingInv
<1>3. OnlyValidated' /\ DialsChecked' /\ BoundedStaleness'
  <2>. HIDE DEF entry
  <2>. QED  BY <1>1, <1>2, AnswerSound, CacheLifetimeType, Zenon DEF entry
<1>4. Ends(t) /\ UNCHANGED <<now, skip_validation, Slack>>
  BY <1>1, Zenon DEF Answer, Ends, setVars, dnsVars, Slack
<1>5. cache' # None => EntryInv(cache)'
  <2>1. cache' # None => EntryInv(cache')
    BY <1>1, Zenon DEF RoutingInv
  <2>. QED  BY <1>4, <2>1, Zenon DEF EntryInv
<1>. QED  BY <1>3, <1>4, <1>5, EndsInv, Zenon

LEMMA InsertInv == ASSUME RoutingInv, NEW t \in Task, Insert(t)  PROVE RoutingInv'
<1>1. /\ ip[t].what \in Address /\ ip[t].asOf \in Int /\ endpoint[t].asOf \in Int
      /\ WellFormed(endpoint[t].what) /\ ~is_blocked_ip(ip[t].what)
      /\ now <= endpoint[t].asOf + DnsTimeout /\ now <= ip[t].asOf + Slack /\ now \in Int
  BY Zenon DEF Insert, RoutingInv, TaskInv
<1>2. ~Reserved(ip[t].what)
  BY <1>1, Unblocked4, Unblocked6, Zenon DEF Address
<1>3. EntryInv([text |-> ToText(ip[t].what, endpoint[t].what.rest),
                checked |-> [host |-> ip[t].what, rest |-> endpoint[t].what.rest],
                hostAsOf |-> endpoint[t].asOf, ipAsOf |-> ip[t].asOf, at |-> now])
  <2>. DEFINE checked == [host |-> ip[t].what, rest |-> endpoint[t].what.rest]
              entry == [text |-> ToText(ip[t].what, endpoint[t].what.rest), checked |-> checked,
                        hostAsOf |-> endpoint[t].asOf, ipAsOf |-> ip[t].asOf, at |-> now]
  <2>1. /\ entry.text = ToText(checked.host, checked.rest) /\ entry.checked = checked
        /\ entry.hostAsOf = endpoint[t].asOf /\ entry.ipAsOf = ip[t].asOf /\ entry.at = now
        /\ checked.host = ip[t].what /\ checked.rest = endpoint[t].what.rest
    BY Zenon
  <2>. HIDE DEF checked, entry
  <2>2. WellFormed(checked)
    BY <1>1, <2>1, Zenon DEF WellFormed
  <2>3. Passed(checked)
    BY <1>1, <1>2, <2>1, <2>2, Zenon DEF Passed
  <2>4. now <= now
    BY <1>1
  <2>5. EntryInv(entry)
    BY <1>1, <2>1, <2>3, <2>4, Zenon DEF EntryInv
  <2>. QED  BY <2>5, Zenon DEF entry, checked
<1>. QED  BY <1>3, StoreInv, Zenon DEF Insert

LEMMA InsertUncheckedInv == ASSUME RoutingInv, NEW t \in Task, InsertUnchecked(t)  PROVE RoutingInv'
<1>1. /\ skip_validation /\ endpoint[t].asOf = now /\ now \in Int
      /\ DnsTimeout \in Nat /\ Slack \in Nat
  BY Constants, LifetimeType, Zenon DEF InsertUnchecked, RoutingInv, TaskInv
<1>2. EntryInv([text |-> endpoint[t].what,
                checked |-> [host |-> endpoint[t].what.host, rest |-> endpoint[t].what.rest],
                hostAsOf |-> endpoint[t].asOf, ipAsOf |-> endpoint[t].asOf, at |-> now])
  BY <1>1 DEF EntryInv
<1>. QED  BY <1>2, StoreInv, Zenon DEF InsertUnchecked

LEMMA ResolveInv ==
  ASSUME RoutingInv, NEW t \in Task, Start(t) \/ CacheMiss(t) \/ Resolve(t)
  PROVE  RoutingInv'
<1>1. DnsInv'
  BY DEF Start, CacheMiss, Resolve, Goto, dnsVars, DnsInv, RoutingInv
<1>2. CASE Start(t)
  BY <1>1, <1>2, MoveInv, Zenon DEF Start, dnsVars, taskVars, TaskInv, Goto, RoutingInv
<1>3. CASE CacheMiss(t)
  BY <1>1, <1>3, MoveInv, Zenon DEF CacheMiss, dnsVars, taskVars, TaskInv, Goto, RoutingInv
<1>4. CASE Resolve(t)
  <2>1. PICK e \in Endpoints : /\ endpoint' = [endpoint EXCEPT ![t] = Said(e, now)]
                               /\ ~skip_validation => WellFormed(e)
    BY <1>4, Zenon DEF Resolve
  <2>2. /\ endpoint'[t].what = e /\ endpoint'[t].asOf = now /\ DOMAIN endpoint' = Task
        /\ \A u \in Task \ {t} : endpoint'[u] = endpoint[u]
    BY <2>1, Zenon DEF Said, RoutingInv
  <2>3. point'[t] = IF skip_validation THEN "unchecked" ELSE "dns"
    BY <1>4, Zenon DEF Resolve, Goto, RoutingInv
  <2>4. now' = now /\ skip_validation' = skip_validation
    BY <1>4, Zenon DEF Resolve, Goto, setVars
  <2>5. TaskInv(t)'
    BY <2>1, <2>2, <2>3, <2>4, Constants DEF TaskInv, RoutingInv
  <2>. QED  BY <1>1, <1>4, <2>2, <2>5, MoveInv, Zenon DEF Resolve, dnsVars, RoutingInv
<1>. QED  BY <1>2, <1>3, <1>4, Zenon

(* dns::resolve up to a hit, or to the lookup.                             *)
LEMMA DnsStepInv ==
  ASSUME RoutingInv, NEW t \in Task, DnsLiteral(t) \/ DnsMiss(t) \/ DnsHit(t)
  PROVE  RoutingInv'
<1>1. /\ endpoint[t].what.host \in Address4 \cup {Name} /\ WellFormed(endpoint[t].what)
      /\ endpoint[t].asOf = now /\ now \in Int /\ DnsTimeout \in Nat /\ Slack \in Nat
      /\ endpoint' = endpoint /\ cache' = cache /\ now' = now /\ skip_validation' = skip_validation
  BY Constants, LifetimeType, Zenon
  DEF RoutingInv, TaskInv, DnsLiteral, DnsMiss, DnsHit, Goto, setVars
<1>2. CASE DnsLiteral(t)
  <2>1. ip'[t].what = endpoint[t].what.host /\ ip'[t].asOf = now /\ point'[t] = "check"
    BY <1>1, <1>2, Zenon DEF DnsLiteral, Goto, Said, RoutingInv
  <2>2. Slack' = Slack
    BY <1>2, Zenon DEF DnsLiteral, dnsVars, Slack
  <2>3. TaskInv(t)'
    BY <1>1, <1>2, <2>1, <2>2 DEF DnsLiteral, TaskInv, Address
  <2>. QED  BY <1>1, <1>2, <2>3, MoveInv, Zenon DEF DnsLiteral, dnsVars, RoutingInv, DnsInv
<1>3. CASE DnsMiss(t)
  <2>1. asked'[t] = now /\ point'[t] = "lookup"
    BY <1>3, Zenon DEF DnsMiss, Goto, RoutingInv
  <2>2. dns_ttl' = dns_ttl \/ (dns_ttl = None /\ dns_ttl' \in DnsTtls)
    BY <1>3, Zenon DEF DnsMiss, BuiltTtl, RoutingInv, DnsInv
  <2>3. TaskInv(t)'
    <3>1. now <= now /\ now <= now + DnsTimeout
      BY <1>1
    <3>. QED  BY <1>1, <2>1, <3>1, Zenon DEF TaskInv
  <2>4. DnsInv'
    BY <1>1, <1>3, <2>2, Zenon DEF DnsMiss, DnsInv, RoutingInv
  <2>. QED  BY <1>1, <1>3, <2>2, <2>3, <2>4, MoveInv, Zenon DEF DnsMiss, RoutingInv
<1>4. CASE DnsHit(t)
  <2>1. ip'[t].what = dns.ip /\ ip'[t].asOf = dns.asOf /\ point'[t] = "check"
    BY <1>4, Zenon DEF DnsHit, Goto, Said, RoutingInv
  <2>2. /\ dns.ip \in Address /\ dns.at \in Int /\ dns.asOf \in Int
        /\ dns.at <= now /\ dns.at <= dns.asOf + DnsTimeout /\ now - dns.at < dns_ttl
        /\ dns_ttl \in Nat
    BY <1>4, Constants, Zenon DEF DnsHit, Fresh, RoutingInv, DnsInv
  <2>3. Lifetime(dns_ttl) = dns_ttl - 1
    <3>1. dns_ttl # 0
      BY <1>1, <2>2
    <3>2. dns_ttl # None
      BY <2>2, Constants, Zenon
    <3>. QED  BY <3>1, <3>2, Zenon DEF Lifetime
  <2>4. now <= dns.asOf + Slack /\ Slack' = Slack
    BY <1>1, <1>4, <2>2, <2>3 DEF Slack, DnsHit, dnsVars
  <2>5. TaskInv(t)'
    <3>1. now <= endpoint[t].asOf + DnsTimeout
      BY <1>1
    <3>. QED  BY <1>1, <2>1, <2>2, <2>4, <3>1, Zenon DEF TaskInv
  <2>. QED  BY <1>1, <1>4, <2>5, MoveInv, Zenon DEF DnsHit, dnsVars, RoutingInv, DnsInv
<1>. QED  BY <1>2, <1>3, <1>4, Zenon

LEMMA LookupAnswersInv == ASSUME RoutingInv, NEW t \in Task, LookupAnswers(t)  PROVE RoutingInv'
<1>1. PICK found \in SUBSET Addresses, when \in asked[t]..now : \E a \in Preferred(found) :
        /\ ip' = [ip EXCEPT ![t] = Said(a, when)]
        /\ dns' = [ip |-> a, asOf |-> when, at |-> now]
  BY Zenon DEF LookupAnswers
<1>2. PICK a \in Preferred(found) : /\ ip' = [ip EXCEPT ![t] = Said(a, when)]
                                    /\ dns' = [ip |-> a, asOf |-> when, at |-> now]
  BY <1>1, Zenon
<1>3. a \in Address
  BY <1>2, Constants, Zenon DEF Preferred
<1>4. /\ asked[t] = endpoint[t].asOf /\ asked[t] \in Int /\ asked[t] <= now
      /\ now <= asked[t] + DnsTimeout /\ now \in Int /\ DnsTimeout \in Nat /\ Slack \in Nat
      /\ endpoint[t].what.host \in Address4 \cup {Name} /\ WellFormed(endpoint[t].what)
  BY Constants, LifetimeType, Zenon DEF LookupAnswers, RoutingInv, TaskInv
<1>5. when \in Int /\ asked[t] <= when /\ when <= now
  BY <1>4
<1>6. ip'[t].what = a /\ ip'[t].asOf = when /\ point'[t] = "check"
  BY <1>2, Zenon DEF LookupAnswers, Goto, Said, RoutingInv
<1>7. Slack' = Slack /\ now' = now /\ endpoint' = endpoint /\ skip_validation' = skip_validation
  BY Zenon DEF LookupAnswers, Goto, Slack, setVars
<1>8. now <= when + Slack
  BY <1>4, <1>5, LifetimeType DEF Slack
<1>9. TaskInv(t)'
  BY <1>3, <1>4, <1>5, <1>6, <1>7, <1>8, Zenon DEF TaskInv
<1>10. DnsInv'
  BY <1>2, <1>3, <1>4, <1>5, <1>7 DEF DnsInv, RoutingInv, LookupAnswers
<1>. QED  BY <1>2, <1>7, <1>9, <1>10, MoveInv, Zenon DEF LookupAnswers, RoutingInv

LEMMA TickInv == ASSUME RoutingInv, Tick  PROVE RoutingInv'
<1>1. /\ now \in Int /\ now' = now + 1 /\ Slack' = Slack /\ Slack \in Nat /\ DnsTimeout \in Nat
      /\ UNCHANGED <<setVars, cache, dnsVars, point, taskVars>> /\ result' = None
  BY Constants, LifetimeType, Zenon DEF Tick, RoutingInv, Slack, dnsVars
<1>2. \A t \in Task : TaskInv(t)'
  <2>. TAKE t \in Task
  <2>1. TaskInv(t) /\ Waiting(t)
    BY Zenon DEF Tick, RoutingInv
  <2>. QED  BY <1>1, <2>1 DEF TaskInv, Waiting, setVars, taskVars
<1>3. DnsInv'
  BY <1>1 DEF DnsInv, RoutingInv, dnsVars
<1>4. cache' # None => EntryInv(cache)'
  BY <1>1, EntryStays DEF RoutingInv, EntryInv, setVars
<1>. QED  BY <1>1, <1>2, <1>3, <1>4, NoResult DEF RoutingInv, setVars, taskVars

(* set_ttl, clear and the loss of an entry.                                *)
LEMMA CachesInv == ASSUME RoutingInv, SetTtl \/ Clear \/ Evict  PROVE RoutingInv'
<1>1. /\ UNCHANGED <<setVars, now, point, taskVars>> /\ result' = None
      /\ cache' # None => cache' = cache
  BY Zenon DEF SetTtl, Clear, Evict
<1>2. dns_ttl' = dns_ttl \/ (dns_ttl = None /\ dns_ttl' \in DnsTtls)
  BY Zenon DEF SetTtl, Clear, Evict, BuiltTtl, RoutingInv, DnsInv, dnsVars
<1>3. Slack \in Int /\ Slack' \in Int /\ Slack <= Slack'
  BY <1>2, SlackGrows, Zenon
<1>4. \A t \in Task : TaskInv(t)'
  BY <1>1, <1>3, OtherTasks, Zenon DEF taskVars
<1>5. cache' # None => EntryInv(cache)'
  BY <1>1, <1>3, EntryStays DEF RoutingInv, EntryInv, setVars
<1>6. DnsInv'
  BY <1>1, <1>2, Zenon DEF SetTtl, Clear, Evict, DnsInv, RoutingInv, dnsVars
<1>. QED  BY <1>1, <1>4, <1>5, <1>6, NoResult, Zenon DEF RoutingInv, setVars, taskVars

LEMMA NextInv == RoutingInv /\ [RoutingNext]_routingVars => RoutingInv'
<1>. SUFFICES ASSUME RoutingInv, [RoutingNext]_routingVars  PROVE RoutingInv'
  BY Zenon
<1>1. ASSUME NEW t \in Task, Route(t)  PROVE RoutingInv'
  BY <1>1, ResolveInv, CacheHitInv, ErrorInv, InsertUncheckedInv, DnsStepInv,
     LookupAnswersInv, InsertInv, Zenon DEF Route, ResolveFails, LookupFails, Forbidden
<1>2. CASE UNCHANGED routingVars
  <2>1. UNCHANGED <<setVars, now, cache, dnsVars, point, taskVars, result>>
    BY <1>2, Zenon DEF routingVars
  <2>2. \A t \in Task : TaskInv(t)'
    BY <2>1, Zenon DEF RoutingInv, TaskInv, setVars, dnsVars, taskVars, Slack
  <2>. QED  BY <2>1, <2>2, Zenon DEF RoutingInv, DnsInv, EntryInv, OnlyValidated, DialsChecked,
               BoundedStaleness, CacheLifetime, Slack, setVars, dnsVars, taskVars
<1>. QED  BY <1>1, <1>2, TickInv, CachesInv, Zenon DEF RoutingNext

THEOREM RoutingInvariance == RoutingSpec => []RoutingInv
BY RoutingInitInv, NextInv, PTL DEF RoutingSpec

-----------------------------------------------------------------------------
(* Neither cache, however its entries are inserted, dropped and outdated,  *)
(* lets an address of the reserved ranges through (adapter/mod.rs 184-188, *)
(* 209-279).                                                               *)
THEOREM ResultsAreValidated == RoutingSpec => []OnlyValidated
<1>1. RoutingInv => OnlyValidated
  BY Zenon DEF RoutingInv
<1>. QED  BY <1>1, RoutingInvariance, PTL

(* An IPv4 backend is dialed at the address that was checked and at the    *)
(* resolver's port (adapter/mod.rs 153-154, 190-207, adapter/tcp.rs        *)
(* 147-152).                                                               *)
THEOREM CheckedIsDialed == RoutingSpec => []DialsChecked
<1>1. RoutingInv => DialsChecked
  BY Zenon DEF RoutingInv
<1>. QED  BY <1>1, RoutingInvariance, PTL

(* A routing answer is never older than the time to live of the routing    *)
(* cache, a DNS timeout and, for the address, the time to live of the DNS  *)
(* cache (adapter/mod.rs 52, 90-102, 126-136; dns.rs).                     *)
THEOREM StalenessIsBounded == RoutingSpec => []BoundedStaleness
<1>1. RoutingInv => BoundedStaleness
  BY Zenon DEF RoutingInv
<1>. QED  BY <1>1, RoutingInvariance, PTL

-----------------------------------------------------------------------------
(* The SMTP session.                                                       *)

Pieces  == [of : Nat, code : {"220", "554", "354", "other"}, part : {"whole", "head", "tail"}]
Entries == [line : Nat, kind : Lines, as : {"Command", "Data"}]

Typed ==
    /\ pc \in PC /\ state \in {"Command", "Data"} /\ n \in Nat /\ line \in Lines
    /\ mode \in {"greeting", "Command", "Data"}
    /\ inbox \in Seq(Entries) /\ out \in Seq(Pieces)

(* What has arrived is one reply, to line k.                               *)
OneReply(k) ==
    /\ Len(out) \in {1, 2} /\ \A i \in DOMAIN out : out[i].of = k
    /\ out[1].part = (IF Len(out) = 1 THEN "whole" ELSE "head")
    /\ Len(out) = 2 => out[2].part = "tail"

(* The proxy's side: nothing has arrived unless it is waited for.          *)
ProxyInv ==
    /\ pc \in {"line", "write", "dial"} => out = <<>>
    /\ pc = "greet" => out = <<>> \/ OneReply(0)
    /\ pc \in {"reply", "final"} => out = <<>> \/ OneReply(n)
    /\ pc \in {"dial", "greet", "reply"} => state = "Command"
    /\ pc = "final" => state = "Data"
    /\ pc \in {"reply", "final"} => backend

(* The backend's side: at most one command is on its way to it, and the    *)
(* line that ends a message is the last one.                               *)
InboxInv ==
    /\ \A i \in DOMAIN inbox : inbox[i].as = mode
    /\ mode # "Data" => Len(inbox) <= 1
    /\ \A i \in DOMAIN inbox :
          mode = "Data" /\ inbox[i].kind = "." => i = Len(inbox) /\ pc \in {"final", "closed"}
    /\ mode = "greeting" => inbox = <<>> /\ pc \in {"greet", "closed"}

(* How the two sides stand to each other at each point of handle_client.   *)
AgreeInv ==
    /\ pc \in {"line", "write", "dial"} =>
          backend /\ state = mode /\ (mode = "Command" => inbox = <<>>)
    /\ pc = "greet" => inbox = <<>> /\ mode = (IF out = <<>> THEN "greeting" ELSE "Command")
    /\ pc = "reply" =>
          IF out = <<>>
          THEN mode = "Command" /\ Len(inbox) = 1 /\ inbox[1].line = n /\ inbox[1].kind = line
          ELSE /\ inbox = <<>>
               /\ mode = (IF out[1].code = "354" THEN "Data" ELSE "Command")
               /\ out[1].code = "354" => line = "DATA"
    /\ pc = "final" =>
          IF out = <<>>
          THEN mode = "Data" /\ \A i \in DOMAIN inbox : inbox[i].kind = "." => inbox[i].line = n
          ELSE inbox = <<>> /\ mode = "Command"

IInv ==
    /\ Typed
    /\ ~torn => ProxyInv /\ OwnReply /\ (alive => InboxInv /\ AgreeInv)

-----------------------------------------------------------------------------
LEMMA InitInv == Init => IInv
  BY DEF Init, IInv, Typed, PC, Lines, Hello, ProxyInv, OwnReply

(* A read that ends with a whole reply has taken all that had arrived.     *)
LEMMA ReadsWhole ==
  ASSUME Typed, NEW k, out = <<>> \/ OneReply(k), NEW chunk \in Arrived, Consume(chunk), ~torn'
  PROVE  /\ chunk = out /\ OneReply(k)
         /\ out' = <<>> /\ ~torn
<1>1. PICK m \in 1..Len(out) : chunk = SubSeq(out, 1, m)
  BY Zenon DEF Arrived
<1>2. out \in Seq(Pieces) /\ OneReply(k) /\ m \in Nat /\ m <= Len(out)
  BY <1>1 DEF Typed
<1>3. Len(chunk) = m /\ \A i \in 1..m : chunk[i] = out[i]
  BY <1>1, <1>2
<1>4. chunk[Len(chunk)].part # "head" /\ ~torn
  BY Zenon DEF Consume
<1>5. m = Len(out)
  BY <1>2, <1>3, <1>4 DEF OneReply
<1>6. chunk = out
  BY <1>1, <1>2, <1>5
<1>7. out' = <<>>
  BY <1>2, <1>3, <1>5 DEF Consume
<1>. QED  BY <1>2, <1>4, <1>6, <1>7, Zenon

(* Whatever a read takes, the rest is a sequence of pieces.                *)
LEMMA ReadsTyped ==
  ASSUME Typed, NEW chunk \in Arrived, Consume(chunk)  PROVE out' \in Seq(Pieces)
<1>1. PICK m \in 1..Len(out) : chunk = SubSeq(out, 1, m)
  BY Zenon DEF Arrived
<1>2. Len(chunk) \in Nat
  BY <1>1 DEF Typed
<1>. QED  BY <1>2 DEF Typed, Consume

(* What a reply adds to what has arrived.                                  *)
LEMMA Replies ==
  ASSUME Typed, NEW k \in Nat, NEW code \in {"220", "554", "354", "other"}, Reply(k, code)
  PROVE  /\ out' \in Seq(Pieces)
         /\ out = <<>> => OneReply(k)' /\ out'[1].code = code /\ out' # <<>>
<1>1. \A part \in {"whole", "head", "tail"} :
         Piece(k, code, part) \in Pieces /\ Piece(k, code, part).of = k
         /\ Piece(k, code, part).code = code /\ Piece(k, code, part).part = part
  BY Zenon DEF Piece, Pieces
<1>2. out \in Seq(Pieces)
  BY Zenon DEF Typed
<1>3. CASE out' = Append(out, Piece(k, code, "whole"))
  BY <1>1, <1>2, <1>3 DEF OneReply
<1>4. CASE out' = out \o <<Piece(k, code, "head"), Piece(k, code, "tail")>>
  BY <1>1, <1>2, <1>4 DEF OneReply
<1>. QED  BY <1>3, <1>4, Zenon DEF Reply

-----------------------------------------------------------------------------
(* The steps: each keeps IInv.                                             *)

(* An error, wherever it happens, only ends the session.                   *)
LEMMA CloseInv == ASSUME IInv, Fail421  PROVE IInv'
  BY Zenon
  DEF Fail421, proxyVars, backendVars, IInv, Typed, PC, ProxyInv, OwnReply, InboxInv, AgreeInv

LEMMA StillInv == ASSUME IInv, UNCHANGED <<pc, proxyVars, backendVars>>  PROVE IInv'
  BY DEF proxyVars, backendVars, IInv, Typed, ProxyInv, OneReply, OwnReply, InboxInv, AgreeInv

LEMMA GreetsInv == ASSUME IInv, BackendGreets  PROVE IInv'
<1>1. PICK code \in {"220", "554"} : Reply(0, code)
  BY Zenon DEF BackendGreets
<1>2. /\ out' \in Seq(Pieces)
      /\ out = <<>> => OneReply(0)' /\ out' # <<>>
  BY <1>1, Replies, Zenon DEF IInv
<1>. QED
  BY <1>2 DEF BackendGreets, proxyVars, IInv, Typed, ProxyInv, OwnReply, InboxInv, AgreeInv

LEMMA BackendClosesInv == ASSUME IInv, BackendCloses  PROVE IInv'
  BY DEF BackendCloses, proxyVars, IInv, Typed, ProxyInv, OneReply, OwnReply

LEMMA HandlesInv == ASSUME IInv, BackendHandles  PROVE IInv'
<1>1. /\ alive /\ inbox # <<>> /\ inbox' = Tail(inbox)
      /\ UNCHANGED <<pc, state, backend, n, line, relayed, torn, alive>>
  BY Zenon DEF BackendHandles, proxyVars
<1>2. /\ inbox \in Seq(Entries) /\ Head(inbox) = inbox[1] /\ inbox[1] \in Entries
      /\ 1 \in DOMAIN inbox /\ Len(inbox) \in Nat
  BY <1>1 DEF IInv, Typed
<1>3. /\ inbox' \in Seq(Entries) /\ Len(inbox') = Len(inbox) - 1
      /\ \A i \in DOMAIN inbox' : i + 1 \in DOMAIN inbox /\ inbox'[i] = inbox[i + 1]
      /\ Len(inbox) = 1 => inbox' = <<>>
  BY <1>1, <1>2
<1>4. PICK k \in Nat, l \in Lines : k = Head(inbox).line /\ l = Head(inbox).kind
  BY <1>2, Zenon DEF Entries
<1>5. CASE /\ mode = "Command"
           /\ \E code \in {"354", "other"} :
                 /\ Reply(k, code) /\ (code = "354" => l = "DATA")
                 /\ mode' = IF code = "354" THEN "Data" ELSE mode
  <2>1. PICK code \in {"354", "other"} :
           /\ Reply(k, code) /\ (code = "354" => l = "DATA")
           /\ mode' = IF code = "354" THEN "Data" ELSE mode
    BY <1>5, Zenon
  <2>2. /\ out' \in Seq(Pieces)
        /\ out = <<>> => OneReply(k)' /\ out'[1].code = code /\ out' # <<>>
    BY <1>4, <2>1, Replies, Zenon DEF IInv
  <2>3. Typed'
    BY <1>1, <1>3, <1>5, <2>1, <2>2, Zenon DEF IInv, Typed
  <2>4. ASSUME ~torn'  PROVE ProxyInv' /\ OwnReply' /\ InboxInv' /\ AgreeInv'
    <3>1. ~torn /\ InboxInv /\ AgreeInv /\ ProxyInv /\ OwnReply
      BY <1>1, <2>4, Zenon DEF IInv
    <3>2. Len(inbox) = 1 /\ inbox' = <<>>
      BY <1>2, <1>3, <1>5, <3>1 DEF InboxInv
    <3>3. pc \in {"reply", "closed"} /\ (pc = "reply" => out = <<>> /\ k = n /\ l = line)
      BY <1>1, <1>2, <1>4, <1>5, <3>1, Zenon DEF AgreeInv, IInv, Typed, PC
    <3>4. pc = "reply" => OneReply(n)' /\ out'[1].code = code /\ out' # <<>>
      BY <1>1, <2>2, <3>3, Zenon DEF OneReply
    <3>5. ProxyInv' /\ OwnReply'
      BY <1>1, <3>1, <3>3, <3>4, Zenon DEF ProxyInv, OwnReply
    <3>6. InboxInv'
      <4>1. mode' # "greeting" /\ DOMAIN inbox' = {} /\ Len(inbox') = 0
        BY <1>5, <2>1, <3>2
      <4>. QED  BY <4>1 DEF InboxInv
    <3>7. AgreeInv'
      BY <1>1, <1>4, <1>5, <2>1, <3>2, <3>3, <3>4, Zenon DEF AgreeInv
    <3>. QED  BY <3>5, <3>6, <3>7, Zenon
  <2>. QED  BY <1>1, <2>3, <2>4, Zenon DEF IInv
<1>6. CASE mode = "Data" /\ l = "." /\ Reply(k, "other") /\ mode' = "Command"
  <2>1. /\ out' \in Seq(Pieces)
        /\ out = <<>> => OneReply(k)' /\ out' # <<>>
    BY <1>4, <1>6, Replies, Zenon DEF IInv
  <2>2. Typed'
    BY <1>1, <1>3, <1>6, <2>1, Zenon DEF IInv, Typed
  <2>3. ASSUME ~torn'  PROVE ProxyInv' /\ OwnReply' /\ InboxInv' /\ AgreeInv'
    <3>1. ~torn /\ InboxInv /\ AgreeInv /\ ProxyInv /\ OwnReply
      BY <1>1, <2>3, Zenon DEF IInv
    <3>2. inbox' = <<>> /\ pc \in {"final", "closed"}
      BY <1>2, <1>3, <1>4, <1>6, <3>1, Zenon DEF InboxInv
    <3>3. pc = "final" => out = <<>> /\ k = n
      BY <1>1, <1>2, <1>4, <1>6, <3>1, Zenon DEF AgreeInv
    <3>. QED
      BY <1>1, <1>6, <2>1, <3>1, <3>2, <3>3, SMTT(60) DEF ProxyInv, OwnReply, InboxInv, AgreeInv
  <2>. QED  BY <1>1, <2>2, <2>3, Zenon DEF IInv
<1>7. CASE mode = "Data" /\ l # "." /\ UNCHANGED <<out, mode>>
  <2>1. Typed'
    BY <1>1, <1>3, <1>7, Zenon DEF IInv, Typed
  <2>2. ASSUME ~torn'  PROVE ProxyInv' /\ OwnReply' /\ InboxInv' /\ AgreeInv'
    <3>1. ~torn /\ InboxInv /\ AgreeInv /\ ProxyInv /\ OwnReply
      BY <1>1, <2>2, Zenon DEF IInv
    <3>2. InboxInv'
      BY <1>1, <1>2, <1>3, <1>7, <3>1 DEF InboxInv
    <3>3. pc # "reply" /\ (pc = "greet" => inbox = <<>>) /\ (pc = "final" => out = <<>>)
      BY <1>1, <1>2, <1>7, <3>1, Zenon DEF AgreeInv, ProxyInv
    <3>4. AgreeInv'
      BY <1>1, <1>2, <1>3, <1>7, <3>1, <3>3, Zenon DEF AgreeInv
    <3>5. ProxyInv' /\ OwnReply'
      BY <1>1, <1>7, <3>1, Zenon DEF ProxyInv, OneReply, OwnReply
    <3>. QED  BY <3>2, <3>4, <3>5, Zenon
  <2>. QED  BY <1>1, <2>1, <2>2, Zenon DEF IInv
<1>. QED  BY <1>1, <1>4, <1>5, <1>6, <1>7, Zenon DEF BackendHandles

LEMMA ReadLineInv == ASSUME IInv, ReadLine  PROVE IInv'
<1>1. PICK l \in Lines :
         /\ line' = l
         /\ pc' = IF l = "too long" THEN "closed"
                  ELSE IF state = "Data" \/ l \in Verbs THEN "write"
                  ELSE IF l = Hello THEN "dial"
                  ELSE "line"
  BY Zenon DEF ReadLine
<1>2. /\ pc = "line" /\ n' = n + 1
      /\ UNCHANGED <<state, backend, relayed, torn, mode, alive, inbox, out>>
  BY Zenon DEF ReadLine, backendVars
<1>3. Typed'
  <2>1. pc' \in PC /\ line' \in Lines
    BY <1>1, Zenon DEF PC
  <2>2. n' \in Nat
    BY <1>2 DEF IInv, Typed
  <2>. QED  BY <1>2, <2>1, <2>2, Zenon DEF IInv, Typed
<1>4. ASSUME ~torn  PROVE ProxyInv' /\ OwnReply'
  BY <1>1, <1>2, <1>4, Zenon DEF IInv, Typed, ProxyInv, OwnReply
<1>5. ASSUME ~torn, alive  PROVE InboxInv' /\ AgreeInv'
  BY <1>1, <1>2, <1>5, Zenon DEF IInv, InboxInv, AgreeInv
<1>. QED  BY <1>2, <1>3, <1>4, <1>5, Zenon DEF IInv

LEMMA DialInv == ASSUME IInv, Dial  PROVE IInv'
  BY DEF Dial, proxyVars, IInv, Typed, PC, ProxyInv, OwnReply, InboxInv, AgreeInv

LEMMA GreetingInv == ASSUME IInv, ReadGreeting  PROVE IInv'
<1>1. CASE Fail421
  BY <1>1, CloseInv, Zenon
<1>2. ASSUME NEW chunk \in Arrived, StartsWith(chunk, "220"), Consume(chunk), backend', pc' = "write",
             UNCHANGED <<state, n, line, relayed, mode, alive, inbox>>
      PROVE  IInv'
  <2>1. pc = "greet" /\ Typed
    BY Zenon DEF ReadGreeting, IInv
  <2>2. Typed'
    BY <1>2, <2>1, ReadsTyped, Zenon DEF Typed, PC
  <2>3. ASSUME ~torn'  PROVE ProxyInv' /\ OwnReply' /\ (alive' => InboxInv' /\ AgreeInv')
    <3>1. ~torn
      BY <1>2, <2>3, Zenon DEF Consume
    <3>2. out = <<>> \/ OneReply(0)
      BY <2>1, <3>1, Zenon DEF IInv, ProxyInv
    <3>3. OneReply(0) /\ out' = <<>>
      BY <1>2, <2>1, <2>3, <3>2, ReadsWhole, Zenon
    <3>4. out # <<>>
      BY <3>3 DEF OneReply
    <3>. QED  BY <1>2, <2>1, <3>1, <3>3, <3>4, Zenon
              DEF IInv, ProxyInv, OwnReply, InboxInv, AgreeInv
  <2>. QED  BY <2>2, <2>3, Zenon DEF IInv
<1>. QED  BY <1>1, <1>2, Zenon DEF ReadGreeting

LEMMA WriteInv == ASSUME IInv, Write  PROVE IInv'
<1>. DEFINE e == [line |-> n, kind |-> line, as |-> state]
<1>1. /\ pc = "write" /\ backend /\ inbox' = Append(inbox, e)
      /\ pc' = IF state = "Command" THEN "reply" ELSE IF IsTerminator THEN "final" ELSE "line"
      /\ UNCHANGED <<state, backend, n, line, relayed, torn, mode, alive, out>>
  BY Zenon DEF Write, proxyVars
<1>2. inbox \in Seq(Entries) /\ e \in Entries
  BY Zenon DEF IInv, Typed, Entries
<1>3. e.line = n /\ e.kind = line /\ e.as = state
  BY Zenon
<1>. HIDE DEF e
<1>4. /\ inbox' \in Seq(Entries) /\ Len(inbox') = Len(inbox) + 1 /\ inbox'[Len(inbox')] = e
      /\ \A i \in DOMAIN inbox' : i # Len(inbox') => i \in DOMAIN inbox /\ inbox'[i] = inbox[i]
      /\ Len(inbox) \in Nat /\ inbox = <<>> => Len(inbox') = 1
      /\ DOMAIN inbox' = 1..Len(inbox')
  BY <1>1, <1>2
<1>5. Typed'
  BY <1>1, <1>4, Zenon DEF IInv, Typed, PC
<1>6. ASSUME ~torn  PROVE ProxyInv' /\ OwnReply'
  BY <1>1, <1>6, Zenon DEF IInv, Typed, ProxyInv, OwnReply
<1>7. ASSUME ~torn, alive  PROVE InboxInv' /\ AgreeInv'
  <2>1. InboxInv /\ AgreeInv /\ state = mode /\ out' = <<>> /\ (mode = "Command" => inbox = <<>>)
    BY <1>1, <1>7, Zenon DEF IInv, ProxyInv, AgreeInv
  <2>2. CASE state = "Command"
    <3>1. pc' = "reply" /\ Len(inbox') = 1 /\ inbox'[1] = e
      BY <1>1, <1>4, <2>1, <2>2, Zenon
    <3>. QED  BY <1>1, <1>3, <1>4, <2>1, <2>2, <3>1 DEF InboxInv, AgreeInv
  <2>3. CASE state = "Data"
    <3>1. pc' = (IF IsTerminator THEN "final" ELSE "line") /\ mode' = "Data"
      BY <1>1, <2>1, <2>3, Zenon
    <3>2. \A i \in DOMAIN inbox : inbox[i].as = "Data" /\ inbox[i].kind # "."
      BY <1>1, <2>1, <2>3, Zenon DEF InboxInv
    <3>3. \A i \in DOMAIN inbox' :
             /\ inbox'[i].as = "Data"
             /\ inbox'[i].kind = "." => i = Len(inbox') /\ pc' = "final" /\ inbox'[i].line = n
      BY <1>3, <1>4, <2>3, <3>1, <3>2, Zenon DEF IsTerminator
    <3>. QED  BY <1>1, <2>1, <2>3, <3>1, <3>3, Zenon DEF InboxInv, AgreeInv
  <2>. QED  BY <2>2, <2>3, Zenon DEF IInv, Typed
<1>. QED  BY <1>1, <1>5, <1>6, <1>7, Zenon DEF IInv

LEMMA ReplyInv == ASSUME IInv, ReadReply \/ ReadFinal  PROVE IInv'
<1>1. PICK chunk \in Arrived :
         /\ Consume(chunk) /\ Relay(chunk)
         /\ pc = "reply" =>
               state' = IF line = "DATA" /\ StartsWith(chunk, "354") THEN "Data" ELSE state
  BY Zenon DEF ReadReply, ReadFinal
<1>2. /\ pc \in {"reply", "final"} /\ pc' \in {"line", "closed"}
      /\ pc = "final" => state' = "Command"
      /\ UNCHANGED <<backend, n, line, mode, alive, inbox>>
  BY Zenon DEF ReadReply, ReadFinal
<1>3. Typed'
  BY <1>1, <1>2, ReadsTyped, Zenon DEF IInv, Typed, PC
<1>4. ASSUME ~torn'  PROVE ProxyInv' /\ OwnReply' /\ (alive' => InboxInv' /\ AgreeInv')
  <2>1. ~torn /\ ProxyInv /\ OwnReply /\ (alive => InboxInv /\ AgreeInv)
    BY <1>1, <1>4, Zenon DEF Consume, IInv
  <2>2. chunk = out /\ OneReply(n) /\ out' = <<>>
    BY <1>1, <1>2, <1>4, <2>1, ReadsWhole, Zenon DEF IInv, ProxyInv
  <2>3. OwnReply'
    <3>1. \A r \in relayed' : r \in relayed \/ \E i \in DOMAIN out : r = <<n, out[i].of, out[i].part>>
      BY <1>1, <2>2, Zenon DEF Relay
    <3>2. \A i \in DOMAIN out : out[i].of = n
      BY <2>2, Zenon DEF OneReply
    <3>. QED  BY <2>1, <3>1, <3>2 DEF OwnReply
  <2>4. ProxyInv'
    BY <1>2, <2>2, Zenon DEF ProxyInv
  <2>5. ASSUME alive  PROVE InboxInv' /\ AgreeInv'
    <3>1. inbox = <<>> /\ out # <<>> /\ backend
      BY <1>2, <2>1, <2>2, <2>5 DEF AgreeInv, OneReply, ProxyInv
    <3>2. mode # "greeting" /\ state' = mode
      BY <1>1, <1>2, <2>1, <2>2, <2>5, <3>1, Zenon DEF AgreeInv, ProxyInv, StartsWith, OneReply
    <3>. QED  BY <1>2, <2>2, <3>1, <3>2 DEF InboxInv, AgreeInv
  <2>. QED  BY <1>2, <2>3, <2>4, <2>5, Zenon
<1>. QED  BY <1>3, <1>4, Zenon DEF IInv

LEMMA FinalNothingInv == ASSUME IInv, ReadFinalNothing  PROVE IInv'
  BY Zenon DEF ReadFinalNothing, backendVars, IInv, Typed, PC, ProxyInv, OwnReply

-----------------------------------------------------------------------------
(* The invariant holds in every state.                                     *)
THEOREM Invariance == Spec => []IInv
<1>1. ASSUME IInv, [Next]_vars  PROVE IInv'
  <2>1. CASE UNCHANGED vars \/ ClientClose
    BY <1>1, <2>1, StillInv, Zenon DEF vars, ClientClose
  <2>2. CASE Backend
    BY <1>1, <2>2, GreetsInv, HandlesInv, BackendClosesInv, Zenon DEF Backend
  <2>3. CASE ReadLine
    BY <1>1, <2>3, ReadLineInv, Zenon
  <2>4. CASE Session
    BY <1>1, <2>4, CloseInv, DialInv, GreetingInv, WriteInv, ReplyInv, FinalNothingInv, Zenon
    DEF Session, ReadEof, DialFails, WriteFails, ReadNothing, Timeout, ClientWriteFails, Fail421
  <2>. QED  BY <1>1, <2>1, <2>2, <2>3, <2>4, Zenon DEF Next, Finished
<1>. QED  BY <1>1, InitInv, PTL DEF Spec

(* In a session of any length proxy and backend agree on what each line    *)
(* is, a command or message text, until a reply has been read in part.     *)
THEOREM ModesAgree == Spec => []ModeAgreement
<1>1. IInv => ModeAgreement
  BY Zenon DEF IInv, InboxInv, AgreeInv, ModeAgreement
<1>. QED  BY <1>1, Invariance, PTL

(* In a session of any length the client gets to each line the reply to    *)
(* that line, until a reply has been read in part.                         *)
THEOREM RepliesAreOwn == Spec => []OwnReply
<1>1. IInv => OwnReply
  BY Zenon DEF IInv, OwnReply
<1>. QED  BY <1>1, Invariance, PTL
=============================================================================
