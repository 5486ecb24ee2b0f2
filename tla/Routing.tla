------------------------------- MODULE Routing -------------------------------
(***************************************************************************)
(* Routing one request key to the address that is dialed: Adapter::route   *)
(* with its cache and validate (adapter/mod.rs), the process-wide DNS cache *)
(* (dns.rs) and parse_endpoint, with which the servers split what route    *)
(* returns, used by concurrent tasks while time passes.                    *)
(*                                                                         *)
(* What the resolver and the DNS say is chosen freely whenever they are    *)
(* asked; with an answer goes the time at which it was true.  Time stands  *)
(* still while a task is between awaits and passes only while the resolver *)
(* or the DNS is asked.                                                    *)
(***************************************************************************)
EXTENDS Endpoint

CONSTANTS
    Task,
    None,
    Endpoints,      \* the endpoints a resolver may answer with
    Addresses,      \* the addresses the DNS may know for the name
    DefaultPort,    \* the port dialed when the endpoint has none
    CacheTtls,      \* the values set_cache_ttl is called with, in ticks
    MokaTtl,        \* the time to live built into the cache, 3600 s
    DnsTimeout,     \* DNS_TIMEOUT
    DnsTtls,        \* the values set_ttl is called with
    MaxTime         \* bound on the clock

ASSUME RoutingAssumption ==
    /\ None \notin Nat
    /\ Addresses \subseteq Address4 \cup Address6
    /\ Endpoints \subseteq [host : Address4 \cup {Name}, rest : Rest]
    /\ DefaultPort \in Port
    /\ {MokaTtl, DnsTimeout, MaxTime} \subseteq Nat
    /\ DnsTtls \subseteq Nat /\ DnsTtls # {}
    /\ CacheTtls \subseteq Nat /\ CacheTtls # {}

VARIABLES
    cache_ttl,      \* set when the server starts; 0 disables the cache
    skip_validation,
    now,
    cache,          \* the routing cache's entry for the key, or None
    ttl_seconds,    \* TTL_SECONDS
    dns_ttl,        \* the time to live CACHE was built with, or None
    dns,            \* CACHE's entry for the host, or None
    point,          \* point[t]: the point route has reached in task t
    endpoint,       \* endpoint[t]: what the resolver said
    asked,          \* asked[t]: when the DNS was asked
    ip,             \* ip[t]: the address it gave
    result          \* what route returned in the last step, or None

dnsVars == <<ttl_seconds, dns_ttl, dns>>
setVars == <<cache_ttl, skip_validation>>
taskVars == <<endpoint, asked, ip>>
routingVars == <<setVars, now, cache, dnsVars, point, taskVars, result>>

Said(what, when) == [what |-> what, asOf |-> when]

RoutingInit ==
    /\ cache_ttl \in CacheTtls /\ skip_validation \in BOOLEAN
    /\ now = 0
    /\ cache = None
    /\ ttl_seconds \in DnsTtls /\ dns_ttl = None /\ dns = None
    /\ point = [t \in Task |-> "idle"]
    /\ endpoint = [t \in Task |-> None]
    /\ asked = [t \in Task |-> None]
    /\ ip = [t \in Task |-> None]
    /\ result = None

Waiting(t) ==
    \/ point[t] \in {"idle", "resolve"}
    \/ point[t] = "lookup" /\ now < asked[t] + DnsTimeout

Tick ==
    /\ now < MaxTime
    /\ \A t \in Task : Waiting(t)
    /\ now' = now + 1
    /\ result' = None
    /\ UNCHANGED <<setVars, cache, dnsVars, point, taskVars>>

Goto(t, label) ==
    /\ point' = [point EXCEPT ![t] = label]
    /\ result' = None
    /\ UNCHANGED <<setVars, now>>

(* route returns; its locals are gone.                                     *)
Ends(t) ==
    /\ point' = [point EXCEPT ![t] = "idle"]
    /\ endpoint' = [endpoint EXCEPT ![t] = None]
    /\ asked' = [asked EXCEPT ![t] = None]
    /\ ip' = [ip EXCEPT ![t] = None]
    /\ UNCHANGED <<setVars, now, dnsVars>>

(* route returns an endpoint, which its caller splits and dials.  With it  *)
(* goes the address it stands for.                                         *)
Answer(t, entry) ==
    /\ result' = [dials |-> parse_endpoint(entry.text, DefaultPort), checked |-> entry.checked,
                  hostAge |-> now - entry.hostAsOf, ipAge |-> now - entry.ipAsOf]
    /\ Ends(t)

Error(t) == result' = None /\ Ends(t) /\ UNCHANGED cache

(* An answer is cached, unless caching is off, and returned.               *)
Store(t, text, address, ip_asOf) ==
    LET entry == [text |-> text, checked |-> [host |-> address, rest |-> endpoint[t].what.rest],
                  hostAsOf |-> endpoint[t].asOf, ipAsOf |-> ip_asOf, at |-> now]
    IN  /\ cache' = IF cache_ttl = 0 THEN cache ELSE entry
        /\ Answer(t, entry)

Fresh(entry, ttl) == entry # None /\ now - entry.at < ttl

(* The first use of CACHE builds it with the time to live of that moment.  *)
BuiltTtl == IF dns_ttl = None THEN ttl_seconds ELSE dns_ttl

CacheFresh == cache_ttl > 0 /\ Fresh(cache, cache_ttl) /\ Fresh(cache, MokaTtl)

-----------------------------------------------------------------------------
(* Mistakes of the kind this code invites, for checking that the           *)
(* properties notice them; no action uses these.                           *)

(* The time to live restarts with every hit.                               *)
CacheHitRenews(t) ==
    /\ point[t] = "get" /\ CacheFresh
    /\ cache' = [cache EXCEPT !.at = now]
    /\ Answer(t, cache)

(* What the DNS cache holds is taken for checked.                          *)
DnsHitTrusted(t) ==
    /\ point[t] = "dns"
    /\ endpoint[t].what.host = Name /\ dns_ttl # None /\ Fresh(dns, dns_ttl)
    /\ Store(t, ToText(dns.ip, endpoint[t].what.rest), dns.ip, dns.asOf)

-----------------------------------------------------------------------------
(* route, and what follows the resolver's answer up to the next await.     *)

Start(t) ==
    /\ point[t] = "idle"
    /\ Goto(t, "get")
    /\ UNCHANGED <<cache, dnsVars, taskVars>>

CacheHit(t) ==
    /\ point[t] = "get" /\ CacheFresh
    /\ Answer(t, cache)
    /\ UNCHANGED cache

CacheMiss(t) ==
    /\ point[t] = "get" /\ ~CacheFresh
    /\ Goto(t, "resolve")
    /\ UNCHANGED <<cache, dnsVars, taskVars>>

(* Without validation the endpoint itself is cached and returned; with it  *)
(* one of the wrong form is an error.                                      *)
Resolve(t) ==
    /\ point[t] = "resolve"
    /\ \E e \in Endpoints :
        /\ endpoint' = [endpoint EXCEPT ![t] = Said(e, now)]
        /\ ~skip_validation => WellFormed(e)
    /\ Goto(t, IF skip_validation THEN "unchecked" ELSE "dns")
    /\ UNCHANGED <<cache, dnsVars, asked, ip>>

(* No answer, an empty endpoint, or one of the wrong form.                 *)
ResolveFails(t) == point[t] = "resolve" /\ Error(t)

InsertUnchecked(t) ==
    /\ point[t] = "unchecked"
    /\ Store(t, endpoint[t].what, endpoint[t].what.host, endpoint[t].asOf)

-----------------------------------------------------------------------------
(* dns::resolve.                                                           *)

DnsLiteral(t) ==
    /\ point[t] = "dns"
    /\ endpoint[t].what.host # Name
    /\ ip' = [ip EXCEPT ![t] = Said(endpoint[t].what.host, endpoint[t].asOf)]
    /\ Goto(t, "check")
    /\ UNCHANGED <<cache, dnsVars, endpoint, asked>>

DnsMiss(t) ==
    /\ point[t] = "dns"
    /\ endpoint[t].what.host = Name /\ (dns_ttl = None \/ ~Fresh(dns, dns_ttl))
    /\ dns_ttl' = BuiltTtl
    /\ asked' = [asked EXCEPT ![t] = now]
    /\ Goto(t, "lookup")
    /\ UNCHANGED <<cache, ttl_seconds, dns, endpoint, ip>>

DnsHit(t) ==
    /\ point[t] = "dns"
    /\ endpoint[t].what.host = Name /\ dns_ttl # None /\ Fresh(dns, dns_ttl)
    /\ ip' = [ip EXCEPT ![t] = Said(dns.ip, dns.asOf)]
    /\ Goto(t, "check")
    /\ UNCHANGED <<cache, dnsVars, endpoint, asked>>

(* An IPv4 address goes before the others.                                 *)
Preferred(found) ==
    LET v4 == {a \in found : a.is = "v4"}
    IN  IF v4 = {} THEN found ELSE v4

(* The answer, true at some time since it was asked for, is cached.        *)
LookupAnswers(t) ==
    /\ point[t] = "lookup"
    /\ \E found \in SUBSET Addresses, when \in asked[t]..now : \E a \in Preferred(found) :
        /\ ip' = [ip EXCEPT ![t] = Said(a, when)]
        /\ dns' = [ip |-> a, asOf |-> when, at |-> now]
    /\ Goto(t, "check")
    /\ UNCHANGED <<cache, ttl_seconds, dns_ttl, endpoint, asked>>

(* On failure and on timeout the name itself comes back, which validate    *)
(* cannot parse as an address.                                             *)
LookupFails(t) == point[t] = "lookup" /\ Error(t)

-----------------------------------------------------------------------------
(* validate's check of the address; the cache gets it, over whatever       *)
(* another task has put there in the meantime.                             *)

Insert(t) ==
    /\ point[t] = "check" /\ ~is_blocked_ip(ip[t].what)
    /\ Store(t, ToText(ip[t].what, endpoint[t].what.rest), ip[t].what, ip[t].asOf)

Forbidden(t) == point[t] = "check" /\ is_blocked_ip(ip[t].what) /\ Error(t)

-----------------------------------------------------------------------------
(* set_ttl, clear, and the caches making room at their capacity.           *)

SetTtl ==
    /\ ttl_seconds' \in DnsTtls \ {ttl_seconds}
    /\ result' = None
    /\ UNCHANGED <<setVars, now, cache, dns_ttl, dns, point, taskVars>>

(* Clearing is a use of CACHE, and builds it if it is the first.           *)
Clear ==
    /\ dns # None \/ dns_ttl = None
    /\ dns' = None /\ dns_ttl' = BuiltTtl
    /\ result' = None
    /\ UNCHANGED <<setVars, now, cache, ttl_seconds, point, taskVars>>

Evict ==
    /\ cache # None
    /\ cache' = None /\ result' = None
    /\ UNCHANGED <<setVars, now, dnsVars, point, taskVars>>

-----------------------------------------------------------------------------
Route(t) ==
    \/ Start(t) \/ CacheHit(t) \/ CacheMiss(t) \/ Resolve(t) \/ ResolveFails(t)
    \/ InsertUnchecked(t) \/ DnsLiteral(t) \/ DnsMiss(t) \/ DnsHit(t)
    \/ LookupAnswers(t) \/ LookupFails(t) \/ Insert(t) \/ Forbidden(t)

RoutingNext == Tick \/ (\E t \in Task : Route(t)) \/ SetTtl \/ Clear \/ Evict

RoutingSpec == RoutingInit /\ [][RoutingNext]_routingVars

-----------------------------------------------------------------------------
(* Properties.                                                             *)

(* route never returns anything that stands for an address of the reserved *)
(* ranges, not even from a cache (adapter/mod.rs 184-188, 209-279).        *)
OnlyValidated ==
    ~skip_validation /\ result # None =>
        result.checked.host # Name /\ ~Reserved(result.checked.host)

(* What is dialed is the address that was checked, at the port the         *)
(* resolver named, not the name, which could be resolved to another by     *)
(* then (adapter/mod.rs 153-154, 190-207, adapter/tcp.rs 147-152).  An     *)
(* IPv6 address does not survive being split at its first colon.           *)
DialsChecked ==
    ~skip_validation /\ result # None /\ result.checked.host.is = "v4" =>
        result.dials = [host |-> result.checked.host,
                        port |-> IF result.checked.rest = NoPort THEN DefaultPort
                                 ELSE result.checked.rest]

(* How old a routing answer can be: the resolver said it less than one     *)
(* time to live and one DNS timeout ago, and the address is older by at    *)
(* most the DNS cache's own time to live; entries that tasks insert late   *)
(* or out of order do not add up (adapter/mod.rs 90-102, 126-136).  A time *)
(* to live above the one built into the cache has no effect (line 52), and *)
(* the DNS cache's is the one that TTL_SECONDS held when CACHE was first   *)
(* used (dns.rs 25-30): no later set_ttl makes the bound smaller.          *)
Lifetime(ttl) == IF ttl \in {None, 0} THEN 0 ELSE ttl - 1
CacheLifetime == Lifetime(IF cache_ttl < MokaTtl THEN cache_ttl ELSE MokaTtl)

BoundedStaleness ==
    result # None =>
        /\ result.hostAge <= CacheLifetime + DnsTimeout
        /\ result.ipAge <= CacheLifetime + Lifetime(dns_ttl) + DnsTimeout

(* What the comment on set_ttl says, that it takes effect for future cache *)
(* entries (dns.rs 37): an entry goes into CACHE for the time to live that *)
(* is configured at that moment.                                           *)
SetTtlApplies == [][dns' \notin {dns, None} => dns_ttl' = ttl_seconds]_routingVars
=============================================================================
