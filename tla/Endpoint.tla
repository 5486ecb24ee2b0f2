------------------------------- MODULE Endpoint -------------------------------
(***************************************************************************)
(* Endpoints and addresses as Adapter handles them (adapter/mod.rs): which *)
(* addresses validate refuses, how it splits and rebuilds an endpoint, and *)
(* how the servers split the result again before they dial.                *)
(*                                                                         *)
(* A host is a name, an IPv4 or an IPv6 address, or "group": the text of   *)
(* an IPv6 address up to its first colon.  An endpoint is a host and what  *)
(* follows the first colon: a number, NoPort for nothing, NotAPort for     *)
(* text that is no u16.                                                    *)
(***************************************************************************)
EXTENDS Integers, Sequences

MaxU16   == 65535
NoPort   == -1
NotAPort == MaxU16 + 1
Port     == 0..MaxU16
Rest     == {NoPort, NotAPort} \cup Port

Name    == [is |-> "name"]
Octet   == 0..255
V4(a, b) == [is |-> "v4", octets |-> <<a, b>>]     \* a.b.x.x
V6(s)   == [is |-> "v6", segments |-> s]
Address4 == [is : {"v4"}, octets : Octet \X Octet]
Address6 == [is : {"v6"}, segments : [1..8 -> 0..MaxU16]]
Group(ip) == [is |-> "group", segment |-> ip.segments[1]]

-----------------------------------------------------------------------------
(* A mistake of the kind this code invites, for checking that the          *)
(* properties notice it; nothing uses this.                                *)

(* The port is left out.                                                   *)
ToTextBare(ip, rest) == [host |-> ip, rest |-> NoPort]

-----------------------------------------------------------------------------
is_blocked_ipv4(ip) ==
    LET a == ip.octets[1]
        b == ip.octets[2]
    IN  \/ a = 10
        \/ a = 172 /\ b \in 16..31
        \/ a = 192 /\ b = 168
        \/ a = 127
        \/ a = 169 /\ b = 254
        \/ a >= 224
        \/ a = 0

(* The masks 0xffc0 and 0xfe00 clear the low 6 and the low 9 bits.         *)
is_blocked_ipv6(ip) ==
    LET s == ip.segments
    IN  \/ s = <<0, 0, 0, 0, 0, 0, 0, 1>>
        \/ s[1] - (s[1] % 64) = 65152
        \/ s[1] - (s[1] % 512) = 64512
        \/ (\A i \in 1..5 : s[i] = 0) /\ s[6] = MaxU16

is_blocked_ip(ip) == IF ip.is = "v4" THEN is_blocked_ipv4(ip) ELSE is_blocked_ipv6(ip)

(* The syntax validate accepts: one colon at most, and a port from 1 on.   *)
WellFormed(endpoint) == endpoint.rest = NoPort \/ endpoint.rest \in 1..MaxU16

(* An address and its port as text.  An IPv6 address gets no brackets, so  *)
(* that its own first colon is the first one of the text.                  *)
ToText(ip, rest) ==
    IF ip.is = "v6" THEN [host |-> Group(ip), rest |-> NotAPort]
    ELSE [host |-> ip, rest |-> rest]

parse_endpoint(endpoint, default_port) ==
    [host |-> endpoint.host,
     port |-> IF endpoint.rest \in Port THEN endpoint.rest ELSE default_port]

-----------------------------------------------------------------------------
(* The ranges the comments of is_blocked_ip name, for comparison: a prefix *)
(* is size numbers from a * 256 + b on.                                    *)

Prefix(n, a, b, size) == a * 256 + b <= n /\ n < a * 256 + b + size

Reserved4(n) ==
    \/ Prefix(n, 10, 0, 256)   \/ Prefix(n, 172, 16, 16) \/ Prefix(n, 192, 168, 1)
    \/ Prefix(n, 127, 0, 256)  \/ Prefix(n, 169, 254, 1)
    \/ Prefix(n, 224, 0, 4096) \/ Prefix(n, 240, 0, 4096) \/ Prefix(n, 0, 0, 256)

Reserved6(n) == n - 65152 \in 0..63 \/ n - 64512 \in 0..511     \* fe80::/10, fc00::/7

Reserved(ip) ==
    IF ip.is = "v4" THEN Reserved4(ip.octets[1] * 256 + ip.octets[2])
    ELSE \/ Reserved6(ip.segments[1])
         \/ ip = V6(<<0, 0, 0, 0, 0, 0, 0, 1>>)
         \/ \A i \in 1..6 : ip.segments[i] = (IF i = 6 THEN MaxU16 ELSE 0)
=============================================================================
