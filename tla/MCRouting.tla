------------------------------ MODULE MCRouting ------------------------------
(* Routing for TLC: tasks are interchangeable; the addresses lie on either   *)
(* side of the end of a reserved range.                                      *)
EXTENDS Routing, TLC

Symmetry == Permutations(Task)

Known == {V4(172, 31), V4(172, 32), V6(<<8193, 3512, 0, 0, 0, 0, 0, 1>>)}

Answered ==
    {[host |-> Name, rest |-> p] : p \in {80, NotAPort}}
    \cup {[host |-> V4(172, 32), rest |-> NoPort]}

(* is_blocked_ip is exactly the ranges its comments name.                    *)
ASSUME BlocksTheRanges ==
    /\ \A a \in Octet, b \in Octet : is_blocked_ip(V4(a, b)) <=> Reserved(V4(a, b))
    /\ \A s \in 0..65535 :
           LET v6 == V6(<<s, 0, 0, 0, 0, 0, 0, 2>>) IN is_blocked_ip(v6) <=> Reserved(v6)
    /\ \A s \in [1..8 -> {0, 1, 65535}] : is_blocked_ip(V6(s)) <=> Reserved(V6(s))
=============================================================================
