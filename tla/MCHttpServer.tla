----------------------------- MODULE MCHttpServer -----------------------------
(* HttpServer for TLC: no body, a short one, and one with a blank line in    *)
(* it, whatever length is declared; every way to name the protocol, and what *)
(* may be wrong with a set-up.                                               *)
EXTENDS HttpServer

Texts == {<<>>, <<"b">>, <<"b", "b">>, <<"b", "r", "n", "r", "n", "b">>}

Plain ==
    [command |-> None, name |-> "", postgres |-> None, mysql |-> None, workers |-> None,
     reuse_port |-> TRUE, hook |-> FALSE, skip |-> "other", tls |-> "false",
     certificate |-> "good", key |-> "good", ca |-> "", client_cert |-> "other",
     sockmap |-> "other", object |-> "", endpoint |-> "", timeout |-> "fits"]

Http == [Plain EXCEPT !.name = "http"]
Tls  == [Plain EXCEPT !.tls = "true"]

Requested == {[Http EXCEPT !.workers = 0, !.skip = "true", !.endpoint = "given"]}

Environments ==
    Requested
    \cup {Http, [Http EXCEPT !.reuse_port = FALSE], [Http EXCEPT !.hook = TRUE]}
    \cup {[Plain EXCEPT !.command = "smtp", !.skip = s] : s \in Switch}
    \cup {[Plain EXCEPT !.name = "unknown"], [Plain EXCEPT !.timeout = "overflows"]}
    \cup {[Plain EXCEPT !.postgres = p, !.mysql = m] :
             p \in {None, 0, 6543}, m \in {0, 6543, 65536}}
    \cup {[Plain EXCEPT !.sockmap = s, !.object = o] : s \in Switch, o \in File}
    \cup {[Tls EXCEPT !.certificate = f] : f \in File}
    \cup {[Tls EXCEPT !.key = f] : f \in File}
    \cup {[Tls EXCEPT !.ca = f, !.client_cert = s] : f \in File, s \in Switch}
=============================================================================
