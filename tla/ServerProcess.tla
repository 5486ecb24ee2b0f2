---------------------------- MODULE ServerProcess ----------------------------
(***************************************************************************)
(* One process of the proxy.  It runs one server until it ends: the script *)
(* of the PHP proxy (examples/tcp.php, http.php) makes the event-driven or *)
(* the coroutine TCP server, or an HTTP server; the Rust proxy's HTTP      *)
(* server is here with the pool that its requests share.                   *)
(***************************************************************************)
EXTENDS SwooleTcp, CoroutineTcp, SwooleHttp, HttpPool

VARIABLE server

processVars == <<vars, coroutineVars, httpVars, poolVars, server>>

ProcessInit ==
    /\ Init /\ CoroutineInit /\ HttpInit /\ PoolInit
    /\ server \in {"tcp", "tcp coroutine", "http", "rust http"}

ProcessNext ==
    /\ \/ server = "tcp" /\ Next /\ UNCHANGED <<coroutineVars, httpVars, poolVars>>
       \/ server = "tcp coroutine" /\ CoroutineNext /\ UNCHANGED <<vars, httpVars, poolVars>>
       \/ server = "http" /\ HttpNext /\ UNCHANGED <<vars, coroutineVars, poolVars>>
       \/ server = "rust http" /\ PoolNext /\ UNCHANGED <<vars, coroutineVars, httpVars>>
    /\ UNCHANGED server

(* What is fair to a server that does not run is never enabled.            *)
ProcessSpec ==
    /\ ProcessInit /\ [][ProcessNext]_processVars
    /\ Fairness /\ CoroutineFairness /\ HttpFairness /\ PoolFairness
=============================================================================
