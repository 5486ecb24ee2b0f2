------------------------------- MODULE Startup -------------------------------
(***************************************************************************)
(* The life of the proxy process: the binary (bins/proxy/src/main.rs) reads *)
(* its environment and calls start of one of the three servers, which      *)
(* binds listeners one after the other and accepts on each in a task of    *)
(* its own while it is still binding the rest; an interrupt ends it.       *)
(*                                                                         *)
(* An environment variable that holds a switch is "true", "false" or       *)
(* "other" (unset, or none of the words env_bool knows); a number is       *)
(* itself, or None where it does not parse; a path is "" or says what is   *)
(* found there.  reuse_port and hook stand for HttpConfig fields that only *)
(* an embedding program sets.                                              *)
(***************************************************************************)
EXTENDS Integers, Sequences

CONSTANTS
    Client,
    None,
    Environment,    \* the environments the process may be started in
    Cpus,           \* available_parallelism
    Slots,          \* how many listeners there may be
    MaxErrors       \* bound on failing accepts

Slot == 1..Slots
Protocols == {"tcp", "http", "smtp"}
Switch == {"true", "false", "other"}
File == {"", "missing", "garbled", "good"}

ASSUME StartupAssumption ==
    /\ None \notin Protocols \cup Int
    /\ Cpus \in Nat \ {0} /\ {MaxErrors, Slots} \subseteq Nat
    /\ Environment \subseteq
          [command : Protocols \cup {None}, name : Protocols \cup {"", "unknown"},
           postgres : Int \cup {None}, mysql : Int \cup {None},
           workers : Nat \cup {None}, reuse_port : BOOLEAN, hook : BOOLEAN,
           skip : Switch, tls : Switch, certificate : File, key : File, ca : File,
           client_cert : Switch, sockmap : Switch, object : File,
           endpoint : {"", "given"}, timeout : {"fits", "overflows"}]

VARIABLES
    env,            \* what the process was started with
    main,           \* where the main task is
    code,           \* the exit code, or None
    interrupted,    \* ctrl_c has completed
    settings,       \* the configuration handed to start, or None
    acceptor,       \* the TLS acceptor, or None
    adapters,       \* the adapters built so far, by port or by worker
    bound,          \* how many listeners were bound
    task,           \* task[i]: the accept loop of listener i
    errors,         \* accepts that failed
    client          \* client[c]: where the connection of c is

processVars == <<env, main, code, interrupted, settings, acceptor>>
loopVars == <<bound, task, errors, client>>
startupVars == <<processVars, adapters, loopVars>>

Away == [at |-> "away", via |-> 0, adapter |-> None]
Open(i) == task[i] \in {"init", "accept", "sleep"}
Running == main # "exited"

StartupInit ==
    /\ env \in Environment
    /\ main = "main" /\ code = None /\ interrupted = FALSE
    /\ settings = None /\ acceptor = None
    /\ adapters = <<>> /\ bound = 0
    /\ task = [i \in Slot |-> "none"]
    /\ errors = 0
    /\ client = [c \in Client |-> Away]

-----------------------------------------------------------------------------
(* Reading the environment.                                                *)

env_bool(value, default) == value = "true" \/ (value = "other" /\ default)
env_u16(value, default)  == IF value \in 0..(2^16 - 1) THEN value ELSE default
env_usize(value, default) == IF value = None THEN default ELSE value
env_string(value, default) == IF value = "" THEN default ELSE value

(* The subcommand, else PROXY_PROTOCOL, else TCP.                          *)
resolve_protocol(e) ==
    IF e.command # None THEN e.command
    ELSE IF e.name = "" THEN "tcp" ELSE e.name

(* The port of either database, 0 turning it off; both when none is left.  *)
TcpPorts(e) ==
    LET Kept(port) == IF port > 0 THEN <<port>> ELSE <<>>
        chosen == Kept(env_u16(e.postgres, 5432)) \o Kept(env_u16(e.mysql, 3306))
    IN  IF chosen = <<>> THEN <<5432, 3306>> ELSE chosen

(* Every worker binds the one port; there is at least one of them.         *)
HttpWorkers(e) ==
    LET workers == env_usize(e.workers, Cpus * 2)
    IN  IF workers = 0 THEN 1 ELSE workers

NoTls == [certificate |-> "", key |-> "", ca |-> "", client_cert |-> FALSE]

build_tls(e) ==
    IF env_bool(e.tls, FALSE)
    THEN [certificate |-> e.certificate, key |-> e.key, ca |-> e.ca,
          client_cert |-> env_bool(e.client_cert, FALSE)]
    ELSE NoTls

(* Enabled without a certificate or without a key.                         *)
TlsIncomplete(e) == env_bool(e.tls, FALSE) /\ (e.certificate = "" \/ e.key = "")

(* One fixed endpoint, whatever PROXY_RESOLVER says.                       *)
endpoint_default == [tcp |-> "127.0.0.1:5432", http |-> "127.0.0.1:5678",
                     smtp |-> "127.0.0.1:1025"]

build_resolver(e) == env_string(e.endpoint, endpoint_default[resolve_protocol(e)])

(* The configurations as they are built.  cache: whether routing answers   *)
(* are cached; tls and object are the TCP server's alone.                  *)
TcpDefault(ports) ==
    [protocol |-> "tcp", ports |-> ports, reuse_port |-> TRUE, skip |-> FALSE,
     cache |-> FALSE, tls |-> NoTls, object |-> ""]

HttpDefault ==
    [protocol |-> "http", ports |-> [i \in 1..16 |-> 80], reuse_port |-> TRUE, skip |-> FALSE,
     cache |-> TRUE, tls |-> NoTls, object |-> ""]

SmtpDefault ==
    [protocol |-> "smtp", ports |-> <<25>>, reuse_port |-> FALSE, skip |-> FALSE,
     cache |-> TRUE, tls |-> NoTls, object |-> ""]

(* run_tcp, run_http and run_smtp up to the call of start.                 *)
TcpSettings(e) ==
    [TcpDefault(TcpPorts(e)) EXCEPT
        !.skip = env_bool(e.skip, FALSE), !.tls = build_tls(e),
        !.object = IF env_bool(e.sockmap, FALSE) THEN e.object ELSE ""]

HttpSettings(e) ==
    [HttpDefault EXCEPT
        !.ports = [i \in 1..HttpWorkers(e) |-> 8080], !.reuse_port = e.reuse_port,
        !.skip = env_bool(e.skip, FALSE)]

SmtpSettings(e) == [SmtpDefault EXCEPT !.skip = env_bool(e.skip, FALSE)]

Settings(e) ==
    CASE resolve_protocol(e) = "http" -> HttpSettings(e)
      [] resolve_protocol(e) = "smtp" -> SmtpSettings(e)
      [] OTHER                        -> TcpSettings(e)

ASSUME SlotAssumption ==
    \A e \in Environment : DOMAIN Settings(e).ports \subseteq Slot

-----------------------------------------------------------------------------
(* TLS.                                                                    *)

IsFile(path) == path \in {"garbled", "good"}

(* A certificate for the clients is asked for when a CA is there to check  *)
(* it with.                                                                *)
Verifies(t) == t.client_cert /\ t.ca # ""

(* Files that exist but hold no certificate or no key fail here.           *)
rustls_server_config(t) ==
    IF t.certificate = "good" /\ t.key = "good" /\ (Verifies(t) => t.ca = "good")
    THEN [verifies |-> Verifies(t)]
    ELSE None

-----------------------------------------------------------------------------
(* The process is gone, and with it every task and connection.             *)
Exit(status) ==
    /\ main' = "exited" /\ code' = status
    /\ task' = [i \in Slot |-> "none"]
    /\ client' = [c \in Client |-> IF client[c].at = "away" THEN Away
                                   ELSE [client[c] EXCEPT !.at = "cut"]]
    /\ UNCHANGED <<env, interrupted, settings, acceptor, adapters, bound, errors>>

-----------------------------------------------------------------------------
(* Mistakes of the kind this code invites, for checking that the           *)
(* properties notice them; no action uses these.                           *)

(* validate does not ask for a CA.                                         *)
ValidateLax(t) == IsFile(t.certificate) /\ IsFile(t.key)

(* A port that cannot be bound is passed over.                             *)
BindSkips ==
    /\ main = "bind" /\ bound < Len(settings.ports)
    /\ bound' = bound + 1
    /\ UNCHANGED <<processVars, adapters, task, errors, client>>

(* Requests are accepted before the worker's adapter is set up.            *)
BegunAtOnce == "accept"

(* An accept that fails ends the loop.                                     *)
AcceptEnds(i) ==
    /\ task[i] = "accept" /\ errors < MaxErrors
    /\ errors' = errors + 1
    /\ task' = [task EXCEPT ![i] = "returned"]
    /\ UNCHANGED <<processVars, adapters, bound, client>>

(* The process waits for its connections to end.                           *)
LeaveDrained ==
    \/ main = "failing" /\ Exit(1)
    \/ /\ main \in {"bind", "serve"} /\ interrupted
       /\ \A c \in Client : client[c].at # "served"
       /\ Exit(0)

-----------------------------------------------------------------------------
(* The main task.                                                          *)

(* A panic ends the process with 134 in the release build, which aborts,   *)
(* and otherwise the task: the main task's with 101.                       *)
Panicked == {101, 134}

(* Durations that do not fit panic; a protocol or TLS settings that make   *)
(* no sense are an error.                                                  *)
ConfigureFails ==
    /\ main = "main"
    /\ LET protocol == resolve_protocol(env)
       IN  \/ protocol \notin Protocols /\ Exit(1)
           \/ protocol = "tcp" /\ env.timeout = "overflows" /\ \E s \in Panicked : Exit(s)
           \/ protocol = "tcp" /\ env.timeout = "fits" /\ TlsIncomplete(env) /\ Exit(1)

Configure ==
    /\ main = "main"
    /\ resolve_protocol(env) \in Protocols
    /\ resolve_protocol(env) = "tcp" => env.timeout = "fits" /\ ~TlsIncomplete(env)
    /\ main' = "start" /\ settings' = Settings(env)
    /\ UNCHANGED <<env, code, interrupted, acceptor, adapters, loopVars>>

(* Tls::validate.                                                          *)
validate(t) ==
    /\ IsFile(t.certificate) /\ IsFile(t.key)
    /\ t.client_cert => t.ca # ""
    /\ t.ca # "" => IsFile(t.ca)

TlsUsable(t) == t = NoTls \/ (validate(t) /\ rustls_server_config(t) # None)

Adapter(protocol, port, sockmap) ==
    [protocol |-> protocol, port |-> port, skip |-> settings.skip,
     cache |-> settings.cache, sockmap |-> sockmap, endpoint |-> build_resolver(env)]

(* TcpServer::start up to the first bind: TLS, the sockmap, which is done  *)
(* without where it cannot be loaded, and an adapter for every port.       *)
StartTcp ==
    /\ main = "start" /\ settings.protocol = "tcp" /\ TlsUsable(settings.tls)
    /\ acceptor' = (IF settings.tls = NoTls THEN None ELSE rustls_server_config(settings.tls))
    /\ \E sockmap \in {settings.object = "good", FALSE} :
           adapters' = [port \in {settings.ports[i] : i \in 1..Len(settings.ports)} |->
                            Adapter("tcp", port, sockmap)]
    /\ main' = "bind"
    /\ UNCHANGED <<env, code, interrupted, settings, loopVars>>

StartFails ==
    /\ main = "start" /\ settings.protocol = "tcp" /\ ~TlsUsable(settings.tls)
    /\ Exit(1)

StartOther ==
    /\ main = "start" /\ settings.protocol # "tcp"
    /\ main' = "bind"
    /\ UNCHANGED <<env, code, interrupted, settings, acceptor, adapters, loopVars>>

(* A port may be bound twice only with SO_REUSEPORT, which the HTTP server *)
(* sets for more than one worker.                                          *)
Conflict ==
    /\ ~settings.reuse_port
    /\ \E i \in 1..bound : Open(i) /\ settings.ports[i] = settings.ports[bound + 1]

(* Where the task of a new listener begins: the adapter of an HTTP worker  *)
(* and of the SMTP server is built after the bind.                         *)
Begun == IF settings.protocol = "tcp" THEN "accept" ELSE "init"

Bind ==
    /\ main = "bind" /\ bound < Len(settings.ports) /\ ~Conflict
    /\ bound' = bound + 1
    /\ task' = [task EXCEPT ![bound + 1] = Begun]
    /\ UNCHANGED <<processVars, adapters, errors, client>>

(* start returns the error; the tasks it spawned run on until main exits.  *)
BindFails ==
    /\ main = "bind" /\ bound < Len(settings.ports)
    /\ main' = "failing"
    /\ UNCHANGED <<env, code, interrupted, settings, acceptor, adapters, loopVars>>

Serve ==
    /\ main = "bind" /\ bound = Len(settings.ports)
    /\ main' = "serve"
    /\ UNCHANGED <<env, code, interrupted, settings, acceptor, adapters, loopVars>>

(* start has failed, all its tasks are over, or ctrl_c won the select.     *)
Leave ==
    \/ main = "failing" /\ Exit(1)
    \/ main = "serve" /\ ~(\E i \in Slot : Open(i)) /\ Exit(0)
    \/ main \in {"bind", "serve"} /\ interrupted /\ Exit(0)

(* Until the select has polled ctrl_c the signal kills the process.        *)
Interrupt ==
    \/ Running /\ main # "serve" /\ Exit(130)
    \/ /\ main \in {"bind", "serve"} /\ ~interrupted
       /\ interrupted' = TRUE
       /\ UNCHANGED <<env, main, code, settings, acceptor, adapters, loopVars>>

-----------------------------------------------------------------------------
(* The accept loops.                                                       *)

KeyOf(i) == IF settings.protocol = "tcp" THEN settings.ports[i] ELSE i

(* run_worker and build_adapter: the adapter, its settings and the hook,   *)
(* all before the first accept.                                            *)
WorkerReady(i) ==
    /\ task[i] = "init"
    /\ adapters' = [k \in DOMAIN adapters \cup {i} |->
                       IF k = i THEN Adapter(settings.protocol, settings.ports[i], FALSE)
                       ELSE adapters[k]]
    /\ task' = [task EXCEPT ![i] = "accept"]
    /\ UNCHANGED <<processVars, bound, errors, client>>

(* worker_start panics: the task is over and its listener closed, or the   *)
(* process is over.                                                        *)
HookPanics(i) ==
    /\ task[i] = "init" /\ settings.protocol = "http" /\ env.hook
    /\ \/ /\ task' = [task EXCEPT ![i] = "panicked"]
          /\ client' = [c \in Client |-> IF client[c].at = "queued" /\ client[c].via = i
                                         THEN [client[c] EXCEPT !.at = "cut"] ELSE client[c]]
          /\ UNCHANGED <<processVars, adapters, bound, errors>>
       \/ Exit(134)

(* A client connects: the kernel queues it at one of the open listeners.   *)
Arrive(c, i) ==
    /\ client[c].at = "away" /\ Open(i)
    /\ client' = [client EXCEPT ![c] = [at |-> "queued", via |-> i, adapter |-> None]]
    /\ UNCHANGED <<processVars, adapters, bound, task, errors>>

(* accept, the socket options, whose failure is only logged, and a task    *)
(* for the connection; the TCP server looks the adapter up by port and     *)
(* drops the connection when there is none.                                *)
Accept(i, c) ==
    /\ task[i] = "accept" /\ client[c].at = "queued" /\ client[c].via = i
    /\ client' = [client EXCEPT ![c] =
           IF KeyOf(i) \in DOMAIN adapters
           THEN [at |-> "served", via |-> i, adapter |-> adapters[KeyOf(i)]]
           ELSE [@ EXCEPT !.at = "dropped"]]
    /\ UNCHANGED <<processVars, adapters, bound, task, errors>>

(* Whether a connection's request for TLS is answered.  Others, and those  *)
(* that do not ask, are relayed in the clear.                              *)
Upgrades(i) == settings.ports[i] = 5432 /\ acceptor # None

(* The TCP server pauses, the others try again at once.                    *)
AcceptFails(i) ==
    /\ task[i] = "accept" /\ errors < MaxErrors
    /\ errors' = errors + 1
    /\ task' = [task EXCEPT ![i] = IF settings.protocol = "tcp" THEN "sleep" ELSE "accept"]
    /\ UNCHANGED <<processVars, adapters, bound, client>>

Wake(i) ==
    /\ task[i] = "sleep"
    /\ task' = [task EXCEPT ![i] = "accept"]
    /\ UNCHANGED <<processVars, adapters, bound, errors, client>>

(* The connection's task ends.                                             *)
Finish(c) ==
    /\ client[c].at = "served"
    /\ client' = [client EXCEPT ![c].at = "done"]
    /\ UNCHANGED <<processVars, adapters, bound, task, errors>>

(* It panics, and the process aborts; where it does not, Finish is all.    *)
Abort(c) == client[c].at = "served" /\ settings.protocol = "http" /\ Exit(134)

-----------------------------------------------------------------------------
Main == Configure \/ ConfigureFails \/ StartTcp \/ StartFails \/ StartOther
          \/ Bind \/ BindFails \/ Serve \/ Leave

Loop(i) == WorkerReady(i) \/ Wake(i) \/ (\E c \in Client : Accept(i, c))

StartupStep ==
    \/ Main \/ Interrupt
    \/ \E i \in Slot : Loop(i) \/ HookPanics(i) \/ AcceptFails(i)
                         \/ (\E c \in Client : Arrive(c, i))

StartupNext == StartupStep \/ (\E c \in Client : Finish(c) \/ Abort(c))

StartupSpec == StartupInit /\ [][StartupNext]_startupVars

-----------------------------------------------------------------------------
(* Properties.                                                             *)

(* Whoever is served, however early in the start-up and whichever listener *)
(* took the connection, is served by the adapter of the port connected to, *)
(* complete with its settings: no connection is dropped for want of an     *)
(* adapter, validation is off only where the environment says so in so     *)
(* many words, and the sockmap is there only when its object was loaded    *)
(* (tcp/server.rs 80-118, 198-202; http/server.rs 86-103; smtp/server.rs   *)
(* 52-57).                                                                 *)
HandledAsConfigured ==
    \A c \in Client :
        /\ client[c].at # "dropped"
        /\ client[c].at \in {"served", "done"} =>
              LET a == client[c].adapter
              IN  /\ a.protocol = resolve_protocol(env)
                  /\ a.port = settings.ports[client[c].via]
                  /\ a.skip <=> env.skip = "true"
                  /\ a.endpoint = "given" <=> env.endpoint = "given"
                  /\ a.sockmap => env.sockmap = "true" /\ env.object = "good"

(* A TCP server that was asked for TLS and cannot have it does not start:  *)
(* no port opens unless the files are all good and the acceptor, if client *)
(* certificates are required, checks them.  The part of the code that      *)
(* would leave the check out (tls/context.rs 36-50) is never reached       *)
(* without a CA (tls/mod.rs 91-96).  Which connections then use the        *)
(* acceptor is another matter: see Upgrades.                               *)
FailsClosed ==
    (\E i \in Slot : Open(i)) /\ resolve_protocol(env) = "tcp" /\ env.tls = "true" =>
        /\ env.certificate = "good" /\ env.key = "good" /\ acceptor # None
        /\ env.client_cert = "true" => env.ca = "good" /\ acceptor.verifies

(* What the documentation says of TLS termination: PostgreSQL's and        *)
(* MySQL's handshakes are both supported (src/README.md 215).              *)
TlsOnEveryPort ==
    \A c \in Client :
        client[c].at = "served" /\ settings.protocol = "tcp" /\ env.tls = "true" =>
            Upgrades(client[c].via)

(* The server does not settle for some of its ports: when start has done   *)
(* binding, each configured port has a listener whose loop was started     *)
(* (tcp/server.rs 111-118, http/server.rs 52-71).                          *)
ServesEveryPort ==
    main = "serve" => \A i \in 1..Len(settings.ports) : task[i] # "none"

(* A client in the queue of a listener is taken from it, whatever accepts  *)
(* fail before, unless the process or the worker behind it ends            *)
(* (tcp/server.rs 169-189, http/server.rs 105-112, smtp/server.rs 59-66).  *)
ClientServed ==
    \A c \in Client :
        client[c].at = "queued" ~>
            \/ client[c].at \in {"served", "done"} \/ main = "exited"
            \/ \E i \in Slot : client[c].via = i /\ task[i] = "panicked"

(* An interrupt, and a port that cannot be bound, end the process, whoever *)
(* is connected by then (main.rs 318-324, 366-372, 395-401, 429-435).      *)
ShutsDown == (interrupted \/ main = "failing") ~> main = "exited"
=============================================================================
