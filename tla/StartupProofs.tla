---------------------------- MODULE StartupProofs ----------------------------
(***************************************************************************)
(* The safety properties of Startup for every environment, any number of   *)
(* listeners and clients, and any number of failing accepts; of the        *)
(* request of HttpRaw for all bodies and sizes of reads; and of HttpServer *)
(* which composes the two.                                                 *)
(***************************************************************************)
EXTENDS HttpServer, SequenceTheorems, TLAPS

(* What an adapter must look like that serves connections to a port.       *)
Conforms(a, port) ==
    /\ a.protocol = resolve_protocol(env)
    /\ a.port = port
    /\ a.skip <=> env.skip = "true"
    /\ a.endpoint = "given" <=> env.endpoint = "given"
    /\ a.sockmap => env.sockmap = "true" /\ env.object = "good"

(* A TLS configuration is settled before the first listener is bound.      *)
TlsSettled ==
    main \in {"bind", "serve", "failing"} /\ settings.protocol = "tcp" =>
        /\ TlsUsable(settings.tls)
        /\ acceptor = (IF settings.tls = NoTls THEN None ELSE rustls_server_config(settings.tls))

Alive == main \in {"start", "bind", "serve", "failing"}

(* The listeners bound so far are those of the first configured ports.     *)
Listeners ==
    /\ bound \in Nat
    /\ main \in {"main", "start"} => bound = 0 /\ adapters = <<>>
    /\ \A i \in Slot : task[i] # "none" => Alive /\ i <= bound
    /\ Alive => bound <= Len(settings.ports) /\ \A i \in 1..bound : task[i] # "none"
    /\ main = "serve" => bound = Len(settings.ports)

(* A listener that accepts has its adapter, which is the one of its port.  *)
AdaptersReady ==
    \A i \in 1..Len(settings.ports) :
        /\ KeyOf(i) \in DOMAIN adapters => Conforms(adapters[KeyOf(i)], settings.ports[i])
        /\ task[i] \in {"accept", "sleep"} => KeyOf(i) \in DOMAIN adapters
        /\ settings.protocol = "tcp" =>
              task[i] # "init" /\ (main # "start" => KeyOf(i) \in DOMAIN adapters)

Connections ==
    /\ client = [c \in Client |-> client[c]]
    /\ \A c \in Client :
          /\ client[c] = [at |-> client[c].at, via |-> client[c].via,
                          adapter |-> client[c].adapter]
          /\ client[c].at \in {"away", "queued", "served", "done", "cut"}
          /\ client[c].at # "away" => main \notin {"main", "start"}
          /\ client[c].at \in {"served", "done"} =>
                Conforms(client[c].adapter, settings.ports[client[c].via])

(* Why the properties hold: the settings are those of the environment from *)
(* Configure on; nobody listens before TLS is settled; a listener that     *)
(* accepts has its adapter, which conforms; the listeners bound so far are *)
(* the first ones of the configured ports.                                 *)
IInv ==
    /\ env \in Environment
    /\ main \in {"main", "start", "bind", "serve", "failing", "exited"}
    /\ task \in [Slot -> {"none", "init", "accept", "sleep", "panicked"}]
    /\ Alive =>
          /\ settings = Settings(env) /\ resolve_protocol(env) \in Protocols
          /\ resolve_protocol(env) = "tcp" => ~TlsIncomplete(env)
    /\ Listeners
    /\ TlsSettled
    /\ Alive => AdaptersReady
    /\ Connections

-----------------------------------------------------------------------------
LEMMA EnvironmentTypes ==
  ASSUME NEW e \in Environment
  PROVE  /\ e.postgres \in Int \cup {None} /\ e.mysql \in Int \cup {None}
         /\ e.workers \in Nat \cup {None}
         /\ e.skip \in Switch /\ e.tls \in Switch /\ e.client_cert \in Switch
         /\ e.sockmap \in Switch /\ e.endpoint \in {"", "given"}
  BY StartupAssumption, Zenon

LEMMA PortsAreSequences ==
  ASSUME NEW e \in Environment
  PROVE  Settings(e).ports \in Seq(Int)
<1>1. \A n \in Nat : [i \in 1..n |-> 8080] \in Seq(Int)
  BY SeqDef
<1>2. HttpWorkers(e) \in Nat
  <2>1. env_usize(e.workers, Cpus * 2) \in Nat
    <3>1. Cpus * 2 \in Nat
      <4>1. Cpus \in Nat \ {0}
        BY StartupAssumption, Zenon
      <4>. QED  BY <4>1
    <3>2. CASE e.workers = None
      BY <3>1, <3>2, Zenon DEF env_usize
    <3>3. CASE e.workers # None
      BY <3>3, EnvironmentTypes, Zenon DEF env_usize
    <3>. QED  BY <3>2, <3>3, Zenon
  <2>. QED  BY <2>1, Zenon DEF HttpWorkers
<1>3. TcpPorts(e) \in Seq(Int)
  <2>1. 0..(2^16 - 1) \subseteq Int
    OBVIOUS
  <2>2. env_u16(e.postgres, 5432) \in Int /\ env_u16(e.mysql, 3306) \in Int
    BY <2>1 DEF env_u16
  <2>. QED  BY <2>2 DEF TcpPorts
<1>. QED
  BY <1>1, <1>2, <1>3 DEF Settings, TcpSettings, HttpSettings, SmtpSettings,
     TcpDefault, HttpDefault, SmtpDefault

(* What start finds in its configuration.                                  *)
LEMMA SettingsFollow ==
  ASSUME NEW e \in Environment, resolve_protocol(e) \in Protocols
  PROVE  /\ Settings(e).protocol = resolve_protocol(e)
         /\ Settings(e).skip <=> e.skip = "true"
         /\ Settings(e).object = "good" => e.sockmap = "true" /\ e.object = "good"
         /\ resolve_protocol(e) = "tcp" => Settings(e).tls = build_tls(e)
         /\ build_resolver(e) = "given" <=> e.endpoint = "given"
         /\ Len(Settings(e).ports) \in Nat
         /\ DOMAIN Settings(e).ports = 1..Len(Settings(e).ports)
         /\ 1..Len(Settings(e).ports) \subseteq Slot
<1>0. env_bool(e.skip, FALSE) <=> e.skip = "true"
  BY EnvironmentTypes, Zenon DEF env_bool, Switch
<1>1. /\ Settings(e).protocol = resolve_protocol(e)
      /\ Settings(e).skip = env_bool(e.skip, FALSE)
      /\ resolve_protocol(e) = "tcp" => Settings(e).tls = build_tls(e)
  BY DEF Settings, TcpSettings, HttpSettings, SmtpSettings,
     TcpDefault, HttpDefault, SmtpDefault, Protocols
<1>2. Settings(e).object = "good" => e.sockmap = "true" /\ e.object = "good"
  <2>1. env_bool(e.sockmap, FALSE) <=> e.sockmap = "true"
    BY EnvironmentTypes, Zenon DEF env_bool, Switch
  <2>2. TcpSettings(e).object = IF env_bool(e.sockmap, FALSE) THEN e.object ELSE ""
    BY DEF TcpSettings, TcpDefault
  <2>3. HttpSettings(e).object = ""
    BY DEF HttpSettings, HttpDefault
  <2>4. SmtpSettings(e).object = ""
    BY DEF SmtpSettings, SmtpDefault
  <2>. QED  BY <2>1, <2>2, <2>3, <2>4 DEF Settings
<1>3. build_resolver(e) = "given" <=> e.endpoint = "given"
  <2>1. endpoint_default[resolve_protocol(e)] # "given"
    BY DEF endpoint_default, Protocols
  <2>. QED  BY <2>1, EnvironmentTypes, Zenon DEF build_resolver, env_string
<1>4. /\ Len(Settings(e).ports) \in Nat
      /\ DOMAIN Settings(e).ports = 1..Len(Settings(e).ports)
  BY PortsAreSequences
<1>. QED  BY <1>0, <1>1, <1>2, <1>3, <1>4, SlotAssumption, Zenon

LEMMA InitInv == StartupInit => IInv
<1>. SUFFICES ASSUME StartupInit  PROVE IInv
  BY Zenon
<1>1. Listeners /\ TlsSettled /\ Connections /\ ~Alive
  BY Zenon DEF StartupInit, Listeners, TlsSettled, Connections, Alive, Away
<1>. QED  BY <1>1, Zenon DEF StartupInit, IInv

(* What holds of the settings once they are made.                          *)
LEMMA SettingsKnown ==
  ASSUME IInv, Alive
  PROVE  /\ settings = Settings(env) /\ env \in Environment
         /\ settings.protocol = resolve_protocol(env)
         /\ settings.skip <=> env.skip = "true"
         /\ settings.object = "good" => env.sockmap = "true" /\ env.object = "good"
         /\ resolve_protocol(env) = "tcp" => settings.tls = build_tls(env)
         /\ build_resolver(env) = "given" <=> env.endpoint = "given"
         /\ Len(settings.ports) \in Nat
         /\ DOMAIN settings.ports = 1..Len(settings.ports)
         /\ 1..Len(settings.ports) \subseteq Slot
<1>1. settings = Settings(env) /\ env \in Environment /\ resolve_protocol(env) \in Protocols
  BY Zenon DEF IInv
<1>. QED  BY <1>1, SettingsFollow

(* The end of the process, from wherever it is.                            *)
LEMMA ExitInv == ASSUME IInv, NEW status, Exit(status)  PROVE IInv'
<1>1. Listeners' /\ TlsSettled' /\ ~Alive'
  BY Zenon DEF IInv, Listeners, TlsSettled, Alive, Exit
<1>2. Connections'
  BY DEF IInv, Connections, Exit, Away, Conforms
<1>. QED  BY <1>1, <1>2, Zenon DEF IInv, Exit

LEMMA ConfigureInv == ASSUME IInv, Configure  PROVE IInv'
<1>1. settings' = Settings(env)' /\ resolve_protocol(env)' \in Protocols /\ env' \in Environment
  BY Zenon DEF IInv, Configure
<1>2. Len(settings'.ports) \in Nat
  BY <1>1, SettingsFollow DEF Configure
<1>3. Listeners'
  BY <1>2 DEF IInv, Configure, Listeners, loopVars, Alive
<1>4. Connections'
  BY Zenon DEF IInv, Configure, Connections, loopVars
<1>5. AdaptersReady'
  <2>. SUFFICES ASSUME NEW i \in 1..Len(settings'.ports)
                PROVE  task'[i] = "none" /\ DOMAIN adapters' = {}
    BY Zenon DEF AdaptersReady, Configure
  <2>1. i \in Slot
    BY <1>1, SettingsFollow DEF Configure
  <2>. QED  BY <2>1 DEF IInv, Listeners, Configure, loopVars, Slot
<1>6. resolve_protocol(env)' = "tcp" => ~TlsIncomplete(env)'
  BY Zenon DEF Configure
<1>. QED  BY <1>1, <1>3, <1>4, <1>5, <1>6, Zenon DEF IInv, Configure, loopVars, TlsSettled

LEMMA StartTcpInv == ASSUME IInv, StartTcp  PROVE IInv'
<1>1. Alive /\ Alive'
  BY Zenon DEF StartTcp, Alive
<1>2. Listeners' /\ Connections'
  BY <1>1 DEF IInv, StartTcp, Listeners, Connections, loopVars, Conforms
<1>3. TlsSettled'
  BY Zenon DEF StartTcp, TlsSettled, TlsUsable, validate, rustls_server_config
<1>4. AdaptersReady'
  <2>. SUFFICES ASSUME NEW i \in 1..Len(settings.ports)
                PROVE  /\ KeyOf(i)' \in DOMAIN adapters'
                       /\ Conforms(adapters[KeyOf(i)], settings.ports[i])'
                       /\ task'[i] = "none"
    BY Zenon DEF AdaptersReady, StartTcp
  <2>1. i \in Slot /\ KeyOf(i)' = settings.ports[i]
    BY <1>1, SettingsKnown, Zenon DEF StartTcp, KeyOf
  <2>2. PICK sockmap \in {settings.object = "good", FALSE} :
           adapters' = [port \in {settings.ports[k] : k \in 1..Len(settings.ports)} |->
                            Adapter("tcp", port, sockmap)]
    BY Zenon DEF StartTcp
  <2>3. adapters'[settings.ports[i]] = Adapter("tcp", settings.ports[i], sockmap)
    BY <2>2, Zenon
  <2>4. Conforms(Adapter("tcp", settings.ports[i], sockmap), settings.ports[i])
    BY <1>1, SettingsKnown, Zenon DEF StartTcp, Conforms, Adapter
  <2>5. task'[i] = "none"
    BY <2>1 DEF IInv, Listeners, StartTcp, loopVars, Slot
  <2>. QED  BY <2>1, <2>2, <2>3, <2>4, <2>5 DEF Conforms, StartTcp
<1>. QED  BY <1>1, <1>2, <1>3, <1>4, Zenon DEF IInv, StartTcp, loopVars, Settings

(* What an adapter is kept under, and what it must look like, stay.        *)
LEMMA SameKeys ==
  ASSUME UNCHANGED <<env, settings>>
  PROVE  /\ \A i : KeyOf(i)' = KeyOf(i)
         /\ \A a, port : Conforms(a, port)' <=> Conforms(a, port)
BY Zenon DEF KeyOf, Conforms

(* The listeners keep their adapters while neither moves.                  *)
LEMMA AdaptersStay ==
  ASSUME AdaptersReady, UNCHANGED <<env, settings, adapters, task>>,
         settings.protocol = "tcp" /\ main = "start" => main' = "start"
  PROVE  AdaptersReady'
<1>. SUFFICES ASSUME NEW i \in 1..Len(settings.ports)
              PROVE  /\ KeyOf(i) \in DOMAIN adapters =>
                           Conforms(adapters[KeyOf(i)], settings.ports[i])
                     /\ task[i] \in {"accept", "sleep"} => KeyOf(i) \in DOMAIN adapters
                     /\ settings.protocol = "tcp" =>
                           task[i] # "init" /\ (main' # "start" => KeyOf(i) \in DOMAIN adapters)
  BY SameKeys, Zenon DEF AdaptersReady
<1>. QED  BY Zenon DEF AdaptersReady

LEMMA BindInv == ASSUME IInv, Bind  PROVE IInv'
<1>1. Alive /\ Alive'
  BY Zenon DEF Bind, processVars, Alive
<1>2. bound + 1 \in Slot /\ bound + 1 <= Len(settings.ports) /\ bound \in Nat
  BY <1>1, SettingsKnown DEF Bind, IInv, Listeners
<1>3. Begun \in {"accept", "init"} /\ (Begun = "accept" <=> settings.protocol = "tcp")
  BY Zenon DEF Begun
<1>4. Listeners'
  BY <1>1, <1>2, <1>3 DEF IInv, Bind, Listeners, processVars, Slot
<1>5. AdaptersReady'
  <2>. SUFFICES ASSUME NEW i \in 1..Len(settings.ports)
                PROVE  /\ KeyOf(i) \in DOMAIN adapters =>
                             Conforms(adapters[KeyOf(i)], settings.ports[i])
                       /\ task'[i] \in {"accept", "sleep"} => KeyOf(i) \in DOMAIN adapters
                       /\ settings.protocol = "tcp" =>
                             task'[i] # "init" /\ KeyOf(i) \in DOMAIN adapters
    BY SameKeys, Zenon DEF Bind, AdaptersReady, processVars
  <2>1. i \in Slot /\ main = "bind" /\ AdaptersReady
    BY <1>1, SettingsKnown DEF Bind, IInv
  <2>2. task'[i] = task[i] \/ task'[i] = Begun
    BY <2>1, Zenon DEF Bind, IInv
  <2>. QED  BY <1>3, <2>1, <2>2, Zenon DEF AdaptersReady
<1>6. Connections' /\ TlsSettled'
  BY Zenon DEF IInv, Bind, Connections, TlsSettled, processVars, Conforms
<1>. QED  BY <1>1, <1>2, <1>3, <1>4, <1>5, <1>6, Zenon DEF IInv, Bind, processVars

(* The steps of main that change nothing but main itself.                  *)
LEMMA MainInv == ASSUME IInv, StartOther \/ BindFails \/ Serve  PROVE IInv'
<1>1. Alive /\ Alive' /\ UNCHANGED <<env, settings, acceptor, adapters, loopVars>>
  BY Zenon DEF StartOther, BindFails, Serve, Alive
<1>2. Listeners'
  BY <1>1, Zenon DEF IInv, Listeners, loopVars, StartOther, BindFails, Serve
<1>3. AdaptersReady'
  BY <1>1, AdaptersStay, Zenon DEF IInv, loopVars, StartOther, BindFails, Serve
<1>4. Connections' /\ TlsSettled'
  BY <1>1 DEF IInv, Connections, TlsSettled, loopVars, Conforms, StartOther, BindFails, Serve
<1>. QED  BY <1>1, <1>2, <1>3, <1>4, Zenon DEF IInv, loopVars, StartOther, BindFails, Serve

(* A loop runs only while the process does, at one of the bound ports.     *)
LEMMA LoopAlive ==
  ASSUME IInv, NEW i \in Slot, task[i] # "none"
  PROVE  Alive /\ i \in 1..bound /\ i \in 1..Len(settings.ports)
<1>1. Alive /\ i <= bound /\ bound <= Len(settings.ports) /\ bound \in Nat
  BY Zenon DEF IInv, Listeners
<1>2. Len(settings.ports) \in Nat
  BY <1>1, SettingsKnown, Zenon
<1>. QED  BY <1>1, <1>2 DEF Slot

LEMMA WorkerReadyInv == ASSUME IInv, NEW i \in Slot, WorkerReady(i)  PROVE IInv'
<1>1. Alive /\ Alive' /\ i \in 1..Len(settings.ports) /\ main \notin {"main", "start"}
  BY LoopAlive DEF WorkerReady, processVars, Alive, IInv, Listeners, Slot
<1>2. settings.protocol # "tcp"
  BY <1>1, Zenon DEF IInv, AdaptersReady, WorkerReady
<1>3. Listeners'
  <2>1. \A k \in Slot : task'[k] # "none" <=> task[k] # "none"
    BY Zenon DEF IInv, WorkerReady
  <2>2. 1..bound \subseteq Slot
    BY <1>1, SettingsKnown DEF IInv, Listeners
  <2>. QED  BY <1>1, <2>1, <2>2, Zenon DEF IInv, WorkerReady, Listeners, processVars
<1>5. Connections' /\ TlsSettled'
  BY DEF IInv, WorkerReady, Connections, TlsSettled, processVars, Conforms
<1>4. AdaptersReady'
  <2>1. Conforms(Adapter(settings.protocol, settings.ports[i], FALSE), settings.ports[i])
    BY <1>1, SettingsKnown, Zenon DEF Conforms, Adapter
  <2>2. \A k : KeyOf(k) = k /\ KeyOf(k)' = k
    BY <1>2, Zenon DEF KeyOf, WorkerReady, processVars
  <2>. SUFFICES ASSUME NEW k \in 1..Len(settings.ports)
                PROVE  /\ k \in DOMAIN adapters' => Conforms(adapters[k], settings.ports[k])'
                       /\ task'[k] \in {"accept", "sleep"} => k \in DOMAIN adapters'
    BY <1>2, <2>2, Zenon DEF AdaptersReady, WorkerReady, processVars
  <2>3. CASE k = i
    BY <1>1, <2>1, <2>3, Zenon DEF WorkerReady, processVars, Conforms
  <2>4. CASE k # i
    <3>1. /\ k \in DOMAIN adapters' <=> k \in DOMAIN adapters
          /\ k \in DOMAIN adapters => adapters'[k] = adapters[k]
          /\ task'[k] = task[k]
      BY <2>4 DEF WorkerReady, IInv
    <3>2. /\ k \in DOMAIN adapters => Conforms(adapters[k], settings.ports[k])
          /\ task[k] \in {"accept", "sleep"} => k \in DOMAIN adapters
      BY <1>1, <2>2 DEF IInv, AdaptersReady
    <3>. QED  BY <3>1, <3>2, Zenon DEF WorkerReady, processVars, Conforms
  <2>. QED  BY <2>3, <2>4, Zenon
<1>. QED  BY <1>1, <1>3, <1>4, <1>5, Zenon DEF IInv, WorkerReady, processVars

(* Steps of a loop that leave adapters and clients as they are.            *)
LEMMA LoopInv == ASSUME IInv, NEW i \in Slot, AcceptFails(i) \/ Wake(i)  PROVE IInv'
<1>1. Alive /\ i \in 1..Len(settings.ports) /\ UNCHANGED <<processVars, adapters, bound, client>>
  BY LoopAlive, Zenon DEF AcceptFails, Wake
<1>2. PICK to \in {"sleep", "accept"} : task' = [task EXCEPT ![i] = to]
  BY Zenon DEF AcceptFails, Wake
<1>3. KeyOf(i) \in DOMAIN adapters /\ task[i] # "none"
  BY <1>1, Zenon DEF IInv, AdaptersReady, AcceptFails, Wake
<1>4. Listeners' /\ Connections' /\ TlsSettled'
  BY <1>1, <1>2, <1>3 DEF IInv, Listeners, Connections, TlsSettled, processVars, Conforms, Alive
<1>5. AdaptersReady'
  <2>. SUFFICES ASSUME NEW k \in 1..Len(settings.ports)
                PROVE  /\ KeyOf(k) \in DOMAIN adapters =>
                             Conforms(adapters[KeyOf(k)], settings.ports[k])
                       /\ task'[k] \in {"accept", "sleep"} => KeyOf(k) \in DOMAIN adapters
                       /\ settings.protocol = "tcp" =>
                             task'[k] # "init" /\ (main # "start" => KeyOf(k) \in DOMAIN adapters)
    BY <1>1, SameKeys, Zenon DEF AdaptersReady, processVars
  <2>1. AdaptersReady
    BY <1>1, Zenon DEF IInv
  <2>2. CASE k = i
    <3>1. task'[k] \in {"accept", "sleep"}
      BY <1>2, <2>2, Zenon DEF IInv
    <3>2. task'[k] # "init"
      BY <3>1
    <3>. QED  BY <1>3, <2>1, <2>2, <3>2, Zenon DEF AdaptersReady
  <2>3. CASE k # i
    <3>1. task'[k] = task[k]
      BY <1>1, <1>2, <2>3, SettingsKnown, Zenon DEF IInv
    <3>. QED  BY <2>1, <3>1, Zenon DEF AdaptersReady
  <2>. QED  BY <2>2, <2>3, Zenon
<1>. QED  BY <1>1, <1>2, <1>4, <1>5, Zenon DEF IInv, processVars, Alive

LEMMA HookPanicsInv == ASSUME IInv, NEW i \in Slot, HookPanics(i)  PROVE IInv'
<1>0. CASE Exit(134)
  BY <1>0, ExitInv
<1> DEFINE Cut(c) == IF client[c].at = "queued" /\ client[c].via = i
                     THEN [client[c] EXCEPT !.at = "cut"] ELSE client[c]
<1>. SUFFICES ASSUME task' = [task EXCEPT ![i] = "panicked"],
                     client' = [c \in Client |-> Cut(c)],
                     UNCHANGED <<processVars, adapters, bound, errors>>
              PROVE  IInv'
  BY <1>0, Zenon DEF HookPanics
<1>5. task[i] = "init" /\ settings.protocol = "http"
  BY Zenon DEF HookPanics
<1>1. Alive /\ Alive' /\ i \in 1..Len(settings.ports)
  BY <1>5, LoopAlive, Zenon DEF processVars, Alive
<1>2. Listeners' /\ TlsSettled'
  BY <1>1, <1>5 DEF IInv, Listeners, TlsSettled, processVars
<1>3. Connections'
  BY DEF IInv, Connections, processVars, Conforms
<1>4. AdaptersReady'
  BY <1>1, <1>5 DEF IInv, AdaptersReady, processVars, Conforms, KeyOf
<1>. QED  BY <1>1, <1>2, <1>3, <1>4, <1>5, Zenon DEF IInv, processVars

(* Nothing but the connections has moved.                                  *)
LEMMA Unmoved ==
  ASSUME IInv, Connections', UNCHANGED <<env, main, settings, acceptor, adapters, bound, task>>
  PROVE  IInv'
<1>1. Alive' <=> Alive
  BY Zenon DEF Alive
<1>2. Listeners'
  BY <1>1, Zenon DEF IInv, Listeners
<1>3. TlsSettled'
  BY Zenon DEF IInv, TlsSettled
<1>4. Alive => AdaptersReady'
  BY AdaptersStay, Zenon DEF IInv
<1>. QED  BY <1>1, <1>2, <1>3, <1>4, Zenon DEF IInv

LEMMA SameConnections ==
  ASSUME IInv, UNCHANGED <<env, main, settings, client>>
  PROVE  Connections'
BY Zenon DEF IInv, Connections, Conforms

(* Steps that change the place of one client only.                         *)
LEMMA ClientInv ==
  ASSUME IInv, NEW c \in Client,
         \/ Finish(c)
         \/ \E i \in Slot : Arrive(c, i) \/ Accept(i, c)
  PROVE  IInv'
<1>1. UNCHANGED <<processVars, adapters, bound, task, errors>>
  BY Zenon DEF Finish, Arrive, Accept
<1>2. Connections'
  <2>1. CASE Finish(c)
    BY <2>1 DEF IInv, Connections, Finish, processVars, Conforms
  <2>2. ASSUME NEW i \in Slot, Arrive(c, i)  PROVE Connections'
    <3>1. Alive /\ main # "start"
      BY <2>2, LoopAlive DEF Arrive, Open, IInv, Listeners
    <3>. QED  BY <2>2, <3>1 DEF IInv, Connections, Arrive, processVars, Conforms, Alive
  <2>3. ASSUME NEW i \in Slot, Accept(i, c)  PROVE Connections'
    <3>1. Alive /\ i \in 1..Len(settings.ports)
      BY <2>3, LoopAlive, Zenon DEF Accept
    <3>2. KeyOf(i) \in DOMAIN adapters /\ Conforms(adapters[KeyOf(i)], settings.ports[i])
      BY <2>3, <3>1, Zenon DEF IInv, AdaptersReady, Accept
    <3>3. client' = [client EXCEPT ![c] =
                        [at |-> "served", via |-> i, adapter |-> adapters[KeyOf(i)]]]
      BY <2>3, <3>2, Zenon DEF Accept
    <3>4. Conforms(adapters[KeyOf(i)], settings.ports[i])'
      BY <1>1, <3>2, Zenon DEF processVars, Conforms, KeyOf
    <3>5. /\ client'[c].at = "served" /\ client'[c].via = i
          /\ client'[c].adapter = adapters[KeyOf(i)]
          /\ client'[c] = [at |-> "served", via |-> i, adapter |-> adapters[KeyOf(i)]]
      BY <3>3, Zenon DEF IInv, Connections
    <3>6. \A d \in Client : d # c => client'[d] = client[d]
      BY <3>3, Zenon DEF IInv, Connections
    <3>7. client' = [d \in Client |-> client'[d]]
      BY <3>3, Zenon DEF IInv, Connections
    <3>8. KeyOf(i)' = KeyOf(i) /\ main' = main /\ main \notin {"main", "start"}
      BY <1>1, <2>3, LoopAlive DEF processVars, KeyOf, IInv, Connections, Accept
    <3>. QED  BY <1>1, <3>4, <3>5, <3>6, <3>7, <3>8 DEF IInv, Connections, processVars, Conforms
  <2>. QED  BY <2>1, <2>2, <2>3, Zenon
<1>. QED  BY <1>1, <1>2, Unmoved, Zenon DEF processVars

LEMMA NextInv == IInv /\ [StartupNext]_startupVars => IInv'
<1>. SUFFICES ASSUME IInv, [StartupNext]_startupVars  PROVE IInv'
  BY Zenon
<1>1. CASE Main
  BY <1>1, ConfigureInv, StartTcpInv, BindInv, MainInv, ExitInv, Zenon
     DEF Main, ConfigureFails, StartFails, Leave
<1>2. CASE Interrupt
  <2>1. CASE \E status : Exit(status)
    BY <2>1, ExitInv, Zenon
  <2>2. CASE UNCHANGED <<env, main, settings, acceptor, adapters, loopVars>>
    BY <2>2, Unmoved, SameConnections, Zenon DEF loopVars
  <2>. QED  BY <1>2, <2>1, <2>2, Zenon DEF Interrupt
<1>3. ASSUME NEW i \in Slot,
             Loop(i) \/ HookPanics(i) \/ AcceptFails(i) \/ (\E c \in Client : Arrive(c, i))
      PROVE  IInv'
  BY <1>3, WorkerReadyInv, LoopInv, HookPanicsInv, ClientInv, Zenon DEF Loop
<1>4. CASE \E c \in Client : Finish(c) \/ Abort(c)
  BY <1>4, ClientInv, ExitInv, Zenon DEF Abort
<1>5. CASE UNCHANGED startupVars
  BY <1>5, Unmoved, SameConnections, Zenon DEF startupVars, processVars, loopVars
<1>. QED  BY <1>1, <1>2, <1>3, <1>4, <1>5, Zenon DEF StartupNext, StartupStep

THEOREM Invariance == StartupSpec => []IInv
BY InitInv, NextInv, PTL DEF StartupSpec

-----------------------------------------------------------------------------
(* However early in the start-up a client is accepted, it is served, by    *)
(* the adapter of its port, complete with its settings (tcp/server.rs      *)
(* 80-118, 198-202; http/server.rs 86-103; smtp/server.rs 52-57).          *)
THEOREM AdapterIsConfigured == StartupSpec => []HandledAsConfigured
<1>1. IInv => HandledAsConfigured
  BY Zenon DEF IInv, Connections, Conforms, HandledAsConfigured
<1>. QED  BY <1>1, Invariance, PTL

(* A server asked for TLS that cannot have it, the check of client         *)
(* certificates included, opens no TCP port (tcp/server.rs 52-63,          *)
(* tls/mod.rs 74-101, tls/context.rs 36-50).                               *)
THEOREM TlsFailsClosed == StartupSpec => []FailsClosed
<1>1. IInv => FailsClosed
  <2>. SUFFICES ASSUME IInv, NEW i \in Slot, Open(i),
                       resolve_protocol(env) = "tcp", env.tls = "true"
                PROVE  /\ env.certificate = "good" /\ env.key = "good" /\ acceptor # None
                       /\ env.client_cert = "true" => env.ca = "good" /\ acceptor.verifies
    BY Zenon DEF FailsClosed
  <2>1. Alive /\ main # "start" /\ settings.protocol = "tcp" /\ settings.tls = build_tls(env)
    <3>1. Alive /\ i \in 1..bound
      BY LoopAlive, Zenon DEF Open
    <3>2. settings.protocol = "tcp" /\ settings.tls = build_tls(env)
      BY <3>1, SettingsKnown, Zenon
    <3>3. main # "start"
      BY <3>1 DEF IInv, Listeners
    <3>. QED  BY <3>1, <3>2, <3>3, Zenon
  <2>2. env_bool(env.tls, FALSE) /\ (env_bool(env.client_cert, FALSE) <=> env.client_cert = "true")
    BY EnvironmentTypes, Zenon DEF env_bool, IInv, Switch
  <2>4. settings.tls = [certificate |-> env.certificate, key |-> env.key, ca |-> env.ca,
                        client_cert |-> env_bool(env.client_cert, FALSE)]
    BY <2>1, <2>2, Zenon DEF build_tls
  <2>5. settings.tls # NoTls
    <3>1. env.certificate # ""
      BY <2>1, <2>2, SettingsKnown, Zenon DEF IInv, TlsIncomplete
    <3>2. settings.tls.certificate = env.certificate
      BY <2>4
    <3>3. NoTls.certificate = ""
      BY Zenon DEF NoTls
    <3>. QED  BY <3>1, <3>2, <3>3, Zenon
  <2>3. TlsUsable(settings.tls) /\ settings.tls # NoTls
    BY <2>1, <2>5, Zenon DEF IInv, TlsSettled, Alive
  <2>6. acceptor = rustls_server_config(settings.tls) /\ acceptor # None /\ validate(settings.tls)
    BY <2>1, <2>3, Zenon DEF IInv, TlsSettled, Alive, TlsUsable
  <2>7. acceptor.verifies = Verifies(settings.tls)
    BY <2>6, Zenon DEF rustls_server_config
  <2>8. /\ settings.tls.client_cert = env_bool(env.client_cert, FALSE)
        /\ settings.tls.ca = env.ca
        /\ settings.tls.certificate = env.certificate /\ settings.tls.key = env.key
    BY <2>4
  <2>9. /\ settings.tls.certificate = "good" /\ settings.tls.key = "good"
        /\ Verifies(settings.tls) => settings.tls.ca = "good"
    BY <2>6, Zenon DEF rustls_server_config
  <2>. QED  BY <2>2, <2>6, <2>7, <2>8, <2>9, Zenon DEF validate, Verifies
<1>. QED  BY <1>1, Invariance, PTL

(* When start has done binding, every configured port has a listener whose *)
(* loop was started (tcp/server.rs 111-118, http/server.rs 52-71).         *)
THEOREM EveryPortIsServed == StartupSpec => []ServesEveryPort
<1>1. IInv => ServesEveryPort
  BY Zenon DEF IInv, Listeners, Alive, ServesEveryPort
<1>. QED  BY <1>1, Invariance, PTL

-----------------------------------------------------------------------------
(* The request of HttpRaw.                                                 *)

(* The bytes of a stream after the first a of them, up to the b-th.        *)
Piece(s, a, b) == SubSeq(s, a + 1, b)

Stream == Reply(request, reply)

(* Where the bytes of the reply are, when p have been read and q sent.     *)
Flow(p, q) ==
    /\ arrived = Piece(Stream, p, q)
    /\ unsent = Piece(Stream, q, Len(Stream))

(* What the handler has read so far, for each of its phases: nothing, a    *)
(* beginning of the header, the header and a beginning of the body.        *)
Untold   == response = Nothing /\ reply.body \in Body /\ reply.length \in Nat
Idle     == phase = "idle" /\ response = Nothing /\ arrived = <<>> /\ buffer = <<>>
Unread   == /\ phase \in {"handle", "route", "pooled", "connect", "write"}
            /\ Untold /\ buffer = <<>> /\ Flow(0, 0)
InHeader == /\ phase = "head" /\ Untold
            /\ \E p \in 0..4 : \E q \in p..Len(Stream) :
                  buffer = Piece(Stream, 0, p) /\ Flow(p, q)
InBody   == /\ phase = "body" /\ Untold
            /\ \E p \in 5..Len(Stream) : \E q \in p..Len(Stream) :
                  body = Piece(Stream, 5, p) /\ Flow(p, q)
Over     == phase = "done" /\ WholeBody
Fallen   == phase = "panicked" /\ response = Nothing

RawInv == Idle \/ Unread \/ InHeader \/ InBody \/ Over \/ Fallen

Byte == {"b", "r", "n"}

LEMMA PieceFacts ==
  ASSUME NEW s \in Seq(Byte), NEW a \in 0..Len(s), NEW b \in a..Len(s)
  PROVE  /\ Piece(s, a, b) \in Seq(Byte) /\ Len(Piece(s, a, b)) = b - a
         /\ \A i \in 1..(b - a) : Piece(s, a, b)[i] = s[a + i]
<1>1. a \in Nat /\ b \in Nat /\ a <= b /\ b <= Len(s)
  BY LenProperties
<1>2. PICK m \in Int : m = a + 1
  BY <1>1
<1>3. \A i \in m..b : s[i] \in Byte
  BY <1>1, <1>2, ElementOfSeq
<1>4. PICK t : t = SubSeq(s, m, b)
  OBVIOUS
<1>5. t \in Seq(Byte) /\ Len(t) = (IF m <= b THEN b - m + 1 ELSE 0)
      /\ \A i \in 1..(b - m + 1) : t[i] = s[m + i - 1]
  BY <1>1, <1>3, <1>4, SubSeqProperties
<1>6. Len(t) = b - a /\ \A i \in 1..(b - a) : t[i] = s[a + i]
  BY <1>1, <1>2, <1>5
<1>. QED  BY <1>2, <1>4, <1>5, <1>6 DEF Piece

(* Equal sequences, byte by byte.                                          *)
LEMMA SamePiece ==
  ASSUME NEW s \in Seq(Byte), NEW a \in 0..Len(s), NEW b \in a..Len(s),
         NEW t \in Seq(Byte), Len(t) = b - a, \A i \in 1..(b - a) : t[i] = s[a + i]
  PROVE  t = Piece(s, a, b)
<1>1. PICK u \in Seq(Byte) : /\ u = Piece(s, a, b) /\ Len(u) = b - a
                             /\ \A i \in 1..(b - a) : u[i] = s[a + i]
  BY PieceFacts, Zenon
<1>2. Len(t) = Len(u) /\ \A i \in 1..Len(t) : t[i] = u[i]
  BY <1>1
<1>3. t = u
  BY <1>2, SeqEqual, Zenon
<1>. QED  BY <1>1, <1>3, Zenon

LEMMA PiecePiece ==
  ASSUME NEW s \in Seq(Byte), NEW a \in 0..Len(s), NEW b \in a..Len(s),
         NEW c \in 0..(b - a), NEW d \in c..(b - a)
  PROVE  Piece(Piece(s, a, b), c, d) = Piece(s, a + c, a + d)
<1>1. PICK u \in Seq(Byte) : /\ u = Piece(s, a, b) /\ Len(u) = b - a
                             /\ \A i \in 1..(b - a) : u[i] = s[a + i]
  BY PieceFacts, Zenon
<1>2. c \in 0..Len(u) /\ d \in c..Len(u)
  BY <1>1, Zenon
<1>3. PICK v \in Seq(Byte) : /\ v = Piece(u, c, d) /\ Len(v) = d - c
                             /\ \A i \in 1..(d - c) : v[i] = u[c + i]
  BY <1>2, PieceFacts, Zenon
<1>4. /\ a \in Nat /\ b \in Nat /\ c \in Nat /\ d \in Nat /\ Len(s) \in Nat
      /\ b <= Len(s) /\ d <= b - a /\ c <= d
  BY LenProperties
<1>5. a + c \in 0..Len(s) /\ a + d \in (a + c)..Len(s) /\ d - c = (a + d) - (a + c)
  BY <1>4
<1>6. \A i \in 1..(d - c) : v[i] = s[(a + c) + i]
  <2>. TAKE i \in 1..(d - c)
  <2>1. c + i \in 1..(b - a) /\ a + (c + i) = (a + c) + i
    BY <1>4
  <2>2. v[i] = u[c + i] /\ u[c + i] = s[a + (c + i)]
    BY <1>1, <1>3, <2>1, Zenon
  <2>. QED  BY <2>1, <2>2
<1>7. Len(v) = (a + d) - (a + c) /\ \A i \in 1..((a + d) - (a + c)) : v[i] = s[(a + c) + i]
  BY <1>3, <1>5, <1>6
<1>8. v = Piece(s, a + c, a + d)
  BY <1>5, <1>7, SamePiece, Zenon
<1>. QED  BY <1>1, <1>3, <1>8, Zenon

LEMMA PieceJoin ==
  ASSUME NEW s \in Seq(Byte), NEW a \in 0..Len(s), NEW b \in a..Len(s), NEW c \in b..Len(s)
  PROVE  Piece(s, a, b) \o Piece(s, b, c) = Piece(s, a, c)
<1>1. a + 1 \in 1..(Len(s) + 1) /\ b \in ((a + 1) - 1)..Len(s) /\ c \in b..Len(s)
  BY LenProperties
<1>. QED  BY <1>1, ConcatAdjacentSubSeq, Zenon DEF Piece

LEMMA AppendFacts ==
  ASSUME NEW t \in Seq(Byte), NEW x \in Byte
  PROVE  /\ Append(t, x) \in Seq(Byte) /\ Len(Append(t, x)) = Len(t) + 1
         /\ \A i \in 1..Len(t) : Append(t, x)[i] = t[i]
         /\ Append(t, x)[Len(t) + 1] = x
  OBVIOUS

LEMMA PieceNext ==
  ASSUME NEW s \in Seq(Byte), NEW a \in 0..Len(s), NEW b \in a..Len(s),
         Piece(s, b, Len(s)) # <<>>
  PROVE  /\ b + 1 \in a..Len(s)
         /\ Append(Piece(s, a, b), Head(Piece(s, b, Len(s)))) = Piece(s, a, b + 1)
         /\ Tail(Piece(s, b, Len(s))) = Piece(s, b + 1, Len(s))
<1>0. Len(s) \in Nat /\ a \in Nat /\ b \in Nat /\ a <= b /\ b <= Len(s)
  BY LenProperties
<1>1. b < Len(s)
  <2>1. CASE Len(s) < b + 1
    BY <1>0, <2>1, SubSeqEmpty DEF Piece
  <2>. QED  BY <1>0, <2>1
<1>2. b + 1 \in 1..Len(s) /\ Len(s) \in (b + 1)..Len(s)
  BY <1>0, <1>1
<1>3. Head(Piece(s, b, Len(s))) = s[b + 1] /\ Tail(Piece(s, b, Len(s))) = Piece(s, b + 1, Len(s))
  BY <1>2, HeadTailOfSubSeq, Zenon DEF Piece
<1>4. PICK t \in Seq(Byte) : /\ t = Piece(s, a, b) /\ Len(t) = b - a
                             /\ \A i \in 1..(b - a) : t[i] = s[a + i]
  <2>1. b \in a..Len(s)
    OBVIOUS
  <2>. QED  BY <2>1, PieceFacts, Zenon
<1>5. s[b + 1] \in Byte
  BY <1>2, ElementOfSeq, Zenon
<1>6. PICK u \in Seq(Byte) : /\ u = Append(t, s[b + 1]) /\ Len(u) = Len(t) + 1
                             /\ \A i \in 1..Len(t) : u[i] = t[i]
                             /\ u[Len(t) + 1] = s[b + 1]
  BY <1>5, AppendFacts, Zenon
<1>7. b + 1 \in a..Len(s) /\ Len(u) = (b + 1) - a
  BY <1>0, <1>1, <1>4, <1>6
<1>8. \A i \in 1..((b + 1) - a) : u[i] = s[a + i]
  <2>. TAKE i \in 1..((b + 1) - a)
  <2>1. CASE i \in 1..(b - a)
    BY <1>4, <1>6, <2>1
  <2>2. CASE i = (b - a) + 1
    BY <1>0, <1>4, <1>6, <2>2
  <2>3. i \in 1..(b - a) \/ i = (b - a) + 1
    BY <1>0
  <2>. QED  BY <2>1, <2>2, <2>3, Zenon
<1>9. u = Piece(s, a, b + 1)
  BY <1>7, <1>8, SamePiece, Zenon
<1>. QED  BY <1>3, <1>4, <1>6, <1>7, <1>9, Zenon

-----------------------------------------------------------------------------
(* The header is five bytes, and what follows is a beginning of the body.  *)
HasHeader(s) ==
    /\ Len(s) >= 5
    /\ s[1] = "b" /\ s[2] = "r" /\ s[3] = "n" /\ s[4] = "r" /\ s[5] = "n"

LEMMA StreamHeader ==
  ASSUME reply.body \in Body
  PROVE  Stream \in Seq(Byte) /\ HasHeader(Stream) /\ reply.body \in Seq(Byte)
<1>1. reply.body \in Seq(Byte)
  BY RawAssumption, Zenon DEF Byte
<1>2. PICK t \in Seq(Byte) : Stream = Header \o t
  <2>1. <<>> \in Seq(Byte)
    OBVIOUS
  <2>. QED  BY <1>1, <2>1, Zenon DEF Stream, Reply
<1>3. Header \in Seq(Byte) /\ Len(Header) = 5
  BY DEF Header, Byte
<1>4. /\ Header \o t \in Seq(Byte) /\ Len(Header \o t) = Len(Header) + Len(t)
      /\ \A i \in 1..(Len(Header) + Len(t)) :
            (Header \o t)[i] = IF i <= Len(Header) THEN Header[i] ELSE t[i - Len(Header)]
  BY <1>3, ConcatProperties, Zenon
<1>5. Len(t) \in Nat
  BY LenProperties, Zenon
<1>6. \A i \in 1..5 : (Header \o t)[i] = Header[i]
  BY <1>3, <1>4, <1>5
<1>7. Header[1] = "b" /\ Header[2] = "r" /\ Header[3] = "n" /\ Header[4] = "r" /\ Header[5] = "n"
  BY DEF Header
<1>8. HasHeader(Header \o t)
  BY <1>3, <1>4, <1>5, <1>6, <1>7 DEF HasHeader
<1>. QED  BY <1>1, <1>2, <1>4, <1>8, Zenon

LEMMA StreamBody ==
  ASSUME reply.body \in Body, NEW p \in 5..Len(Stream)
  PROVE  p - 5 \in 0..Len(reply.body) /\ Piece(Stream, 5, p) = SubSeq(reply.body, 1, p - 5)
<1>0. Stream \in Seq(Byte) /\ reply.body \in Seq(Byte) /\ Len(Stream) >= 5
  BY StreamHeader, Zenon DEF HasHeader
<1>1. Header \in Seq(Byte) /\ Len(Header) = 5
  BY DEF Header, Byte
<1>2. CASE request.method = "HEAD"
  <2>1. Stream = Header
    BY <1>1, <1>2, ConcatEmptySeq, Zenon DEF Stream, Reply
  <2>2. p = 5 /\ Len(reply.body) \in Nat
    <3>1. Len(reply.body) \in Nat
      BY <1>0, LenProperties, Zenon
    <3>2. p \in 5..5
      BY <1>1, <2>1, Zenon
    <3>. QED  BY <3>1, <3>2
  <2>3. SubSeq(Stream, 6, 5) = <<>> /\ SubSeq(reply.body, 1, 0) = <<>>
    BY SubSeqEmpty
  <2>. QED  BY <2>2, <2>3 DEF Piece
<1>3. CASE request.method # "HEAD"
  <2>1. Stream = Header \o reply.body
    BY <1>3, Zenon DEF Stream, Reply
  <2>2. /\ Len(Stream) = 5 + Len(reply.body)
        /\ \A i \in 1..(5 + Len(reply.body)) : i > 5 => Stream[i] = reply.body[i - 5]
    <3>1. /\ Len(Header \o reply.body) = Len(Header) + Len(reply.body)
          /\ \A i \in 1..(Len(Header) + Len(reply.body)) : (Header \o reply.body)[i] =
                IF i <= Len(Header) THEN Header[i] ELSE reply.body[i - Len(Header)]
      BY <1>0, <1>1, ConcatProperties, Zenon
    <3>. QED  BY <1>1, <2>1, <3>1
  <2>3. Len(reply.body) \in Nat /\ p \in Nat /\ 5 <= p /\ p <= 5 + Len(reply.body)
    BY <1>0, <2>2, LenProperties
  <2>4. p - 5 \in 0..Len(reply.body) /\ 0 \in 0..Len(reply.body) /\ 5 \in 0..Len(Stream)
    BY <2>2, <2>3
  <2>5. PICK t \in Seq(Byte) : /\ t = Piece(Stream, 5, p) /\ Len(t) = p - 5
                               /\ \A i \in 1..(p - 5) : t[i] = Stream[5 + i]
    BY <1>0, <2>4, PieceFacts, Zenon
  <2>6. \A i \in 1..(p - 5) : t[i] = reply.body[0 + i]
    BY <2>2, <2>3, <2>5
  <2>7. t = Piece(reply.body, 0, p - 5)
    <3>1. PICK r \in Seq(Byte) : r = reply.body
      BY <1>0, Zenon
    <3>2. PICK k : k = p - 5
      OBVIOUS
    <3>3. /\ 0 \in 0..Len(r) /\ k \in 0..Len(r) /\ Len(t) = k - 0
          /\ \A i \in 1..(k - 0) : t[i] = r[0 + i]
      BY <2>3, <2>4, <2>5, <2>6, <3>1, <3>2
    <3>4. t = Piece(r, 0, k)
      BY <3>3, SamePiece, Zenon
    <3>. QED  BY <3>1, <3>2, <3>4, Zenon
  <2>. QED  BY <2>4, <2>5, <2>7 DEF Piece
<1>. QED  BY <1>2, <1>3

LEMMA BlankLine ==
  ASSUME NEW u \in Seq(Byte), Len(u) = 4, u[1] = "r", u[2] = "n", u[3] = "r", u[4] = "n"
  PROVE  u = <<"r", "n", "r", "n">>
  OBVIOUS

LEMMA NoBlankLine ==
  ASSUME NEW u \in Seq(Byte), u[1] = "b"
  PROVE  u # <<"r", "n", "r", "n">>
  OBVIOUS

LEMMA FourBytes ==
  ASSUME NEW t \in Seq(Byte), NEW i \in 1..(Len(t) - 3)
  PROVE  /\ SubSeq(t, i, i + 3) \in Seq(Byte) /\ Len(SubSeq(t, i, i + 3)) = 4
         /\ \A k \in 1..4 : SubSeq(t, i, i + 3)[k] = t[i + k - 1]
<1>1. Len(t) \in Nat /\ i \in Int /\ i + 3 \in Int /\ 1 <= i /\ i + 3 <= Len(t)
  BY LenProperties
<1>2. \A k \in i..(i + 3) : t[k] \in Byte
  BY <1>1, ElementOfSeq
<1>3. PICK n \in Int : n = i + 3
  BY <1>1
<1>4. /\ SubSeq(t, i, n) \in Seq(Byte) /\ Len(SubSeq(t, i, n)) = (IF i <= n THEN n - i + 1 ELSE 0)
      /\ \A k \in 1..(n - i + 1) : SubSeq(t, i, n)[k] = t[i + k - 1]
  BY <1>1, <1>2, <1>3, SubSeqProperties
<1>5. n - i + 1 = 4 /\ i <= n
  BY <1>1, <1>3
<1>. QED  BY <1>3, <1>4, <1>5

LEMMA HeaderFound ==
  ASSUME NEW s \in Seq(Byte), HasHeader(s), NEW p \in 0..Len(s)
  PROVE  HeaderEnd(Piece(s, 0, p)) = IF p < 5 THEN 0 ELSE 5
<1>0. Len(s) \in Nat /\ 0 \in 0..Len(s) /\ p \in Nat /\ p <= Len(s) /\ 5 <= Len(s) /\ p - 0 = p
  BY LenProperties DEF HasHeader
<1>1. PICK t \in Seq(Byte) : t = Piece(s, 0, p) /\ Len(t) = p /\ \A i \in 1..p : t[i] = s[i]
  <2>1. /\ Piece(s, 0, p) \in Seq(Byte) /\ Len(Piece(s, 0, p)) = p - 0
        /\ \A i \in 1..(p - 0) : Piece(s, 0, p)[i] = s[0 + i]
    BY <1>0, PieceFacts, Zenon
  <2>2. \A i \in 1..p : 0 + i = i
    BY <1>0
  <2>. QED  BY <1>0, <2>1, <2>2, Zenon
<1> DEFINE Found == {i \in 1..(Len(t) - 3) : SubSeq(t, i, i + 3) = <<"r", "n", "r", "n">>}
<1>2. HeaderEnd(t) = IF Found = {} THEN 0 ELSE Min(Found) + 3
  BY Zenon DEF HeaderEnd
<1>4. 1 \notin Found
  <2>1. CASE 1 \in 1..(Len(t) - 3)
    <3>1. PICK u \in Seq(Byte) : /\ u = SubSeq(t, 1, 1 + 3)
                                 /\ \A k \in 1..4 : u[k] = t[1 + k - 1]
      BY <2>1, FourBytes, Zenon
    <3>2. u[1] = "b"
      BY <1>0, <1>1, <2>1, <3>1 DEF HasHeader
    <3>3. u # <<"r", "n", "r", "n">>
      BY <3>2, NoBlankLine, Zenon
    <3>. QED  BY <3>1, <3>3, Zenon
  <2>. QED  BY <2>1, Zenon
<1>5. CASE p < 5
  <2>1. Found = {}
    BY <1>0, <1>1, <1>4, <1>5
  <2>. QED  BY <1>1, <1>2, <1>5, <2>1
<1>6. CASE p >= 5
  <2>1. 2 \in Found
    <3>1. t[2] = "r" /\ t[3] = "n" /\ t[4] = "r" /\ t[5] = "n"
      BY <1>0, <1>1, <1>6 DEF HasHeader
    <3>2. 2 \in 1..(Len(t) - 3)
      BY <1>0, <1>1, <1>6
    <3>3. PICK u \in Seq(Byte) : /\ u = SubSeq(t, 2, 2 + 3) /\ Len(u) = 4
                                 /\ \A k \in 1..4 : u[k] = t[2 + k - 1]
      BY <3>2, FourBytes, Zenon
    <3>4. u[1] = "r" /\ u[2] = "n" /\ u[3] = "r" /\ u[4] = "n"
      BY <3>1, <3>3
    <3>5. u = <<"r", "n", "r", "n">>
      BY <3>3, <3>4, BlankLine, Zenon
    <3>. QED  BY <3>2, <3>3, <3>5, Zenon
  <2>2. \A i \in Found : 2 <= i
    BY <1>1, <1>4
  <2>3. Min(Found) = 2
    <3>1. \A x \in Found : (\A y \in Found : x =< y) => x = 2
      BY <2>1, <2>2, <1>0, <1>1
    <3> HIDE DEF Found
    <3>. QED  BY <2>1, <2>2, <3>1 DEF Min
  <2> HIDE DEF Found
  <2>. QED  BY <1>0, <1>1, <1>2, <1>6, <2>1, <2>3
<1>. QED  BY <1>0, <1>5, <1>6

LEMMA PieceEnds ==
  ASSUME NEW s \in Seq(Byte)
  PROVE  Piece(s, 0, 0) = <<>> /\ Piece(s, 0, Len(s)) = s /\ Len(s) \in Nat
<1>1. SubSeq(s, 1, 0) = <<>>
  BY SubSeqEmpty
<1>2. SubSeq(s, 1, Len(s)) = s /\ Len(s) \in Nat
  BY SubSeqFull, LenProperties, Zenon
<1>. QED  BY <1>1, <1>2 DEF Piece

-----------------------------------------------------------------------------
(* The steps of the request.                                               *)

LEMMA DroppedInv == Dropped => RawInv'
  BY Zenon DEF Dropped, RawInv, Idle

LEMMA StillInv ==
  ASSUME RawInv, UNCHANGED <<given, phase, unsent, arrived, buffer, body, response>>
  PROVE  RawInv'
<1>1. Stream' = Stream
  BY Zenon DEF given, Stream, Reply
<1>. QED
  BY <1>1, Zenon
  DEF given, RawInv, Idle, Unread, InHeader, InBody, Over, Fallen, Untold, Flow, WholeBody

LEMMA ReceiveInv == ASSUME RawInv, Receive  PROVE RawInv'
<1>1. Idle
  BY DEF Receive, RawInv, Unread, InHeader, InBody, Over, Fallen
<1>2. reply'.body \in Body /\ reply'.length \in Nat
  <2>1. reply' \in Replies
    BY Zenon DEF Receive
  <2>2. CASE reply' \in [framing : {"length"}, length : Length, body : Body]
    BY <2>2, RawAssumption
  <2>3. CASE reply' \in [framing : {"chunked", "none", "garbled"}, length : {0}, body : Body]
    BY <2>3
  <2>. QED  BY <2>1, <2>2, <2>3, Zenon DEF Replies
<1>3. Stream' \in Seq(Byte) /\ unsent' = Stream'
  <2>1. reply'.body \in Seq(Byte) /\ <<>> \in Seq(Byte) /\ Header \in Seq(Byte)
    <3>1. reply'.body \in Seq(Byte)
      BY <1>2, RawAssumption, Zenon DEF Byte
    <3>2. <<>> \in Seq(Byte) /\ Header \in Seq(Byte)
      BY DEF Header, Byte
    <3>. QED  BY <3>1, <3>2, Zenon
  <2>2. PICK t \in Seq(Byte) : Stream' = Header \o t
    BY <2>1, Zenon DEF Stream, Reply
  <2>3. Stream' \in Seq(Byte)
    BY <2>1, <2>2, ConcatProperties
  <2>. QED  BY <2>3, Zenon DEF Receive, Stream
<1>4. Flow(0, 0)'
  BY <1>1, <1>3, PieceEnds DEF Flow, Receive, Idle
<1>. QED  BY <1>1, <1>2, <1>4 DEF Receive, Idle, RawInv, Unread, Untold

(* An answer that is not the backend's says nothing of the body.           *)
LEMMA OtherAnswer ==
  ASSUME NEW from, NEW text, from # "backend", Answer(from, text)
  PROVE  RawInv'
<1>1. phase' = "done" /\ response'.from = from
  BY DEF Answer
<1>. QED  BY <1>1, Zenon DEF RawInv, Over, WholeBody

LEMMA UnreadInv ==
  ASSUME RawInv, Handle \/ Route \/ Pooled \/ Connect \/ Write  PROVE RawInv'
<1>1. Unread /\ Untouched
  BY DEF Handle, Route, Pooled, Connect, Write, RawInv, Idle, InHeader, InBody, Over, Fallen
<1>2. \/ \E from : from # "backend" /\ Answer(from, <<>>)
      \/ UNCHANGED response /\ phase' \in {"route", "pooled", "connect", "write", "head"}
  BY DEF Handle, Route, Pooled, Connect, Write, Forward
<1>3. CASE \E from : from # "backend" /\ Answer(from, <<>>)
  BY <1>3, OtherAnswer, Zenon
<1>4. CASE UNCHANGED response /\ phase' \in {"route", "pooled", "connect", "write", "head"}
  <2>1. Stream' = Stream /\ Untold' /\ Flow(0, 0)' /\ buffer' = <<>>
    BY <1>1, <1>4, Zenon DEF Untouched, given, Stream, Reply, Unread, Untold, Flow
  <2>2. CASE phase' # "head"
    BY <1>4, <2>1, <2>2 DEF RawInv, Unread
  <2>3. CASE phase' = "head"
    <3>1. Stream \in Seq(Byte)
      BY <1>1, StreamHeader, Zenon DEF Unread, Untold
    <3>2. Piece(Stream, 0, 0) = <<>> /\ 0 \in 0..4 /\ 0 \in 0..Len(Stream)
      BY <3>1, PieceEnds
    <3>. QED  BY <2>1, <2>3, <3>2, Zenon DEF RawInv, InHeader
  <2>. QED  BY <2>2, <2>3, Zenon
<1>. QED  BY <1>2, <1>3, <1>4, Zenon

LEMMA SendsInv == ASSUME RawInv, BackendSends  PROVE RawInv'
<1>1. /\ UNCHANGED <<given, phase, buffer, body, response>> /\ unsent # <<>>
      /\ arrived' = Append(arrived, Head(unsent)) /\ unsent' = Tail(unsent)
      /\ InHeader \/ InBody
  BY DEF BackendSends, Reading, RawInv, Idle, Unread, Over, Fallen
<1>2. Stream' = Stream /\ (Untold => Untold')
  BY <1>1, Zenon DEF given, Stream, Reply, Untold
<1>3. Stream \in Seq(Byte) /\ Len(Stream) \in Nat
  BY <1>1, StreamHeader, PieceEnds, Zenon DEF InHeader, InBody, Untold
<1>4. ASSUME NEW p \in 0..Len(Stream), NEW q \in p..Len(Stream), Flow(p, q)
      PROVE  q + 1 \in p..Len(Stream) /\ Flow(p, q + 1)'
  <2>1. Piece(Stream, q, Len(Stream)) # <<>>
    BY <1>1, <1>4, Zenon DEF Flow
  <2>2. /\ q + 1 \in p..Len(Stream)
        /\ Append(Piece(Stream, p, q), Head(Piece(Stream, q, Len(Stream)))) =
              Piece(Stream, p, q + 1)
        /\ Tail(Piece(Stream, q, Len(Stream))) = Piece(Stream, q + 1, Len(Stream))
    BY <1>3, <2>1, PieceNext, Zenon
  <2>3. arrived' = Piece(Stream, p, q + 1) /\ unsent' = Piece(Stream, q + 1, Len(Stream))
    BY <1>1, <1>4, <2>2, Zenon DEF Flow
  <2>. QED  BY <1>2, <2>2, <2>3, Zenon DEF Flow
<1>5. CASE InHeader
  <2>1. PICK p \in 0..4 : \E q \in p..Len(Stream) : buffer = Piece(Stream, 0, p) /\ Flow(p, q)
    BY <1>5, Zenon DEF InHeader
  <2>2. PICK q \in p..Len(Stream) : buffer = Piece(Stream, 0, p) /\ Flow(p, q)
    BY <2>1, Zenon
  <2>3. p \in 0..Len(Stream)
    BY <1>3
  <2>4. q + 1 \in p..Len(Stream) /\ Flow(p, q + 1)'
    BY <1>4, <2>2, <2>3, Zenon
  <2>. QED  BY <1>1, <1>2, <1>5, <2>2, <2>4, Zenon DEF RawInv, InHeader
<1>6. CASE InBody
  <2>1. PICK p \in 5..Len(Stream) :
           \E q \in p..Len(Stream) : body = Piece(Stream, 5, p) /\ Flow(p, q)
    BY <1>6, Zenon DEF InBody
  <2>2. PICK q \in p..Len(Stream) : body = Piece(Stream, 5, p) /\ Flow(p, q)
    BY <2>1, Zenon
  <2>3. p \in 0..Len(Stream)
    BY <1>3
  <2>4. q + 1 \in p..Len(Stream) /\ Flow(p, q + 1)'
    BY <1>4, <2>2, <2>3, Zenon
  <2>. QED  BY <1>1, <1>2, <1>6, <2>2, <2>4, Zenon DEF RawInv, InBody, given
<1>. QED  BY <1>1, <1>5, <1>6, Zenon

LEMMA MinBelow ==
  ASSUME NEW a \in Int, NEW b \in Int, NEW c \in Int
  PROVE  /\ Min({a, c}) \in Int /\ Min({a, c}) <= c
         /\ Min({a, b, c}) \in Int /\ Min({a, b, c}) <= c /\ Min({a, b, c}) <= b
<1>1. \E x \in {a, c} : \A y \in {a, c} : x =< y
  OBVIOUS
<1>2. \E x \in {a, b, c} : \A y \in {a, b, c} : x =< y
  OBVIOUS
<1>3. Min({a, c}) \in {a, c} /\ \A y \in {a, c} : Min({a, c}) =< y
  BY <1>1, Zenon DEF Min
<1>4. Min({a, b, c}) \in {a, b, c} /\ \A y \in {a, b, c} : Min({a, b, c}) =< y
  BY <1>2, Zenon DEF Min
<1>. QED  BY <1>3, <1>4, Zenon

(* j bytes are taken out of the socket and put behind those from a on.     *)
LEMMA ReadFlow ==
  ASSUME Stream \in Seq(Byte), NEW p \in 0..Len(Stream), NEW q \in p..Len(Stream),
         Flow(p, q), NEW j \in 1..Len(arrived), NEW a \in 0..p
  PROVE  /\ p + j \in 0..Len(Stream) /\ q \in (p + j)..Len(Stream)
         /\ Len(SubSeq(arrived, 1, j)) = j
         /\ SubSeq(arrived, j + 1, Len(arrived)) = Piece(Stream, p + j, q)
         /\ Piece(Stream, a, p) \o SubSeq(arrived, 1, j) = Piece(Stream, a, p + j)
<1>0. PICK s \in Seq(Byte) : s = Stream
  BY Zenon
<1>1. Len(s) \in Nat /\ p \in Nat /\ q \in Nat /\ p <= q /\ q <= Len(s) /\ a \in Nat /\ a <= p
  BY <1>0, LenProperties
<1>2. p \in 0..Len(s) /\ q \in p..Len(s)
  BY <1>0, Zenon
<1>3. arrived = Piece(s, p, q) /\ Len(arrived) = q - p
  <2>1. arrived = Piece(s, p, q)
    BY <1>0, Zenon DEF Flow
  <2>. QED  BY <1>2, <2>1, PieceFacts, Zenon
<1>4. j \in Nat /\ 1 <= j /\ j <= q - p
  BY <1>1, <1>3
<1>5. /\ 0 \in 0..(q - p) /\ j \in 0..(q - p) /\ q - p \in j..(q - p)
      /\ p + 0 = p /\ p + (q - p) = q /\ 0 + 1 = 1
      /\ a \in 0..Len(s) /\ p \in a..Len(s) /\ p + j \in p..Len(s)
      /\ p + j \in 0..Len(s) /\ q \in (p + j)..Len(s) /\ (p + j) - p = j
  BY <1>1, <1>4
<1>6. Piece(Piece(s, p, q), 0, j) = Piece(s, p + 0, p + j)
  BY <1>2, <1>5, PiecePiece, Zenon
<1>7. Piece(Piece(s, p, q), j, q - p) = Piece(s, p + j, p + (q - p))
  BY <1>2, <1>5, PiecePiece, Zenon
<1>8. SubSeq(arrived, 1, j) = Piece(s, p, p + j)
  BY <1>3, <1>5, <1>6, Zenon DEF Piece
<1>9. SubSeq(arrived, j + 1, Len(arrived)) = Piece(s, p + j, q)
  BY <1>3, <1>5, <1>7, Zenon DEF Piece
<1>10. Len(Piece(s, p, p + j)) = j
  BY <1>2, <1>5, PieceFacts, Zenon
<1>11. Piece(s, a, p) \o Piece(s, p, p + j) = Piece(s, a, p + j)
  BY <1>5, PieceJoin, Zenon
<1>. QED  BY <1>0, <1>5, <1>8, <1>9, <1>10, <1>11, Zenon

(* What is answered when r bytes of the reply have been read.              *)
LEMMA BodyAnswer ==
  ASSUME Untold, NEW r \in 5..Len(Stream), UNCHANGED given,
         Answer("backend", Piece(Stream, 5, r)),
         reply.framing = "length" =>
            r - 5 >= reply.length /\ (r - 5 > reply.length => Len(buffer') = r)
  PROVE  RawInv'
<1>1. r - 5 \in 0..Len(reply.body) /\ Piece(Stream, 5, r) = SubSeq(reply.body, 1, r - 5)
  BY StreamBody, Zenon DEF Untold
<1>2. reply.body \in Seq(Byte) /\ Len(reply.body) \in Nat
  BY StreamHeader, LenProperties, Zenon DEF Untold
<1>3. PICK b : b = response'.body
  OBVIOUS
<1>4. /\ b = SubSeq(reply.body, 1, r - 5) /\ phase' = "done" /\ reply' = reply
  BY <1>1, <1>3 DEF Answer, given
<1>5. PICK n : n = r - 5
  OBVIOUS
<1>6. n \in 0..Len(reply.body) /\ Len(b) = n
  <2>1. PICK t \in Seq(Byte) : t = reply.body
    BY <1>2, Zenon
  <2>2. /\ 0 \in 0..Len(t) /\ n \in 0..Len(t) /\ n - 0 = n /\ 0 + 1 = 1
    BY <1>1, <1>2, <1>5, <2>1
  <2>3. Len(Piece(t, 0, n)) = n - 0
    BY <2>2, PieceFacts, Zenon
  <2>4. b = SubSeq(t, 1, n)
    BY <1>4, <1>5, <2>1, Zenon
  <2>. QED  BY <2>1, <2>2, <2>3, <2>4, Zenon DEF Piece
<1>7. n <= Len(reply.body) /\ r = 5 + n /\ Len(Header) = 5
  BY <1>2, <1>5, <1>6 DEF Header
<1>8. WholeBody'
  BY <1>3, <1>4, <1>5, <1>6, <1>7, Zenon DEF WholeBody
<1>. QED  BY <1>4, <1>8, Zenon DEF RawInv, Over

LEMMA ReadHeadInv == ASSUME RawInv, ReadHead  PROVE RawInv'
<1>1. InHeader /\ UNCHANGED <<given, unsent>>
  BY DEF ReadHead, RawInv, Idle, Unread, InBody, Over, Fallen
<1>2. Stream' = Stream /\ Untold /\ reply' = reply
  BY <1>1, Zenon DEF InHeader, given, Stream, Reply
<1>3. Stream \in Seq(Byte) /\ HasHeader(Stream) /\ Len(Stream) \in Nat
  BY <1>2, StreamHeader, PieceEnds, Zenon DEF Untold
<1>4. PICK p \in 0..4 : \E q \in p..Len(Stream) : buffer = Piece(Stream, 0, p) /\ Flow(p, q)
  BY <1>1, Zenon DEF InHeader
<1>5. PICK q \in p..Len(Stream) : buffer = Piece(Stream, 0, p) /\ Flow(p, q)
  BY <1>4, Zenon
<1>6. p \in 0..Len(Stream) /\ 0 \in 0..p /\ p \in Nat
  BY <1>3
<1>7. Len(arrived) \in Nat
  <2>1. arrived \in Seq(Byte)
    BY <1>3, <1>5, <1>6, PieceFacts, Zenon DEF Flow
  <2>. QED  BY <2>1, LenProperties, Zenon
<1>8. PICK got \in {SubSeq(arrived, 1, i) : i \in 1..Min({ReadSize, Len(arrived)})} :
         /\ arrived' = SubSeq(arrived, Len(got) + 1, Len(arrived))
         /\ buffer' = buffer \o got
         /\ IF HeaderEnd(buffer \o got) = 0
            THEN UNCHANGED <<phase, body, response>>
            ELSE Parse(buffer \o got)
  BY Zenon DEF ReadHead
<1>9. PICK j \in 1..Len(arrived) : got = SubSeq(arrived, 1, j)
  <2>1. PICK i \in 1..Min({ReadSize, Len(arrived)}) : got = SubSeq(arrived, 1, i)
    BY <1>8, Zenon
  <2>2. ReadSize \in Int /\ Len(arrived) \in Int
    BY <1>7, RawAssumption
  <2>3. Min({ReadSize, Len(arrived)}) \in Int /\ Min({ReadSize, Len(arrived)}) <= Len(arrived)
    BY <2>2, MinBelow, Zenon
  <2>4. i \in 1..Len(arrived)
    BY <1>7, <2>3
  <2>. QED  BY <2>1, <2>4, Zenon
<1>10. /\ p + j \in 0..Len(Stream) /\ q \in (p + j)..Len(Stream) /\ Len(got) = j
       /\ arrived' = Piece(Stream, p + j, q) /\ buffer \o got = Piece(Stream, 0, p + j)
  <2>1. /\ p + j \in 0..Len(Stream) /\ q \in (p + j)..Len(Stream)
        /\ Len(SubSeq(arrived, 1, j)) = j
        /\ SubSeq(arrived, j + 1, Len(arrived)) = Piece(Stream, p + j, q)
        /\ Piece(Stream, 0, p) \o SubSeq(arrived, 1, j) = Piece(Stream, 0, p + j)
    BY <1>3, <1>5, <1>6, ReadFlow, Zenon
  <2>. QED  BY <1>5, <1>8, <1>9, <2>1, Zenon
<1>11. PICK r \in 0..Len(Stream) : r = p + j
  BY <1>10, Zenon
<1>12. Flow(r, q)'
  BY <1>1, <1>2, <1>5, <1>10, <1>11, Zenon DEF Flow
<1>13. HeaderEnd(buffer \o got) = IF r < 5 THEN 0 ELSE 5
  BY <1>3, <1>10, <1>11, HeaderFound, Zenon
<1>14. CASE r < 5
  <2>1. r \in 0..4 /\ UNCHANGED <<phase, response>>
    BY <1>3, <1>8, <1>13, <1>14
  <2>2. Untold' /\ phase' = "head"
    BY <1>1, <1>2, <2>1, Zenon DEF Untold, InHeader
  <2>3. buffer' = Piece(Stream', 0, r) /\ q \in r..Len(Stream')
    BY <1>2, <1>8, <1>10, <1>11, Zenon
  <2>. QED  BY <1>12, <2>1, <2>2, <2>3, Zenon DEF RawInv, InHeader
<1>15. CASE r >= 5
  <2>1. HeaderEnd(buffer \o got) = 5 /\ r \in 5..Len(Stream) /\ r \in Nat
    BY <1>3, <1>13, <1>15
  <2> DEFINE rest == SubSeq(buffer \o got, HeaderEnd(buffer \o got) + 1, Len(buffer \o got))
  <2>2. rest = Piece(Stream, 5, r)
    <3>1. 0 \in 0..Len(Stream) /\ r \in 0..Len(Stream) /\ 5 \in 0..(r - 0) /\ r \in 5..(r - 0)
          /\ r - 0 = r /\ 0 + 5 = 5 /\ 0 + r = r
      BY <1>3, <2>1
    <3>2. Piece(Piece(Stream, 0, r), 5, r) = Piece(Stream, 0 + 5, 0 + r)
      BY <1>3, <3>1, PiecePiece, Zenon
    <3>3. Len(Piece(Stream, 0, r)) = r - 0
      BY <1>3, <3>1, PieceFacts, Zenon
    <3>. QED  BY <1>10, <1>11, <2>1, <3>1, <3>2, <3>3, Zenon DEF Piece
  <2>3. Len(rest) = r - 5
    <3>1. 5 \in 0..Len(Stream)
      BY <1>3, <2>1
    <3>2. Len(Piece(Stream, 5, r)) = r - 5
      BY <1>3, <2>1, <3>1, PieceFacts, Zenon
    <3> HIDE DEF rest
    <3>. QED  BY <2>2, <3>2, Zenon
  <2> HIDE DEF rest
  <2>4. CASE Answer("503", <<>>)
    BY <2>4, OtherAnswer
  <2>5. CASE Answer("backend", rest) /\ reply.framing # "length"
    BY <1>1, <1>2, <2>1, <2>2, <2>5, BodyAnswer, Zenon
  <2>6. CASE Answer("backend", rest) /\ Len(rest) >= reply.length
    <3>1. r - 5 >= reply.length
      BY <2>3, <2>6, Zenon
    <3>2. Len(buffer') = r
      <4>1. 0 \in 0..Len(Stream) /\ r \in 0..Len(Stream) /\ r - 0 = r
        BY <1>3, <2>1
      <4>2. Len(Piece(Stream, 0, r)) = r - 0
        BY <1>3, <4>1, PieceFacts, Zenon
      <4>. QED  BY <1>8, <1>10, <1>11, <4>1, <4>2, Zenon
    <3>. QED  BY <1>1, <1>2, <2>1, <2>2, <2>6, <3>1, <3>2, BodyAnswer, Zenon
  <2>7. CASE phase' = "body" /\ body' = rest /\ UNCHANGED response
    <3>1. Untold'
      BY <1>2, <2>7, Zenon DEF Untold
    <3>2. r \in 5..Len(Stream') /\ q \in r..Len(Stream') /\ body' = Piece(Stream', 5, r)
      BY <1>2, <1>10, <1>11, <2>1, <2>2, <2>7, Zenon
    <3>. QED  BY <1>12, <2>7, <3>1, <3>2, Zenon DEF RawInv, InBody
  <2>10. CASE phase' = "panicked" /\ UNCHANGED response
    BY <1>2, <2>10, Zenon DEF Untold, RawInv, Fallen
  <2>8. Parse(buffer \o got)
    BY <1>8, <2>1
  <2>9. \/ Answer("503", <<>>)
        \/ Answer("backend", rest) /\ reply.framing # "length"
        \/ Framed(rest)
    BY <2>8 DEF Parse, rest
  <2>. QED  BY <2>4, <2>5, <2>6, <2>7, <2>9, <2>10, Zenon DEF Framed
<1>. QED  BY <1>11, <1>14, <1>15

LEMMA ReadBodyInv == ASSUME RawInv, ReadBody  PROVE RawInv'
<1>1. InBody /\ UNCHANGED <<given, unsent>>
  BY DEF ReadBody, RawInv, Idle, Unread, InHeader, Over, Fallen
<1>2. Stream' = Stream /\ Untold /\ reply' = reply
  BY <1>1, Zenon DEF InBody, given, Stream, Reply
<1>3. Stream \in Seq(Byte) /\ Len(Stream) \in Nat /\ reply.body \in Seq(Byte)
  BY <1>2, StreamHeader, PieceEnds, Zenon DEF Untold
<1>4. PICK p \in 5..Len(Stream) : \E q \in p..Len(Stream) : body = Piece(Stream, 5, p) /\ Flow(p, q)
  BY <1>1, Zenon DEF InBody
<1>5. PICK q \in p..Len(Stream) : body = Piece(Stream, 5, p) /\ Flow(p, q)
  BY <1>4, Zenon
<1>6. p \in 0..Len(Stream) /\ 5 \in 0..p /\ p \in Nat /\ 5 \in 0..Len(Stream)
  BY <1>3
<1>7. Len(arrived) \in Nat /\ Len(body) = p - 5 /\ reply.length \in Nat
  <2>1. arrived \in Seq(Byte) /\ Len(body) = p - 5
    BY <1>3, <1>5, <1>6, PieceFacts, Zenon DEF Flow
  <2>. QED  BY <1>2, <2>1, LenProperties, Zenon DEF Untold
<1>8. PICK j \in 1..Min({ReadSize, reply.length - Len(body), Len(arrived)}) :
         /\ arrived' = SubSeq(arrived, j + 1, Len(arrived))
         /\ body' = body \o SubSeq(arrived, 1, j)
         /\ IF Len(body) + j < reply.length
            THEN UNCHANGED <<phase, response>>
            ELSE Answer("backend", body \o SubSeq(arrived, 1, j))
  BY Zenon DEF ReadBody
<1>9. j \in 1..Len(arrived) /\ j <= reply.length - Len(body)
  <2>1. ReadSize \in Int /\ reply.length - Len(body) \in Int /\ Len(arrived) \in Int
    BY <1>6, <1>7, RawAssumption
  <2>2. /\ Min({ReadSize, reply.length - Len(body), Len(arrived)}) \in Int
        /\ Min({ReadSize, reply.length - Len(body), Len(arrived)}) <= Len(arrived)
        /\ Min({ReadSize, reply.length - Len(body), Len(arrived)}) <= reply.length - Len(body)
    BY <2>1, MinBelow, Zenon
  <2>. QED  BY <1>7, <2>1, <2>2
<1>10. /\ p + j \in 0..Len(Stream) /\ q \in (p + j)..Len(Stream)
       /\ SubSeq(arrived, j + 1, Len(arrived)) = Piece(Stream, p + j, q)
       /\ Piece(Stream, 5, p) \o SubSeq(arrived, 1, j) = Piece(Stream, 5, p + j)
  BY <1>3, <1>5, <1>6, <1>9, ReadFlow, Zenon
<1>11. PICK r \in 5..Len(Stream) : r = p + j
  BY <1>3, <1>4, <1>7, <1>9, <1>10
<1>12. Flow(r, q)' /\ body \o SubSeq(arrived, 1, j) = Piece(Stream, 5, r)
  BY <1>1, <1>2, <1>5, <1>8, <1>10, <1>11, Zenon DEF Flow
<1>13. CASE Len(body) + j < reply.length
  <2>1. Untold' /\ phase' = "body"
    BY <1>1, <1>2, <1>8, <1>13, Zenon DEF Untold, InBody
  <2>2. r \in 5..Len(Stream') /\ q \in r..Len(Stream') /\ body' = Piece(Stream', 5, r)
    BY <1>2, <1>8, <1>10, <1>11, <1>12, Zenon
  <2>. QED  BY <1>12, <2>1, <2>2, Zenon DEF RawInv, InBody
<1>14. CASE ~(Len(body) + j < reply.length)
  <2>1. r - 5 >= reply.length /\ ~(r - 5 > reply.length)
    BY <1>6, <1>7, <1>9, <1>11, <1>14
  <2>2. Answer("backend", Piece(Stream, 5, r))
    BY <1>8, <1>12, <1>14
  <2>. QED  BY <1>1, <1>2, <2>1, <2>2, BodyAnswer, Zenon
<1>. QED  BY <1>13, <1>14, Zenon

LEMMA FailInv == ASSUME Fail  PROVE RawInv'
  BY OtherAnswer DEF Fail

LEMMA TaskInv == ASSUME RawInv, Task \/ IoFails  PROVE RawInv'
<1>1. CASE Handle \/ Route \/ Pooled \/ Connect \/ Write
  BY <1>1, UnreadInv, Zenon
<1>2. CASE ReadsEnd \/ TimesOut \/ IoFails
  BY <1>2, FailInv, Zenon DEF ReadsEnd, TimesOut, IoFails
<1>. QED  BY <1>1, <1>2, ReadHeadInv, ReadBodyInv, Zenon DEF Task

(* The server: whatever its process does, the request is as in HttpRaw     *)
(* until it is dropped.                                                    *)
LEMMA ServerKeepsRaw == RawInv /\ [ServerNext]_serverVars => RawInv'
<1>. SUFFICES ASSUME RawInv, [ServerNext]_serverVars  PROVE RawInv'
  BY Zenon
<1>1. CASE UNCHANGED vars
  BY <1>1, StillInv, Zenon DEF vars
<1>2. CASE BackendCloses
  BY <1>2, StillInv, Zenon DEF BackendCloses
<1>. QED
  BY <1>1, <1>2, DroppedInv, ReceiveInv, TaskInv, SendsInv, Zenon
  DEF ServerNext, Process, RequestToo, Receives, Handles, Backend, Aborts, Finishes, Ended, serverVars

(* However TCP cuts the reply of a raw backend into pieces and wherever it *)
(* breaks off, the client gets bytes from behind the header only, no fewer *)
(* than the Content-Length declares, and more only if they had been read   *)
(* with the header: for all bodies, lengths and sizes of the reads,        *)
(* whatever the rest of the process does (handler.rs 275-366).             *)
THEOREM BodiesAreWhole == ServerSpec => []WholeBody
<1>1. ServerInit => RawInv
  BY Zenon DEF ServerInit, Init, RawInv, Idle
<1>2. RawInv => WholeBody
  <2>1. Nothing.from = "nobody"
    BY DEF Nothing
  <2>. QED
    BY <2>1, Zenon DEF RawInv, Idle, Unread, InHeader, InBody, Over, Fallen, Untold, WholeBody
<1>. QED  BY <1>1, <1>2, ServerKeepsRaw, PTL DEF ServerSpec

(* The server with its request is the process of Startup: what holds of    *)
(* every start-up holds while a request is followed, and a request changes *)
(* nothing for the process.                                                *)
THEOREM ServerIsStartup == ServerSpec => StartupSpec
<1>1. ServerInit => StartupInit
  BY Zenon DEF ServerInit
<1>2. [ServerNext]_serverVars => [StartupNext]_startupVars
  <2>1. Aborts => StartupNext
    BY ServerAssumption, Zenon DEF Aborts, StartupNext
  <2>. QED
    BY <2>1, Zenon
    DEF ServerNext, Process, Receives, Handles, Backend, Finishes, Ended, serverVars, StartupNext
<1>. QED  BY <1>1, <1>2, PTL DEF ServerSpec, StartupSpec

(* So the server, too, hands connections only to complete adapters, fails  *)
(* closed where TLS cannot be set up, and serves every port, while         *)
(* requests come and go (tcp/server.rs 80-118, http/server.rs 52-103).     *)
THEOREM ServerAsConfigured ==
  ServerSpec => [](HandledAsConfigured /\ FailsClosed /\ ServesEveryPort)
  BY ServerIsStartup, AdapterIsConfigured, TlsFailsClosed, EveryPortIsServed, PTL
=============================================================================
