------------------------------ MODULE HttpServer ------------------------------
(***************************************************************************)
(* The process of Startup serving the request of HttpRaw: a client that a   *)
(* worker of the HTTP server has accepted sends one request, while other    *)
(* workers are still being started, accepts fail, or the process ends.      *)
(* A process that runs one of the other servers, or whose requests are not  *)
(* followed, is as in Startup.                                              *)
(***************************************************************************)
EXTENDS Startup, HttpRaw

CONSTANTS
    Requester,      \* the client whose request HttpRaw is about
    Followed        \* the environments in which it is followed

ASSUME ServerAssumption ==
    /\ Requester \in Client
    /\ \A e \in Followed : e \in Environment /\ resolve_protocol(e) = "http"

serverVars == <<startupVars, vars>>

ServerInit == StartupInit /\ Init

(* serve_connection calls handle in the task of the connection.             *)
Serving == env \in Followed /\ client[Requester].at = "served"

Receives == Serving /\ Receive /\ UNCHANGED startupVars

Handles == Serving /\ Task /\ UNCHANGED startupVars

Backend == Serving /\ (BackendSends \/ BackendCloses \/ IoFails) /\ UNCHANGED startupVars

Finishes(c) ==
    /\ env \in Followed /\ c = Requester => phase \in {"done", "panicked"}
    /\ Finish(c)
    /\ IF c = Requester THEN Dropped ELSE UNCHANGED vars

(* A panic of handle ends the task of the connection, or the process.       *)
Aborts == Serving /\ phase = "panicked" /\ Abort(Requester) /\ Dropped

(* When the process ends, the request is gone too.                          *)
RequestToo == IF main' = "exited" THEN Dropped ELSE UNCHANGED vars

Process == StartupStep /\ RequestToo

Ended == ~Running /\ UNCHANGED serverVars

ServerNext ==
    \/ Process \/ Receives \/ Handles \/ Backend \/ Aborts
    \/ (\E c \in Client : Finishes(c)) \/ Ended

ServerSpec == ServerInit /\ [][ServerNext]_serverVars

(* The main task, the accept loops and the task of the request are polled,  *)
(* a worker's hook comes to an end, and every wait of the request has a     *)
(* timeout.                                                                 *)
FairServerSpec ==
    /\ ServerSpec
    /\ WF_serverVars(Main /\ RequestToo)
    /\ \A i \in Slot : WF_serverVars(Loop(i) /\ RequestToo)
    /\ WF_serverVars(Handles)

-----------------------------------------------------------------------------
(* Properties.                                                              *)

(* Every request received is answered, by a backend that stalls at any byte *)
(* too, unless the process ends or the backend declares a Content-Length    *)
(* for which no buffer can be had: allocating it is the only panic          *)
(* (handler.rs 53-102, 349).                                                *)
RequestAnswered ==
    phase = "handle" ~>
        \/ phase = "done" \/ main = "exited"
        \/ phase = "panicked" /\ reply.length > Capacity
=============================================================================
