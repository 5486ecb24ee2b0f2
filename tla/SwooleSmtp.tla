----------------------------- MODULE SwooleSmtp -----------------------------
(***************************************************************************)
(* One client of the PHP SMTP server (Server/SMTP/Swoole.php).  Swoole     *)
(* hands onReceive the complete lines that have arrived, one or several at *)
(* a time, and onReceive looks at the first of them.  onReceive runs in a  *)
(* coroutine, so onClose may run wherever it waits.  A read of the backend *)
(* that fails is not an error: the session goes on without the reply.      *)
(* One read is taken for one reply, which TCP may deliver in two pieces.   *)
(*                                                                         *)
(* The client waits for a handler to end before it sends again, as the     *)
(* comment on forwardCommand assumes.  The backend is external.            *)
(***************************************************************************)
EXTENDS Naturals, Sequences

CONSTANTS
    MaxPackets, \* bound on the packets of a session
    Coalesce,   \* a packet may hold two lines
    Split       \* a reply may arrive in two reads

ASSUME SwooleSmtpAssumption == MaxPackets \in Nat /\ {Coalesce, Split} \subseteq BOOLEAN

VARIABLES
    pc,         \* where the onReceive coroutine waits, or "idle"
    n,          \* the number of the packet
    pkt,        \* its lines
    state,      \* Connection::state
    sock,       \* Connection::backend: "none", "open" or "closed"
    entry,      \* connections[fd] is set
    gone,       \* the client has closed
    shut,       \* the server has closed the client's fd
    told,       \* onClose has run
    relayed,    \* <<k, r>>: reply to packet r sent while packet k was handled
    plain,      \* every packet was one line, and every read of a reply has
                \* taken a reply to its end
    mode,       \* the backend's own mode
    alive,      \* the backend has its end open
    inbox,      \* lines on their way to the backend
    out         \* replies on their way to the proxy

backendVars == <<mode, alive, inbox, out>>
clientVars  == <<gone, shut, told>>
vars == <<pc, n, pkt, state, sock, entry, clientVars, relayed, plain, backendVars>>

Hello == "EHLO domain"
Verbs == {"MAIL", "DATA", "DATA arg", "QUIT"}
Lines == {Hello, "EHLO", "text", ".", " ."} \cup Verbs

(* The pairs are a pipelined DATA, the end of a message and a bare EHLO.   *)
Pairs   == {<<"MAIL", "DATA">>, <<"text", ".">>, <<"EHLO", "MAIL">>}
Packets == {<<l>> : l \in Lines} \cup IF Coalesce THEN Pairs ELSE {}

(* What handleHelo, forwardCommand and forwardData make of a packet.  The  *)
(* pattern of handleHelo lets the domain follow on the next line.          *)
HasDomain(p)     == p[1] = Hello \/ (p[1] = "EHLO" /\ Len(p) > 1)
IsDataCommand(p) == p = <<"DATA">>
IsTerminator(p)  == p \in {<<".">>, <<" .">>}

(* After onConnect.                                                        *)
Init ==
    /\ pc = "idle" /\ n = 0 /\ pkt = <<"text">>
    /\ state = "command" /\ sock = "none" /\ entry = TRUE
    /\ gone = FALSE /\ shut = FALSE /\ told = FALSE
    /\ relayed = {} /\ plain = TRUE
    /\ mode = "greeting" /\ alive = FALSE /\ inbox = <<>> /\ out = <<>>

-----------------------------------------------------------------------------
(* The peers.                                                              *)

ClientCloses ==
    /\ ~gone
    /\ gone' = TRUE
    /\ UNCHANGED <<pc, n, pkt, state, sock, entry, shut, told, relayed, plain, backendVars>>

Part(k, code, part) == [of |-> k, code |-> code, part |-> part]

Reply(k, code) ==
    \/ out' = Append(out, Part(k, code, "whole"))
    \/ Split /\ out' = out \o <<Part(k, code, "head"), Part(k, code, "tail")>>

BackendGreets ==
    /\ alive /\ mode = "greeting"
    /\ \E code \in {"220", "554"} : Reply(0, code)
    /\ mode' = "command"
    /\ UNCHANGED <<pc, n, pkt, state, sock, entry, clientVars, relayed, plain, alive, inbox>>

BackendHandles ==
    /\ alive /\ inbox # <<>>
    /\ LET k == Head(inbox).packet
           l == Head(inbox).kind
       IN  \/ /\ mode = "command" /\ l = "DATA"
              /\ Reply(k, "354") /\ mode' = "data"
           \/ /\ mode = "command"
              /\ Reply(k, "other") /\ mode' = mode
           \/ /\ mode = "data" /\ l = "."
              /\ Reply(k, "other") /\ mode' = "command"
           \/ /\ mode = "data" /\ l # "."
              /\ UNCHANGED <<out, mode>>
    /\ inbox' = Tail(inbox)
    /\ UNCHANGED <<pc, n, pkt, state, sock, entry, clientVars, relayed, plain, alive>>

BackendCloses ==
    /\ alive
    /\ alive' = FALSE
    /\ UNCHANGED <<pc, n, pkt, state, sock, entry, clientVars, relayed, plain, mode, inbox, out>>

-----------------------------------------------------------------------------
(* Mistakes of the kind this code invites, for checking that the           *)
(* properties notice them; no action uses these.                           *)

(* DATA switches the mode whatever the backend answers.                    *)
ReadReplyAlwaysData ==
    /\ pc = "reply" /\ sock = "open" /\ out # <<>>
    /\ out' = <<>>
    /\ relayed' = relayed \cup {<<n, out[i].of>> : i \in DOMAIN out}
    /\ state' = IF IsDataCommand(pkt) THEN "data" ELSE state
    /\ pc' = "idle" /\ sock' = IF entry THEN sock ELSE "closed"
    /\ UNCHANGED <<n, pkt, entry, clientVars, plain, mode, alive, inbox>>

(* The reply to QUIT is not waited for.                                    *)
SendCommandQuits ==
    /\ pc = "send" /\ state = "command"
    /\ sock = "open"
    /\ inbox' = inbox \o [i \in DOMAIN pkt |-> [packet |-> n, kind |-> pkt[i], as |-> state]]
    /\ IF pkt = <<"QUIT">>
       THEN pc' = "idle" /\ sock' = IF entry THEN sock ELSE "closed"
       ELSE pc' = "reply" /\ sock' = sock
    /\ UNCHANGED <<n, pkt, state, entry, clientVars, relayed, plain, mode, alive, out>>

(* The greeting is waited for without a timeout.                           *)
GreetFailsOnClose ==
    /\ pc = "greet"
    /\ IF out = <<>> THEN ~alive ELSE out[1] # Part(0, "220", "whole")
    /\ pc' = "idle" /\ sock' = IF entry \/ sock = "none" THEN sock ELSE "closed"
    /\ shut' = TRUE
    /\ UNCHANGED <<n, pkt, state, entry, gone, told, relayed, plain, backendVars>>

(* The entry stays, and with it a backend whose dial ends later.           *)
OnCloseKeepsEntry ==
    /\ ~told /\ (gone \/ shut)
    /\ told' = TRUE
    /\ sock' = IF sock = "open" THEN "closed" ELSE sock
    /\ UNCHANGED <<pc, n, pkt, state, entry, gone, shut, relayed, plain, backendVars>>

-----------------------------------------------------------------------------
(* onReceive.                                                              *)

(* The coroutine ends and lets go of $connection; PHP then frees it, and   *)
(* closes its backend, unless the entry still refers to it.                *)
Return(backend) ==
    /\ pc' = "idle"
    /\ sock' = IF entry \/ backend = "none" THEN backend ELSE "closed"

(* An exception: 421 to the client, whose fd is closed.                    *)
Fail ==
    /\ Return(sock)
    /\ shut' = TRUE
    /\ UNCHANGED <<n, pkt, state, entry, gone, told, relayed, plain, backendVars>>

OnReceive ==
    /\ pc = "idle" /\ n < MaxPackets
    /\ ~gone /\ ~shut
    /\ \E p \in Packets :
        /\ pkt' = p
        /\ plain' = (plain /\ Len(p) = 1)
        /\ pc' = IF state = "data" \/ p[1] \in Verbs THEN "send"
                 ELSE IF HasDomain(p) THEN "dial"
                 ELSE "idle"            \* 500 or 501, from the proxy itself
    /\ n' = n + 1
    /\ UNCHANGED <<state, sock, entry, clientVars, relayed, backendVars>>

(* handleHelo: route, then connect.  The backend of an earlier EHLO is     *)
(* not used again: it is replaced, or the session ends.                    *)
Dial ==
    /\ pc = "dial"
    /\ pc' = "greet"
    /\ mode' = "greeting" /\ alive' = TRUE /\ inbox' = <<>> /\ out' = <<>>
    /\ UNCHANGED <<n, pkt, state, sock, entry, clientVars, relayed, plain>>

DialFails ==
    /\ pc = "dial"
    /\ Fail

(* A read takes whatever has arrived, one piece or more.                   *)
Arrived == {SubSeq(out, 1, k) : k \in 1..Len(out)}

Consume(chunk) ==
    /\ out' = SubSeq(out, Len(chunk) + 1, Len(out))
    /\ plain' = (plain /\ chunk[Len(chunk)].part # "head")

(* The codes it may begin with: a reply may be cut within its code or      *)
(* behind it, and its rest may begin with the code once more.              *)
Begins(chunk) ==
    IF chunk[1].part = "whole" \/ (chunk[1].part = "head" /\ Len(chunk) > 1)
    THEN {chunk[1].code}
    ELSE {chunk[1].code, "other"}

Greeted ==
    /\ pc = "greet"
    /\ \E chunk \in Arrived : "220" \in Begins(chunk) /\ Consume(chunk)
    /\ sock' = "open"
    /\ pc' = "send"
    /\ UNCHANGED <<n, pkt, state, entry, clientVars, relayed, mode, alive, inbox>>

(* Another greeting, the end of the stream or a timeout.                   *)
GreetFails ==
    /\ pc = "greet"
    /\ out # <<>> => \E chunk \in Arrived : Begins(chunk) # {"220"}
    /\ Fail

Forwarded ==
    inbox' = inbox \o [i \in DOMAIN pkt |-> [packet |-> n, kind |-> pkt[i], as |-> state]]

(* forwardCommand up to its read.  A write to a peer that has closed may   *)
(* still succeed.                                                          *)
SendCommand ==
    /\ pc = "send" /\ state = "command"
    /\ sock = "open"
    /\ Forwarded
    /\ pc' = "reply"
    /\ UNCHANGED <<n, pkt, state, sock, entry, clientVars, relayed, plain, mode, alive, out>>

(* forwardData: only the terminator is answered, and it ends data mode     *)
(* before the answer is read.                                              *)
SendData ==
    /\ pc = "send" /\ state = "data"
    /\ sock = "open"
    /\ Forwarded
    /\ IF IsTerminator(pkt)
       THEN state' = "command" /\ pc' = "final" /\ sock' = sock
       ELSE state' = state /\ Return(sock)
    /\ UNCHANGED <<n, pkt, entry, clientVars, relayed, plain, mode, alive, out>>

(* No backend, one that onClose has closed, or one that no longer reads.   *)
SendFails ==
    /\ pc = "send"
    /\ sock = "open" => ~alive
    /\ Fail

RelayReply(chunk) ==
    relayed' = relayed \cup {<<n, chunk[i].of>> : i \in DOMAIN chunk}

ReadReply ==
    /\ pc = "reply" /\ sock = "open"
    /\ \E chunk \in Arrived :
        /\ Consume(chunk)
        /\ RelayReply(chunk)
        /\ \E code \in Begins(chunk) :
              state' = IF IsDataCommand(pkt) /\ code = "354" THEN "data" ELSE state
    /\ Return(sock)
    /\ UNCHANGED <<n, pkt, entry, clientVars, mode, alive, inbox>>

ReadFinal ==
    /\ pc = "final" /\ sock = "open"
    /\ \E chunk \in Arrived : Consume(chunk) /\ RelayReply(chunk)
    /\ Return(sock)
    /\ UNCHANGED <<n, pkt, state, entry, clientVars, mode, alive, inbox>>

(* The read times out, or the backend or onClose has closed the socket:    *)
(* the handler ends as if nothing were due.                                *)
ReadFails ==
    /\ pc \in {"reply", "final"}
    /\ sock = "closed" \/ out = <<>>
    /\ plain' = (plain /\ (sock = "closed" \/ ~alive))
    /\ Return(sock)
    /\ UNCHANGED <<n, pkt, state, entry, clientVars, relayed, backendVars>>

OnClose ==
    /\ ~told /\ (gone \/ shut)
    /\ told' = TRUE
    /\ entry' = FALSE
    /\ sock' = IF sock = "open" THEN "closed" ELSE sock
    /\ UNCHANGED <<pc, n, pkt, state, gone, shut, relayed, plain, backendVars>>

-----------------------------------------------------------------------------
Peers == ClientCloses \/ BackendGreets \/ BackendHandles \/ BackendCloses

Handler ==
    \/ Dial \/ DialFails \/ Greeted \/ GreetFails \/ SendCommand \/ SendData
    \/ SendFails \/ ReadReply \/ ReadFinal \/ ReadFails

Finished == pc = "idle" /\ told /\ UNCHANGED vars

Next == Peers \/ OnReceive \/ Handler \/ OnClose \/ Finished

Spec == Init /\ [][Next]_vars

(* Swoole resumes a coroutine whose wait is over, every wait on the        *)
(* backend has a timeout, and onClose is called for every closed client.   *)
(* When the client or the backend act is not assumed.                      *)
FairSpec == Spec /\ WF_vars(Handler) /\ WF_vars(OnClose)

-----------------------------------------------------------------------------
(* Properties.                                                             *)

(* While lines arrive one at a time and each read of a reply takes it to   *)
(* its end, server and backend agree on what a line is: none that          *)
(* onReceive took for message text is executed as a command, nor the other *)
(* way round, however often the backend is replaced, refuses DATA or       *)
(* closes (Swoole.php 141-145, 226-231).                                   *)
ModeAgreement ==
    plain /\ alive =>
        /\ \A i \in DOMAIN inbox : inbox[i].as = mode
        /\ pc = "idle" /\ sock = "open" /\ ~shut => state = mode

(* Under the same conditions what the client gets for a packet is the      *)
(* reply to it (Swoole.php 195-200).                                       *)
OwnReply == plain => \A r \in relayed : r[1] = r[2]

(* Once the client is closed and no handler runs, no connection to a       *)
(* backend is left open, also if onClose ran while one was being dialled   *)
(* (Swoole.php 278-287).                                                   *)
NothingLeft == told /\ pc = "idle" => sock # "open"

(* A session whose client has gone away is cleaned up, whatever the        *)
(* backend does.                                                           *)
SessionEnds == gone ~> told /\ pc = "idle"
=============================================================================
